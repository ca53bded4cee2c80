---------------------------- MODULE ModelSource ----------------------------
(***************************************************************************)
(* Finding a model and pulling it from the hub                             *)
(* (src/src/core/model_source.cpp, src/src/core/hf_download.cpp).          *)
(* Processes that share the cache directory resolve a model name at the    *)
(* same time; each may be killed between any two file operations and       *)
(* started again, and every request and file operation may fail.  Only the *)
(* files survive a process.                                                *)
(*                                                                         *)
(* A file is absent, being written, whole, or "short": transferred without *)
(* an error, but for the tail that the unchecked close() of download_file  *)
(* could not flush.  A process's temporary names carry its pid, so they    *)
(* belong to it, and it can remove them.  Nothing keeps two processes from *)
(* pulling the same repository.                                            *)
(***************************************************************************)
EXTENDS Naturals, FiniteSets

CONSTANTS
    Proc,         \* processes
    ModelFile,    \* names on the keep list of select_files_to_download
    Weights,      \* those that end in .safetensors
    Config,       \* config.json
    Gguf,         \* .gguf names
    Listings,     \* what the hub may list: sets of names of either kind
    Tag,          \* requested variants
    Contains,     \* [Tag -> SUBSET Gguf], names that contain the tag
    MaxStarts     \* bound: process starts, all processes together

ASSUME NamesAssumption ==
    /\ Config \in ModelFile \ Weights /\ Weights \subseteq ModelFile
    /\ Contains \in [Tag -> SUBSET Gguf]
    /\ ModelFile \cap Gguf = {}
    /\ {"none", "dest", "hub", "local"} \cap (ModelFile \cup Gguf) = {}
ASSUME StartsAssumption == MaxStarts \in Nat

File == {"none", "part", "whole", "short"}
NoDir == [f \in ModelFile |-> "none"]
NoGgufs == [g \in Gguf |-> "none"]

(* What download_file takes for a success.                                 *)
Transferred == {"whole", "short"}

(* What the user names: a bare repo id, a repo id with a variant, or
   something local.                                                        *)
Spec0 == [kind : {"repo"}] \cup [kind : {"variant"}, tag : Tag]
         \cup [kind : {"gguf_file", "model_dir", "hub_parent", "other"}]

VARIABLES
    listing,  \* what the hub lists for the repo
    hub,      \* the repo's snapshot in the HF hub cache: a directory
    dest,     \* the repo's directory in the mlxforge cache
    ggufs,    \* the repo's "-gguf" directory
    tmpDir,   \* dest.incomplete-<pid> of each process
    tmpGguf,  \* <file>.incomplete-<pid> of each process, by file
    starts,
    pc,       \* where each process is in resolve_model_dir
    spec,     \* what it resolves
    todo,     \* files it still has to download
    cur,      \* the file it is writing, or the variant it chose
    ret       \* what the resolution returned: "dest", "hub", "local", a variant

files == <<dest, ggufs, tmpDir, tmpGguf>>
vars == <<listing, hub, files, starts, pc, spec, todo, cur, ret>>

(* The hub cache is another program's; a stale directory without a config
   may lie where the model belongs.                                        *)
Init ==
    /\ listing \in Listings
    /\ hub \in {NoDir, [f \in ModelFile |-> "whole"], [NoDir EXCEPT ![Config] = "whole"]}
    /\ dest \in {NoDir, [f \in ModelFile |-> IF f \in Weights THEN "whole" ELSE "none"]}
    /\ ggufs = NoGgufs
    /\ tmpDir = [p \in Proc |-> NoDir] /\ tmpGguf = [p \in Proc |-> NoGgufs]
    /\ starts = 0
    /\ pc = [p \in Proc |-> "down"]
    /\ spec = [p \in Proc |-> [kind |-> "other"]]
    /\ todo = [p \in Proc |-> {}]
    /\ cur = [p \in Proc |-> "none"] /\ ret = [p \in Proc |-> "none"]

Goto(p, l) == pc' = [pc EXCEPT ![p] = l]
Done(p, r) == Goto(p, "done") /\ ret' = [ret EXCEPT ![p] = r]

-----------------------------------------------------------------------------
Start(p, s) ==
    /\ pc[p] = "down" /\ starts < MaxStarts
    /\ starts' = starts + 1
    /\ spec' = [spec EXCEPT ![p] = s]
    /\ Goto(p, "resolve")
    /\ UNCHANGED <<listing, hub, files, todo, cur, ret>>

(* The process is killed, or ends after it has loaded the model.           *)
Exit(p) ==
    /\ pc[p] # "down"
    /\ Goto(p, "down")
    /\ todo' = [todo EXCEPT ![p] = {}]
    /\ cur' = [cur EXCEPT ![p] = "none"] /\ ret' = [ret EXCEPT ![p] = "none"]
    /\ UNCHANGED <<listing, hub, files, starts, spec>>

(* is_model_dir looks for the config and for nothing else.                 *)
IsModelDir(dir) == dir[Config] # "none"

(* find_cached_gguf: the first name that contains the tag, in the order of
   the directory.                                                          *)
CachedGgufs(tag) == {g \in Contains[tag] : ggufs[g] # "none"}

(* resolve_model_dir up to the network: local things as they are, then the
   caches.                                                                 *)
Resolve(p) ==
    /\ pc[p] = "resolve"
    /\ LET s == spec[p] IN
       CASE s.kind \in {"gguf_file", "model_dir"} -> Done(p, "local")
         [] s.kind = "hub_parent" ->
              IF IsModelDir(hub) THEN Done(p, "hub") ELSE Goto(p, "failed") /\ UNCHANGED ret
         [] s.kind = "other" -> Goto(p, "failed") /\ UNCHANGED ret
         [] s.kind = "variant" ->
              \/ \E g \in CachedGgufs(s.tag) : Done(p, g)
              \/ CachedGgufs(s.tag) = {} /\ Goto(p, "list") /\ UNCHANGED ret
         [] s.kind = "repo" ->
              IF IsModelDir(hub) THEN Done(p, "hub")
              ELSE IF IsModelDir(dest) THEN Done(p, "dest")
              ELSE Goto(p, "list") /\ UNCHANGED ret
    /\ UNCHANGED <<listing, hub, files, starts, spec, todo, cur>>

(* select_files_to_download keeps the names it knows and the weights;
   select_gguf_file accepts exactly one match.                             *)
SelectFiles(names) == names \cap ModelFile
Loadable(names) == Config \in names /\ Weights \cap names # {}
SelectGguf(names, tag) == names \cap Contains[tag]

List(p) ==
    /\ pc[p] = "list"
    /\ IF spec[p].kind = "repo"
       THEN /\ UNCHANGED cur
            /\ \/ /\ Loadable(listing)
                  /\ todo' = [todo EXCEPT ![p] = SelectFiles(listing)]
                  /\ Goto(p, "prepare")
               \/ Goto(p, "failed") /\ UNCHANGED todo
       ELSE LET m == SelectGguf(listing, spec[p].tag) IN
            /\ UNCHANGED todo
            /\ \/ /\ Cardinality(m) = 1
                  /\ cur' = [cur EXCEPT ![p] = CHOOSE g \in m : TRUE]
                  /\ Goto(p, "check_gguf")
               \/ Goto(p, "failed") /\ UNCHANGED cur
    /\ UNCHANGED <<listing, hub, files, starts, spec, ret>>

-----------------------------------------------------------------------------
(* hf_download_repo.                                                       *)

(* What an earlier process of the same pid left behind is removed.         *)
Prepare(p) ==
    /\ pc[p] = "prepare"
    /\ tmpDir' = [tmpDir EXCEPT ![p] = NoDir]
    /\ Goto(p, "next") \/ Goto(p, "failed")
    /\ UNCHANGED <<listing, hub, dest, ggufs, tmpGguf, starts, spec, todo, cur, ret>>

(* download_file: the file is there, empty, once it is opened.             *)
OpenFile(p) ==
    /\ pc[p] = "next" /\ todo[p] # {}
    /\ \/ \E f \in todo[p] :
            /\ tmpDir' = [tmpDir EXCEPT ![p][f] = "part"]
            /\ cur' = [cur EXCEPT ![p] = f]
            /\ Goto(p, "transfer")
       \/ UNCHANGED <<tmpDir, cur>> /\ Goto(p, "unwind")
    /\ UNCHANGED <<listing, hub, dest, ggufs, tmpGguf, starts, spec, todo, ret>>

(* A transfer error and an error status both throw; a failed flush at the
   close does not.                                                         *)
Transfer(p) ==
    /\ pc[p] = "transfer"
    /\ \/ /\ \E r \in Transferred : tmpDir' = [tmpDir EXCEPT ![p][cur[p]] = r]
          /\ todo' = [todo EXCEPT ![p] = @ \ {cur[p]}]
          /\ Goto(p, "next")
       \/ Goto(p, "unwind") /\ UNCHANGED <<tmpDir, todo>>
    /\ UNCHANGED <<listing, hub, dest, ggufs, tmpGguf, starts, spec, cur, ret>>

(* A slip: the exception leaves the temporary directory behind.            *)
UnwindKeeps(p) ==
    /\ pc[p] = "unwind"
    /\ Goto(p, "failed")
    /\ UNCHANGED <<listing, hub, files, starts, spec, todo, cur, ret>>

(* The guard's destructor.                                                 *)
Unwind(p) ==
    /\ pc[p] = "unwind"
    /\ tmpDir' = [tmpDir EXCEPT ![p] = NoDir]
    /\ Goto(p, "failed")
    /\ UNCHANGED <<listing, hub, dest, ggufs, tmpGguf, starts, spec, todo, cur, ret>>

(* A slip: the old directory makes way before the downloads are done.      *)
RemoveEarly(p) ==
    /\ pc[p] = "next" /\ dest # NoDir
    /\ \/ \E f \in ModelFile : dest[f] # "none" /\ dest' = [dest EXCEPT ![f] = "none"]
                               /\ UNCHANGED pc
       \/ todo[p] = {} /\ Goto(p, "rename") /\ UNCHANGED dest
    /\ UNCHANGED <<listing, hub, ggufs, tmpDir, tmpGguf, starts, spec, todo, cur, ret>>

(* The commit: remove_all deletes the files of dest one by one, in the
   order of the directory; an error stops it and is not looked at.         *)
RemoveOne(p) ==
    /\ pc[p] = "next" /\ todo[p] = {} /\ dest # NoDir
    /\ \/ \E f \in ModelFile : dest[f] # "none" /\ dest' = [dest EXCEPT ![f] = "none"]
                               /\ UNCHANGED pc
       \/ Goto(p, "rename") /\ UNCHANGED dest
    /\ UNCHANGED <<listing, hub, ggufs, tmpDir, tmpGguf, starts, spec, todo, cur, ret>>

RemovedAll(p) ==
    /\ pc[p] = "next" /\ todo[p] = {} /\ dest = NoDir
    /\ Goto(p, "rename")
    /\ UNCHANGED <<listing, hub, files, starts, spec, todo, cur, ret>>

(* rename replaces an empty directory and fails on any other.              *)
Rename(p) ==
    /\ pc[p] = "rename"
    /\ \/ /\ dest = NoDir
          /\ dest' = tmpDir[p]
          /\ tmpDir' = [tmpDir EXCEPT ![p] = NoDir]
          /\ Done(p, "dest")
       \/ Goto(p, "unwind") /\ UNCHANGED <<dest, tmpDir, ret>>
    /\ UNCHANGED <<listing, hub, ggufs, tmpGguf, starts, spec, todo, cur>>

-----------------------------------------------------------------------------
(* hf_download_gguf: one file, moved over the final name in one step.      *)

CheckGguf(p) ==
    /\ pc[p] = "check_gguf"
    /\ \/ ggufs[cur[p]] # "none" /\ Done(p, cur[p])
       \/ ggufs[cur[p]] = "none" /\ Goto(p, "open_gguf") /\ UNCHANGED ret
       \/ Goto(p, "failed") /\ UNCHANGED ret
    /\ UNCHANGED <<listing, hub, files, starts, spec, todo, cur>>

OpenGguf(p) ==
    /\ pc[p] = "open_gguf"
    /\ \/ tmpGguf' = [tmpGguf EXCEPT ![p][cur[p]] = "part"] /\ Goto(p, "transfer_gguf")
       \/ Goto(p, "unwind_gguf") /\ UNCHANGED tmpGguf
    /\ UNCHANGED <<listing, hub, dest, ggufs, tmpDir, starts, spec, todo, cur, ret>>

(* A slip: the result of a variant's transfer is not looked at.            *)
TransferGgufUnchecked(p) ==
    /\ pc[p] = "transfer_gguf"
    /\ \E r \in {"part", "whole"} : tmpGguf' = [tmpGguf EXCEPT ![p][cur[p]] = r]
    /\ Goto(p, "rename_gguf")
    /\ UNCHANGED <<listing, hub, dest, ggufs, tmpDir, starts, spec, todo, cur, ret>>

TransferGguf(p) ==
    /\ pc[p] = "transfer_gguf"
    /\ \/ /\ \E r \in Transferred : tmpGguf' = [tmpGguf EXCEPT ![p][cur[p]] = r]
          /\ Goto(p, "rename_gguf")
       \/ Goto(p, "unwind_gguf") /\ UNCHANGED tmpGguf
    /\ UNCHANGED <<listing, hub, dest, ggufs, tmpDir, starts, spec, todo, cur, ret>>

RenameGguf(p) ==
    /\ pc[p] = "rename_gguf"
    /\ \/ /\ ggufs' = [ggufs EXCEPT ![cur[p]] = tmpGguf[p][cur[p]]]
          /\ tmpGguf' = [tmpGguf EXCEPT ![p][cur[p]] = "none"]
          /\ Done(p, cur[p])
       \/ Goto(p, "unwind_gguf") /\ UNCHANGED <<ggufs, tmpGguf, ret>>
    /\ UNCHANGED <<listing, hub, dest, tmpDir, starts, spec, todo, cur>>

UnwindGguf(p) ==
    /\ pc[p] = "unwind_gguf"
    /\ tmpGguf' = [tmpGguf EXCEPT ![p][cur[p]] = "none"]
    /\ Goto(p, "failed")
    /\ UNCHANGED <<listing, hub, dest, ggufs, tmpDir, starts, spec, todo, cur, ret>>

-----------------------------------------------------------------------------
Step(p) ==
    \/ \E s \in Spec0 : Start(p, s)
    \/ Exit(p) \/ Resolve(p) \/ List(p)
    \/ Prepare(p) \/ OpenFile(p) \/ Transfer(p) \/ Unwind(p)
    \/ RemoveOne(p) \/ RemovedAll(p) \/ Rename(p)
    \/ CheckGguf(p) \/ OpenGguf(p) \/ TransferGguf(p) \/ RenameGguf(p) \/ UnwindGguf(p)
Next == \E p \in Proc : Step(p)

Spec == Init /\ [][Next]_vars

-----------------------------------------------------------------------------
(* A directory never fills up under its final name: a step that puts any
   file of the repository there puts every selected file there, each
   transferred to its end, whatever else was killed or failed, and however
   many processes pull it (hf_download_repo downloads into a temporary).   *)
AppearsWhole ==
    [][\A f \in ModelFile : dest[f] = "none" /\ dest'[f] # "none" =>
         \A g \in SelectFiles(listing) : dest'[g] \in Transferred]_vars

(* What lies under the final name is given up, file by file, only when some
   process holds everything that will replace it: a pull that fails in the
   middle of its downloads has removed nothing (the commit comes last).    *)
ReplacementReady ==
    [][\A f \in ModelFile : dest[f] # "none" /\ dest'[f] = "none" =>
         \E p \in Proc : \A g \in SelectFiles(listing) : tmpDir[p][g] \in Transferred]_vars

(* So the directory changes by whole models only.                          *)
CommitsWhole == AppearsWhole /\ ReplacementReady

(* The variant that a resolution returned stays there for as long as the
   process lives, though others pull the same file over it: it was
   transferred to its end, the hub lists it and it is what was asked for
   (hf_download_gguf, find_cached_gguf).                                   *)
VariantUsable ==
    \A p \in Proc : pc[p] = "done" /\ ret[p] \in Gguf =>
      /\ ggufs[ret[p]] \in Transferred
      /\ ret[p] \in listing \cap Contains[spec[p].tag]

(* A pull that fails or succeeds after it made its temporary, a directory
   or one file, ends without it: only a kill leaves one behind (TmpGuard,
   FileGuard).                                                             *)
PullLeavesNoTmp ==
    [][\A p \in Proc :
         pc[p] \notin {"failed", "done"} /\ pc'[p] \in {"failed", "done"} =>
           /\ pc[p] \in {"next", "transfer", "unwind", "rename"} => tmpDir'[p] = NoDir
           /\ pc[p] \in {"open_gguf", "transfer_gguf", "unwind_gguf", "rename_gguf"} =>
                tmpGguf'[p][cur[p]] = "none"]_vars

-----------------------------------------------------------------------------
(* What hf_download.h says of a pull and the code does not keep:
   "a half-finished pull never looks like a usable model": a cached
   directory that has a config has every selected file.  A second pull of
   the repository removes the first one's directory file by file.          *)
NoHalfModel ==
    IsModelDir(dest) => \A f \in SelectFiles(listing) : dest[f] # "none"
=============================================================================
