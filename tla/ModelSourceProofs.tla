------------------------- MODULE ModelSourceProofs -------------------------
(***************************************************************************)
(* What a pull keeps for every set of processes, every listing of the hub  *)
(* and every number of restarts, with any number of processes pulling the  *)
(* same repository at the same time.                                       *)
(***************************************************************************)
EXTENDS ModelSource, FiniteSetTheorems, TLAPS

RepoPC == {"prepare", "next", "transfer", "unwind", "rename"}
GgufPC == {"check_gguf", "open_gguf", "transfer_gguf", "rename_gguf", "unwind_gguf"}
PC == {"down", "resolve", "list", "done", "failed"} \cup RepoPC \cup GgufPC
Name == ModelFile \cup Gguf \cup {"none"}

TypeOK ==
    /\ dest \in [ModelFile -> File] /\ ggufs \in [Gguf -> File]
    /\ tmpDir \in [Proc -> [ModelFile -> File]]
    /\ tmpGguf \in [Proc -> [Gguf -> File]]
    /\ pc \in [Proc -> PC] /\ spec \in [Proc -> Spec0]
    /\ todo \in [Proc -> SUBSET ModelFile]
    /\ cur \in [Proc -> Name]
    /\ ret \in [Proc -> Name \cup {"dest", "hub", "local"}]

(* What a process knows of its own temporaries at each place of a pull: no
   other process touches them.                                             *)
RepoPull ==
    \A p \in Proc : pc[p] \in RepoPC =>
        /\ pc[p] = "prepare" => todo[p] = SelectFiles(listing)
        /\ pc[p] = "transfer" => cur[p] \in todo[p]
        /\ pc[p] = "rename" => todo[p] = {}
        /\ pc[p] \in {"next", "transfer", "rename"} =>
              \A f \in SelectFiles(listing) \ todo[p] : tmpDir[p][f] \in Transferred
GgufPull ==
    \A p \in Proc :
        /\ pc[p] = "list" => spec[p].kind \in {"repo", "variant"}
        /\ pc[p] \in GgufPC =>
              /\ spec[p].kind = "variant"
              /\ cur[p] \in Gguf \cap listing \cap Contains[spec[p].tag]
              /\ pc[p] = "rename_gguf" => tmpGguf[p][cur[p]] \in Transferred

(* A variant under its final name was transferred and listed, and one that
   was returned is there.                                                  *)
GgufsAreWhole ==
    \A g \in Gguf : ggufs[g] # "none" => ggufs[g] \in Transferred /\ g \in listing
Returned ==
    \A p \in Proc : pc[p] = "done" /\ ret[p] \in Gguf =>
        ggufs[ret[p]] # "none" /\ ret[p] \in Contains[spec[p].tag]

IInv == TypeOK /\ RepoPull /\ GgufPull /\ GgufsAreWhole /\ Returned

(* How a resolution ends before the network is asked.                      *)
LEMMA ResolveOutcome ==
    ASSUME IInv, NEW p \in Proc, Resolve(p)
    PROVE  \/ \E r \in {"local", "hub", "dest"} : Done(p, r)
           \/ Goto(p, "failed") /\ ret' = ret
           \/ Goto(p, "list") /\ ret' = ret /\ spec[p].kind \in {"repo", "variant"}
           \/ \E g \in Gguf : Done(p, g) /\ g \in Contains[spec[p].tag] /\ ggufs[g] # "none"
<1>1. spec[p] \in Spec0
  BY DEF IInv, TypeOK
<1>2. spec[p].kind \in {"repo", "variant", "gguf_file", "model_dir", "hub_parent", "other"}
  BY <1>1 DEF Spec0
<1>3. spec[p].kind = "variant" => Contains[spec[p].tag] \subseteq Gguf
  BY <1>1, NamesAssumption DEF Spec0
<1>4. CASE spec[p].kind \in {"gguf_file", "model_dir"}
  BY <1>4 DEF Resolve
<1>5. CASE spec[p].kind \in {"hub_parent", "other"}
  BY <1>5 DEF Resolve
<1>6. CASE spec[p].kind = "variant"
  BY <1>6, <1>3 DEF Resolve, CachedGgufs
<1>7. CASE spec[p].kind = "repo"
  BY <1>7 DEF Resolve
<1> QED BY <1>2, <1>4, <1>5, <1>6, <1>7

(* Giving up, at any point, keeps the invariant: nothing under a final name
   has changed.                                                            *)
LEMMA GivesUp ==
    ASSUME IInv, NEW p \in Proc, NEW l \in {"failed", "unwind", "unwind_gguf"}, Goto(p, l),
           UNCHANGED <<listing, files, spec, todo, cur, ret>>,
           l = "unwind_gguf" => pc[p] \in GgufPC
    PROVE  IInv'
<1> USE DEF IInv, Goto, files
<1>1. TypeOK'
  BY DEF TypeOK, RepoPC, GgufPC, PC
<1>2. RepoPull' /\ GgufPull'
  BY DEF RepoPull, GgufPull, TypeOK, RepoPC, GgufPC
<1>3. GgufsAreWhole' /\ Returned'
  BY DEF GgufsAreWhole, Returned, TypeOK
<1> QED BY <1>1, <1>2, <1>3

(* A process that ends, or is killed, leaves the files and drops the rest. *)
LEMMA AfterExit ==
    ASSUME IInv, NEW p \in Proc, Exit(p)
    PROVE  IInv'
<1> USE DEF IInv, Goto, Done, files, Exit
<1>1. TypeOK'
  BY DEF TypeOK, RepoPC, GgufPC, PC, Name, File, NoDir
<1>2. RepoPull' /\ GgufPull'
  BY DEF RepoPull, GgufPull, TypeOK, RepoPC, GgufPC
<1>3. GgufsAreWhole' /\ Returned'
  BY DEF GgufsAreWhole, Returned, TypeOK
<1> QED BY <1>1, <1>2, <1>3

(* The exception path removes the temporary directory. *)
LEMMA AfterUnwind ==
    ASSUME IInv, NEW p \in Proc, Unwind(p)
    PROVE  IInv'
<1> USE DEF IInv, Goto, Done, files, Unwind
<1>1. TypeOK'
  BY DEF TypeOK, RepoPC, GgufPC, PC, Name, File, NoDir
<1>2. RepoPull' /\ GgufPull'
  BY DEF RepoPull, GgufPull, TypeOK, RepoPC, GgufPC
<1>3. GgufsAreWhole' /\ Returned'
  BY DEF GgufsAreWhole, Returned, TypeOK
<1> QED BY <1>1, <1>2, <1>3

(* The exception path of a variant removes its temporary file. *)
LEMMA AfterUnwindGguf ==
    ASSUME IInv, NEW p \in Proc, UnwindGguf(p)
    PROVE  IInv'
<1> USE DEF IInv, Goto, Done, files, UnwindGguf
<1>1. TypeOK'
  BY DEF TypeOK, RepoPC, GgufPC, PC, Name, File, NoDir
<1>2. RepoPull' /\ GgufPull'
  BY DEF RepoPull, GgufPull, TypeOK, RepoPC, GgufPC
<1>3. GgufsAreWhole' /\ Returned'
  BY DEF GgufsAreWhole, Returned, TypeOK
<1> QED BY <1>1, <1>2, <1>3

(* The commit reaches the rename once the old directory is empty. *)
LEMMA AfterRemovedAll ==
    ASSUME IInv, NEW p \in Proc, RemovedAll(p)
    PROVE  IInv'
<1> USE DEF IInv, Goto, Done, files, RemovedAll
<1>1. TypeOK'
  BY DEF TypeOK, RepoPC, GgufPC, PC, Name, File, NoDir
<1>2. RepoPull' /\ GgufPull'
  BY DEF RepoPull, GgufPull, TypeOK, RepoPC, GgufPC
<1>3. GgufsAreWhole' /\ Returned'
  BY DEF GgufsAreWhole, Returned, TypeOK
<1> QED BY <1>1, <1>2, <1>3

(* Whatever an earlier process of the same pid left is removed first. *)
LEMMA AfterPrepare ==
    ASSUME IInv, NEW p \in Proc, Prepare(p)
    PROVE  IInv'
<1> USE DEF IInv, Goto, Done, files, Prepare
<1>1. ASSUME Goto(p, "next")
      PROVE  IInv'
  <2>1. TypeOK'
    BY <1>1 DEF TypeOK, RepoPC, GgufPC, PC, Name, File, NoDir
  <2>2. RepoPull' /\ GgufPull'
    <3>1. \A r \in Proc \ {p} : pc'[r] = pc[r] /\ tmpDir'[r] = tmpDir[r]
      BY <1>1 DEF TypeOK
    <3>2. SelectFiles(listing) \ todo[p] = {} /\ pc'[p] = "next"
      BY <1>1 DEF RepoPull, RepoPC, TypeOK
    <3> QED BY <1>1, <3>1, <3>2 DEF RepoPull, GgufPull, RepoPC, GgufPC
  <2>3. GgufsAreWhole' /\ Returned'
    BY <1>1 DEF GgufsAreWhole, Returned, TypeOK
  <2> QED BY <2>1, <2>2, <2>3
<1>2. ASSUME Goto(p, "failed")
      PROVE  IInv'
  <2>1. TypeOK'
    BY <1>2 DEF TypeOK, RepoPC, GgufPC, PC, Name, File, NoDir
  <2>2. RepoPull' /\ GgufPull'
    BY <1>2 DEF RepoPull, GgufPull, TypeOK, RepoPC, GgufPC, Transferred, SelectFiles
  <2>3. GgufsAreWhole' /\ Returned'
    BY <1>2 DEF GgufsAreWhole, Returned, TypeOK
  <2> QED BY <2>1, <2>2, <2>3
<1> QED BY <1>1, <1>2

(* A file that is opened has not been counted as downloaded. *)
LEMMA AfterOpenFile ==
    ASSUME IInv, NEW p \in Proc, OpenFile(p)
    PROVE  IInv'
<1> USE DEF IInv, Goto, Done, files, OpenFile
<1>1. ASSUME NEW f \in todo[p],
             tmpDir' = [tmpDir EXCEPT ![p][f] = "part"],
             cur' = [cur EXCEPT ![p] = f],
             Goto(p, "transfer")
      PROVE  IInv'
  <2>1. TypeOK'
    BY <1>1 DEF TypeOK, RepoPC, GgufPC, PC, Name, File, NoDir
  <2>2. RepoPull' /\ GgufPull'
    BY <1>1 DEF RepoPull, GgufPull, TypeOK, RepoPC, GgufPC, Transferred, SelectFiles
  <2>3. GgufsAreWhole' /\ Returned'
    BY <1>1 DEF GgufsAreWhole, Returned, TypeOK
  <2> QED BY <2>1, <2>2, <2>3
<1>2. ASSUME Goto(p, "unwind"), UNCHANGED <<tmpDir, cur>> PROVE IInv'
  BY <1>2, GivesUp DEF RepoPC, GgufPC
<1> QED BY <1>1, <1>2

(* A file counts as downloaded only when its transfer succeeded. *)
LEMMA AfterTransfer ==
    ASSUME IInv, NEW p \in Proc, Transfer(p)
    PROVE  IInv'
<1> USE DEF IInv, Goto, Done, files, Transfer
<1>1. ASSUME NEW r \in Transferred,
             tmpDir' = [tmpDir EXCEPT ![p][cur[p]] = r],
             todo' = [todo EXCEPT ![p] = @ \ {cur[p]}],
             Goto(p, "next")
      PROVE  IInv'
  <2>1. TypeOK'
    <3>1. cur[p] \in ModelFile /\ r \in File
      BY DEF RepoPull, RepoPC, TypeOK, Transferred, File
    <3>2. tmpDir' \in [Proc -> [ModelFile -> File]] /\ todo' \in [Proc -> SUBSET ModelFile]
      BY <1>1, <3>1 DEF TypeOK
    <3> QED BY <1>1, <3>2 DEF TypeOK, PC, RepoPC
  <2>2. RepoPull' /\ GgufPull'
    BY <1>1 DEF RepoPull, GgufPull, TypeOK, RepoPC, GgufPC, Transferred, SelectFiles
  <2>3. GgufsAreWhole' /\ Returned'
    BY <1>1 DEF GgufsAreWhole, Returned, TypeOK
  <2> QED BY <2>1, <2>2, <2>3
<1>2. ASSUME Goto(p, "unwind"), UNCHANGED <<tmpDir, todo>> PROVE IInv'
  BY <1>2, GivesUp DEF RepoPC, GgufPC
<1> QED BY <1>1, <1>2

(* The commit deletes files of the final directory and of no temporary. *)
LEMMA AfterRemoveOne ==
    ASSUME IInv, NEW p \in Proc, RemoveOne(p)
    PROVE  IInv'
<1> USE DEF IInv, Goto, Done, files, RemoveOne
<1>1. ASSUME NEW f \in ModelFile,
             dest' = [dest EXCEPT ![f] = "none"],
             UNCHANGED pc
      PROVE  IInv'
  <2>1. TypeOK'
    BY <1>1 DEF TypeOK, RepoPC, GgufPC, PC, Name, File, NoDir
  <2>2. RepoPull' /\ GgufPull'
    BY <1>1 DEF RepoPull, GgufPull, TypeOK, RepoPC, GgufPC, Transferred, SelectFiles
  <2>3. GgufsAreWhole' /\ Returned'
    BY <1>1 DEF GgufsAreWhole, Returned, TypeOK
  <2> QED BY <2>1, <2>2, <2>3
<1>2. ASSUME Goto(p, "rename"),
             UNCHANGED dest
      PROVE  IInv'
  <2>1. TypeOK'
    BY <1>2 DEF TypeOK, RepoPC, GgufPC, PC, Name, File, NoDir
  <2>2. RepoPull' /\ GgufPull'
    BY <1>2 DEF RepoPull, GgufPull, TypeOK, RepoPC, GgufPC, Transferred, SelectFiles
  <2>3. GgufsAreWhole' /\ Returned'
    BY <1>2 DEF GgufsAreWhole, Returned, TypeOK
  <2> QED BY <2>1, <2>2, <2>3
<1> QED BY <1>1, <1>2

(* The rename takes the process's own temporary and leaves the variants alone. *)
LEMMA AfterRename ==
    ASSUME IInv, NEW p \in Proc, Rename(p)
    PROVE  IInv'
<1> USE DEF IInv, Goto, Done, files, Rename
<1>1. ASSUME dest = NoDir,
             dest' = tmpDir[p],
             tmpDir' = [tmpDir EXCEPT ![p] = NoDir],
             Done(p, "dest")
      PROVE  IInv'
  <2>1. TypeOK'
    BY <1>1 DEF TypeOK, RepoPC, GgufPC, PC, Name, File, NoDir
  <2>2. RepoPull' /\ GgufPull'
    BY <1>1 DEF RepoPull, GgufPull, TypeOK, RepoPC, GgufPC, Transferred, SelectFiles
  <2>3. GgufsAreWhole' /\ Returned'
    BY <1>1, NamesAssumption DEF GgufsAreWhole, Returned, TypeOK
  <2> QED BY <2>1, <2>2, <2>3
<1>2. ASSUME Goto(p, "unwind"), UNCHANGED <<dest, tmpDir, ret>> PROVE IInv'
  BY <1>2, GivesUp DEF RepoPC, GgufPC
<1> QED BY <1>1, <1>2

(* A variant already there is returned as it is. *)
LEMMA AfterCheckGguf ==
    ASSUME IInv, NEW p \in Proc, CheckGguf(p)
    PROVE  IInv'
<1> USE DEF IInv, Goto, Done, files, CheckGguf
<1>1. ASSUME ggufs[cur[p]] # "none",
             Done(p, cur[p])
      PROVE  IInv'
  <2>1. TypeOK'
    BY <1>1 DEF TypeOK, RepoPC, GgufPC, PC, Name, File, NoDir
  <2>2. RepoPull' /\ GgufPull'
    BY <1>1 DEF RepoPull, GgufPull, TypeOK, RepoPC, GgufPC, Transferred, SelectFiles
  <2>3. GgufsAreWhole' /\ Returned'
    BY <1>1 DEF GgufsAreWhole, Returned, TypeOK, GgufPull, GgufPC
  <2> QED BY <2>1, <2>2, <2>3
<1>2. ASSUME Goto(p, "open_gguf"),
             UNCHANGED ret
      PROVE  IInv'
  <2>1. TypeOK'
    BY <1>2 DEF TypeOK, RepoPC, GgufPC, PC, Name, File, NoDir
  <2>2. RepoPull' /\ GgufPull'
    BY <1>2 DEF RepoPull, GgufPull, TypeOK, RepoPC, GgufPC, Transferred, SelectFiles
  <2>3. GgufsAreWhole' /\ Returned'
    BY <1>2 DEF GgufsAreWhole, Returned, TypeOK
  <2> QED BY <2>1, <2>2, <2>3
<1>3. ASSUME Goto(p, "failed"), UNCHANGED ret PROVE IInv'
  BY <1>3, GivesUp DEF RepoPC, GgufPC
<1> QED BY <1>1, <1>2, <1>3

(* A variant opened under its temporary name disturbs no final name. *)
LEMMA AfterOpenGguf ==
    ASSUME IInv, NEW p \in Proc, OpenGguf(p)
    PROVE  IInv'
<1> USE DEF IInv, Goto, Done, files, OpenGguf
<1>1. ASSUME tmpGguf' = [tmpGguf EXCEPT ![p][cur[p]] = "part"],
             Goto(p, "transfer_gguf")
      PROVE  IInv'
  <2>1. TypeOK'
    BY <1>1 DEF TypeOK, RepoPC, GgufPC, PC, Name, File, NoDir
  <2>2. RepoPull' /\ GgufPull'
    BY <1>1 DEF RepoPull, GgufPull, TypeOK, RepoPC, GgufPC, Transferred, SelectFiles
  <2>3. GgufsAreWhole' /\ Returned'
    BY <1>1 DEF GgufsAreWhole, Returned, TypeOK
  <2> QED BY <2>1, <2>2, <2>3
<1>2. ASSUME Goto(p, "unwind_gguf"), UNCHANGED tmpGguf PROVE IInv'
  BY <1>2, GivesUp DEF RepoPC, GgufPC
<1> QED BY <1>1, <1>2

(* A variant is renamed only when its transfer succeeded. *)
LEMMA AfterTransferGguf ==
    ASSUME IInv, NEW p \in Proc, TransferGguf(p)
    PROVE  IInv'
<1> USE DEF IInv, Goto, Done, files, TransferGguf
<1>1. ASSUME NEW r \in Transferred,
             tmpGguf' = [tmpGguf EXCEPT ![p][cur[p]] = r],
             Goto(p, "rename_gguf")
      PROVE  IInv'
  <2>1. TypeOK'
    <3>1. cur[p] \in Gguf /\ r \in File
      BY DEF GgufPull, GgufPC, Transferred, File
    <3>2. tmpGguf' \in [Proc -> [Gguf -> File]]
      BY <1>1, <3>1 DEF TypeOK
    <3> QED BY <1>1, <3>2 DEF TypeOK, PC, GgufPC
  <2>2. RepoPull' /\ GgufPull'
    BY <1>1 DEF RepoPull, GgufPull, TypeOK, RepoPC, GgufPC, Transferred, SelectFiles
  <2>3. GgufsAreWhole' /\ Returned'
    BY <1>1 DEF GgufsAreWhole, Returned, TypeOK
  <2> QED BY <2>1, <2>2, <2>3
<1>2. ASSUME Goto(p, "unwind_gguf"), UNCHANGED tmpGguf PROVE IInv'
  BY <1>2, GivesUp DEF RepoPC, GgufPC
<1> QED BY <1>1, <1>2

(* The variant that is renamed into place was transferred to its end. *)
LEMMA AfterRenameGguf ==
    ASSUME IInv, NEW p \in Proc, RenameGguf(p)
    PROVE  IInv'
<1> USE DEF IInv, Goto, Done, files, RenameGguf
<1>1. ASSUME ggufs' = [ggufs EXCEPT ![cur[p]] = tmpGguf[p][cur[p]]],
             tmpGguf' = [tmpGguf EXCEPT ![p][cur[p]] = "none"],
             Done(p, cur[p])
      PROVE  IInv'
  <2>1. TypeOK'
    <3>1. cur[p] \in Gguf /\ cur[p] \in Name /\ "none" \in File
      BY DEF GgufPull, GgufPC, Name, File
    <3>2. tmpGguf' \in [Proc -> [Gguf -> File]] /\ ggufs' \in [Gguf -> File]
      BY <1>1, <3>1 DEF TypeOK
    <3> QED BY <1>1, <3>1, <3>2 DEF TypeOK, PC
  <2>2. RepoPull' /\ GgufPull'
    BY <1>1 DEF RepoPull, GgufPull, TypeOK, RepoPC, GgufPC, Transferred, SelectFiles
  <2>3. GgufsAreWhole' /\ Returned'
    <3>1. /\ cur[p] \in Gguf \cap listing \cap Contains[spec[p].tag]
          /\ tmpGguf[p][cur[p]] \in Transferred /\ tmpGguf[p][cur[p]] # "none"
      BY DEF GgufPull, GgufPC, Transferred
    <3>2. \A g \in Gguf : ggufs[g] # "none" => ggufs'[g] # "none"
      BY <1>1, <3>1 DEF TypeOK
    <3>3. ggufs'[cur[p]] # "none" /\ pc'[p] = "done" /\ ret'[p] = cur[p]
      BY <1>1, <3>1 DEF TypeOK
    <3>4. \A r \in Proc \ {p} : pc'[r] = pc[r] /\ ret'[r] = ret[r]
      BY <1>1 DEF TypeOK
    <3>5. Returned'
      BY <3>1, <3>2, <3>3, <3>4 DEF Returned
    <3>6. GgufsAreWhole'
      BY <1>1, <3>1 DEF GgufsAreWhole, TypeOK
    <3> QED BY <3>5, <3>6
  <2> QED BY <2>1, <2>2, <2>3
<1>2. ASSUME Goto(p, "unwind_gguf"), UNCHANGED <<ggufs, tmpGguf, ret>> PROVE IInv'
  BY <1>2, GivesUp DEF RepoPC, GgufPC
<1> QED BY <1>1, <1>2

(* A process that starts knows nothing yet, and has changed no file.       *)
LEMMA AfterStart ==
    ASSUME IInv, NEW p \in Proc, NEW s \in Spec0, Start(p, s)
    PROVE  IInv'
<1> USE DEF IInv, Goto, files, Start
<1>1. TypeOK'
  BY DEF TypeOK, PC
<1>2. /\ pc'[p] = "resolve"
      /\ \A q \in Proc \ {p} : spec'[q] = spec[q] /\ pc'[q] = pc[q]
  BY DEF TypeOK
<1>3. RepoPull' /\ GgufPull'
  BY <1>2 DEF RepoPull, GgufPull, RepoPC, GgufPC
<1>4. GgufsAreWhole' /\ Returned'
  BY <1>2 DEF GgufsAreWhole, Returned
<1> QED BY <1>1, <1>3, <1>4

(* A variant that a resolution returns from the cache is there.            *)
LEMMA AfterResolve ==
    ASSUME IInv, NEW p \in Proc, Resolve(p)
    PROVE  IInv'
<1> USE NamesAssumption DEF IInv
<1>1. /\ pc[p] = "resolve"
      /\ UNCHANGED <<listing, hub, files, starts, spec, todo, cur>>
  BY DEF Resolve
<1>2. ASSUME NEW r \in {"local", "hub", "dest"} \cup Gguf, Done(p, r),
             r \in Gguf => r \in Contains[spec[p].tag] /\ ggufs[r] # "none"
      PROVE  IInv'
  <2>1. /\ pc'[p] = "done" /\ ret'[p] = r
        /\ \A q \in Proc \ {p} : pc'[q] = pc[q] /\ ret'[q] = ret[q]
    BY <1>2 DEF Done, Goto, TypeOK
  <2>2. TypeOK'
    BY <1>1, <1>2 DEF TypeOK, Done, Goto, PC, Name, files
  <2>3. RepoPull' /\ GgufPull'
    BY <1>1, <2>1 DEF RepoPull, GgufPull, RepoPC, GgufPC, files
  <2>4. GgufsAreWhole' /\ Returned'
    BY <1>1, <1>2, <2>1 DEF GgufsAreWhole, Returned, files
  <2> QED BY <2>2, <2>3, <2>4
<1>3. ASSUME Goto(p, "list"), ret' = ret, spec[p].kind \in {"repo", "variant"}
      PROVE  IInv'
  <2>1. pc'[p] = "list" /\ \A q \in Proc \ {p} : pc'[q] = pc[q]
    BY <1>3 DEF Goto, TypeOK
  <2>2. TypeOK'
    BY <1>1, <1>3 DEF TypeOK, Goto, PC, files
  <2>3. RepoPull' /\ GgufPull'
    BY <1>1, <1>3, <2>1 DEF RepoPull, GgufPull, RepoPC, GgufPC, files
  <2>4. GgufsAreWhole' /\ Returned'
    BY <1>1, <1>3, <2>1 DEF GgufsAreWhole, Returned, files
  <2> QED BY <2>2, <2>3, <2>4
<1>4. ASSUME Goto(p, "failed"), ret' = ret PROVE IInv'
  BY <1>1, <1>4, GivesUp
<1>5. "dest" \notin Gguf /\ "hub" \notin Gguf /\ "local" \notin Gguf
  OBVIOUS
<1>6. ASSUME NEW g \in Gguf, Done(p, g), g \in Contains[spec[p].tag], ggufs[g] # "none"
      PROVE  IInv'
  BY <1>2, <1>5, <1>6
<1>7. ASSUME NEW r \in {"local", "hub", "dest"}, Done(p, r) PROVE IInv'
  BY <1>2, <1>5, <1>7
<1> QED BY ResolveOutcome, <1>3, <1>4, <1>6, <1>7

(* A pull starts from names that the hub lists: the selected ones, or the
   one variant that matches.                                               *)
LEMMA AfterList ==
    ASSUME IInv, NEW p \in Proc, List(p)
    PROVE  IInv'
<1> USE NamesAssumption DEF IInv
<1>1. /\ pc[p] = "list" /\ spec[p].kind \in {"repo", "variant"}
      /\ UNCHANGED <<listing, hub, files, starts, spec, ret>>
  BY DEF List, GgufPull
<1>2. ASSUME Goto(p, "failed"), UNCHANGED <<todo, cur>> PROVE IInv'
  BY <1>1, <1>2, GivesUp
<1>3. ASSUME UNCHANGED cur, todo' = [todo EXCEPT ![p] = SelectFiles(listing)],
             Goto(p, "prepare")
      PROVE  IInv'
  <2>1. /\ pc'[p] = "prepare" /\ todo'[p] = SelectFiles(listing)
        /\ \A q \in Proc \ {p} : pc'[q] = pc[q] /\ todo'[q] = todo[q]
    BY <1>3 DEF Goto, TypeOK
  <2>2. TypeOK'
    BY <1>1, <1>3 DEF TypeOK, Goto, PC, RepoPC, files, SelectFiles
  <2>3. RepoPull' /\ GgufPull'
    BY <1>1, <1>3, <2>1 DEF RepoPull, GgufPull, RepoPC, GgufPC, files
  <2>4. GgufsAreWhole' /\ Returned'
    BY <1>1, <1>3, <2>1 DEF GgufsAreWhole, Returned, files
  <2> QED BY <2>2, <2>3, <2>4
<1> DEFINE m == SelectGguf(listing, spec[p].tag)
           g == CHOOSE x \in m : TRUE
<1>4. ASSUME spec[p].kind = "variant", Cardinality(m) = 1, UNCHANGED todo,
             cur' = [cur EXCEPT ![p] = g], Goto(p, "check_gguf")
      PROVE  IInv'
  <2>1. m # {}
    <3>1. Cardinality({}) = 0
      BY FS_EmptySet
    <3>2. Cardinality(m) = 1
      BY <1>4
    <3> HIDE DEF m
    <3> QED BY <3>1, <3>2
  <2>2. spec[p] \in Spec0 /\ m \subseteq Gguf \cap listing \cap Contains[spec[p].tag]
    BY <1>4 DEF TypeOK, Spec0, SelectGguf
  <2> HIDE DEF m
  <2>3. g \in Gguf \cap listing \cap Contains[spec[p].tag]
    BY <2>1, <2>2
  <2> HIDE DEF g
  <2>4. /\ pc'[p] = "check_gguf" /\ cur'[p] = g
        /\ \A q \in Proc \ {p} : pc'[q] = pc[q] /\ cur'[q] = cur[q]
    BY <1>4 DEF Goto, TypeOK
  <2>5. TypeOK'
    BY <1>1, <1>4, <2>3 DEF TypeOK, Goto, PC, GgufPC, Name, files
  <2>6. RepoPull' /\ GgufPull'
    BY <1>1, <1>4, <2>3, <2>4 DEF RepoPull, GgufPull, RepoPC, GgufPC, files
  <2>7. GgufsAreWhole' /\ Returned'
    BY <1>1, <2>4 DEF GgufsAreWhole, Returned, files
  <2> QED BY <2>5, <2>6, <2>7
<1>5. CASE spec[p].kind = "repo"
  BY <1>2, <1>3, <1>5 DEF List
<1>6. CASE spec[p].kind = "variant"
  BY <1>2, <1>4, <1>6 DEF List
<1> QED BY <1>1, <1>5, <1>6

(* The cache starts with nothing of this repository's, or with a stale
   directory that has no config.                                           *)
LEMMA InitHolds ==
    ASSUME Init PROVE IInv
<1> USE NamesAssumption DEF Init
<1>1. NoDir \in [ModelFile -> File] /\ NoGgufs \in [Gguf -> File]
  BY DEF NoDir, NoGgufs, File
<1>2. dest \in [ModelFile -> File]
  BY <1>1 DEF File
<1>3. TypeOK
  BY <1>1, <1>2 DEF TypeOK, PC, Spec0, Name
<1>4. RepoPull /\ GgufPull
  BY DEF RepoPull, GgufPull, RepoPC, GgufPC
<1>5. GgufsAreWhole /\ Returned
  BY DEF GgufsAreWhole, Returned, NoGgufs
<1> QED BY <1>3, <1>4, <1>5 DEF IInv

(* The invariant is inductive: it holds at first and every step of every
   process keeps it.                                                       *)
LEMMA Inductive == Spec => []IInv
<1>1. ASSUME IInv, [Next]_vars PROVE IInv'
  <2>1. CASE UNCHANGED vars
    BY <1>1, <2>1 DEF vars, files, IInv, TypeOK, RepoPull, GgufPull, GgufsAreWhole, Returned
  <2>2. CASE Next
    <3>1. PICK p \in Proc : Step(p)
      BY <2>2 DEF Next
    <3> QED BY <1>1, <3>1, AfterStart, AfterExit, AfterResolve, AfterList, AfterPrepare,
               AfterOpenFile, AfterTransfer, AfterUnwind, AfterRemoveOne, AfterRemovedAll,
               AfterRename, AfterCheckGguf, AfterOpenGguf, AfterTransferGguf,
               AfterRenameGguf, AfterUnwindGguf DEF Step
  <2> QED BY <1>1, <2>1, <2>2
<1>2. Init => IInv
  BY InitHolds
<1> QED BY <1>1, <1>2, PTL DEF Spec

-----------------------------------------------------------------------------
(* The final directory is touched by the two steps of a commit only.       *)
LEMMA DestChanges ==
    ASSUME IInv, [Next]_vars, dest' # dest
    PROVE  \E p \in Proc : RemoveOne(p) \/ (Rename(p) /\ dest = NoDir /\ dest' = tmpDir[p])
<1>1. PICK p \in Proc : Step(p)
  BY DEF Next, vars, files
<1> QED BY <1>1 DEF Step, Start, Exit, Resolve, List, Prepare, OpenFile, Transfer, Unwind,
                    RemovedAll, Rename, CheckGguf, OpenGguf, TransferGguf, RenameGguf,
                    UnwindGguf, files

(* The moment a directory appears it has every selected file.              *)
THEOREM PullAppearsWhole == Spec => AppearsWhole
<1>1. ASSUME IInv, [Next]_vars, NEW f \in ModelFile, dest[f] = "none", dest'[f] # "none",
             NEW g \in SelectFiles(listing)
      PROVE  dest'[g] \in Transferred
  <2>1. PICK p \in Proc : RemoveOne(p) \/ (Rename(p) /\ dest = NoDir /\ dest' = tmpDir[p])
    BY <1>1, DestChanges
  <2>2. ~ RemoveOne(p)
    BY <1>1 DEF RemoveOne, IInv, TypeOK
  <2>3. pc[p] = "rename" /\ dest' = tmpDir[p]
    BY <2>1, <2>2 DEF Rename
  <2> QED BY <1>1, <2>3 DEF IInv, RepoPull, RepoPC
<1>2. IInv /\ [Next]_vars =>
        [\A f \in ModelFile : dest[f] = "none" /\ dest'[f] # "none" =>
           \A g \in SelectFiles(listing) : dest'[g] \in Transferred]_vars
  BY <1>1
<1> QED BY <1>2, Inductive, PTL DEF Spec, AppearsWhole

(* A file under a final name is given up only for a finished replacement.  *)
THEOREM PullReplacesLast == Spec => ReplacementReady
<1>1. ASSUME IInv, [Next]_vars, NEW f \in ModelFile, dest[f] # "none", dest'[f] = "none"
      PROVE  \E p \in Proc : \A g \in SelectFiles(listing) : tmpDir[p][g] \in Transferred
  <2>1. PICK p \in Proc : RemoveOne(p) \/ (Rename(p) /\ dest = NoDir)
    BY <1>1, DestChanges
  <2>2. pc[p] = "next" /\ todo[p] = {}
    BY <1>1, <2>1 DEF RemoveOne, NoDir
  <2> QED BY <1>1, <2>2 DEF IInv, RepoPull, RepoPC
<1>2. IInv /\ [Next]_vars =>
        [\A f \in ModelFile : dest[f] # "none" /\ dest'[f] = "none" =>
           \E p \in Proc : \A g \in SelectFiles(listing) : tmpDir[p][g] \in Transferred]_vars
  BY <1>1
<1> QED BY <1>2, Inductive, PTL DEF Spec, ReplacementReady

(* So the cached directory of a repository changes by whole models only: its
   commit is a removal that nothing can spoil but another commit, and one
   rename (hf_download_repo).                                              *)
THEOREM PullsCommitWhole == Spec => CommitsWhole
BY PullAppearsWhole, PullReplacesLast DEF CommitsWhole

(* A variant that was returned stays usable, whoever else pulls it.        *)
THEOREM ReturnedVariantUsable == Spec => []VariantUsable
<1>1. IInv => VariantUsable
  BY DEF IInv, Returned, GgufsAreWhole, VariantUsable
<1> QED BY <1>1, Inductive, PTL

(* A step of one process moves no other.                                   *)
LEMMA PcOfOthers ==
    ASSUME IInv, NEW q \in Proc, Step(q), NEW p \in Proc, p # q
    PROVE  pc'[p] = pc[p]
<1>1. UNCHANGED pc \/ \E l \in PC : Goto(q, l)
  <2> USE DEF PC, RepoPC, GgufPC
  <2>1. CASE \E s \in Spec0 : Start(q, s)
    BY <2>1 DEF Start
  <2>2. CASE Exit(q) \/ List(q) \/ Prepare(q) \/ OpenFile(q) \/ Transfer(q) \/ Unwind(q)
    BY <2>2 DEF Exit, List, Prepare, OpenFile, Transfer, Unwind
  <2>3. CASE RemoveOne(q) \/ RemovedAll(q) \/ Rename(q)
    BY <2>3 DEF RemoveOne, RemovedAll, Rename, Done
  <2>4. CASE Resolve(q)
    BY <2>4, ResolveOutcome DEF Done
  <2>5. CASE CheckGguf(q) \/ OpenGguf(q) \/ TransferGguf(q) \/ RenameGguf(q) \/ UnwindGguf(q)
    BY <2>5 DEF CheckGguf, OpenGguf, TransferGguf, RenameGguf, UnwindGguf, Done
  <2> QED BY <2>1, <2>2, <2>3, <2>4, <2>5 DEF Step
<1> QED BY <1>1 DEF Goto, IInv, TypeOK

(* A pull that ends otherwise than by a kill has removed its temporary.    *)
THEOREM PullsCleanUp == Spec => PullLeavesNoTmp
<1>1. ASSUME IInv, [Next]_vars, NEW p \in Proc,
             pc[p] \notin {"failed", "done"}, pc'[p] \in {"failed", "done"}
      PROVE  /\ pc[p] \in {"next", "transfer", "unwind", "rename"} => tmpDir'[p] = NoDir
             /\ pc[p] \in {"open_gguf", "transfer_gguf", "unwind_gguf", "rename_gguf"} =>
                  tmpGguf'[p][cur[p]] = "none"
  <2>1. PICK q \in Proc : Step(q)
    BY <1>1 DEF Next, vars
  <2>2. p = q
    BY <1>1, <2>1, PcOfOthers
  <2>3. \/ pc[p] \in {"resolve", "list", "prepare", "check_gguf"}
        \/ Unwind(p) \/ UnwindGguf(p) \/ (Rename(p) /\ Done(p, "dest"))
        \/ (RenameGguf(p) /\ Done(p, cur[p]))
    <3>1. pc[p] \in PC /\ \A l \in PC : Goto(p, l) => pc'[p] = l
      BY <1>1 DEF Goto, IInv, TypeOK
    <3>2. CASE \E s \in Spec0 : Start(p, s)
      BY <1>1, <3>1, <3>2 DEF Start, PC
    <3>3. CASE Exit(p)
      BY <1>1, <3>1, <3>3 DEF Exit, PC
    <3>4. CASE Resolve(p) \/ List(p) \/ Prepare(p) \/ CheckGguf(p)
      BY <3>4 DEF Resolve, List, Prepare, CheckGguf
    <3>5. CASE OpenFile(p) \/ Transfer(p) \/ RemoveOne(p) \/ RemovedAll(p)
      BY <1>1, <3>1, <3>5 DEF OpenFile, Transfer, RemoveOne, RemovedAll, PC, RepoPC
    <3>6. CASE OpenGguf(p) \/ TransferGguf(p)
      BY <1>1, <3>1, <3>6 DEF OpenGguf, TransferGguf, PC, GgufPC
    <3>7. CASE Rename(p) \/ RenameGguf(p)
      BY <1>1, <3>1, <3>7 DEF Rename, RenameGguf, PC, RepoPC, GgufPC
    <3> QED BY <2>1, <2>2, <3>2, <3>3, <3>4, <3>5, <3>6, <3>7 DEF Step
  <2>4. CASE Unwind(p)
    BY <1>1, <2>4 DEF Unwind, IInv, TypeOK
  <2>5. CASE UnwindGguf(p)
    BY <1>1, <2>5 DEF UnwindGguf, IInv, TypeOK, GgufPull, GgufPC
  <2>6. CASE Rename(p) /\ Done(p, "dest")
    BY <1>1, <2>6 DEF Rename, Done, Goto, IInv, TypeOK
  <2>7. CASE RenameGguf(p) /\ Done(p, cur[p])
    BY <1>1, <2>7 DEF RenameGguf, Done, Goto, IInv, TypeOK, GgufPull, GgufPC
  <2> QED BY <2>3, <2>4, <2>5, <2>6, <2>7
<1>2. IInv /\ [Next]_vars =>
        [\A p \in Proc :
         pc[p] \notin {"failed", "done"} /\ pc'[p] \in {"failed", "done"} =>
           /\ pc[p] \in {"next", "transfer", "unwind", "rename"} => tmpDir'[p] = NoDir
           /\ pc[p] \in {"open_gguf", "transfer_gguf", "unwind_gguf", "rename_gguf"} =>
                tmpGguf'[p][cur[p]] = "none"]_vars
  BY <1>1
<1> QED BY <1>2, Inductive, PTL DEF Spec, PullLeavesNoTmp
=============================================================================
