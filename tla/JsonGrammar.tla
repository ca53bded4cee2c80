---------------------------- MODULE JsonGrammar ----------------------------
(***************************************************************************)
(* The byte automaton of constrained decoding (src/src/sample/             *)
(* json_grammar.cpp) and the token mask the worker builds from it          *)
(* (src/src/runtime/worker.cpp).                                           *)
(*                                                                         *)
(* A byte is a one-character string; "ctl" is a control character, "x" a   *)
(* byte of no syntactic meaning.  A state that feed() left by returning    *)
(* false is Rejected: the code never looks at such a state again (a probe  *)
(* is a copy, and only accepted bytes are committed).                      *)
(***************************************************************************)
EXTENDS Integers, Sequences

LOCAL INSTANCE SequencesExt

Quote == "\""
Escape == "\\"
Space == " "
Digits == {"0", "1"}
Hex == Digits \cup {"a", "e", "f"}
Rejected == [expect |-> "Rejected"]

-----------------------------------------------------------------------------
(* Construction: from_schema_string.  A schema is given by what parsing it
   yields; properties is <<>> when the object has none.                    *)
TypeCode(t) == IF t \in {"string", "number", "integer", "boolean"} THEN t ELSE "free"

AnyValue ==
    [expect |-> "Value", scalar |-> "None", num |-> "Sign", intOnly |-> FALSE,
     lit |-> <<>>, litPos |-> 0, uLeft |-> 0, stack |-> <<>>, allowWs |-> TRUE,
     schema |-> FALSE, keys |-> <<>>, types |-> <<>>, keyIdx |-> 0,
     pending |-> "free", curKey |-> 0, readingKey |-> FALSE]

FromSchema(s) ==
    IF s.kind \in {"empty", "json", "unparsable", "no properties"} THEN AnyValue
    ELSE [AnyValue EXCEPT !.schema = TRUE,
                          !.keys = [i \in 1 .. Len(s.props) |-> s.props[i].key],
                          !.types = [i \in 1 .. Len(s.props) |-> TypeCode(s.props[i].type)]]

Compact(g) == [g EXCEPT !.allowWs = FALSE]

-----------------------------------------------------------------------------
(* Structure.                                                              *)
AtRootObject(g) == g.schema /\ Len(g.stack) = 1
KeysExhausted(g) == AtRootObject(g) /\ g.keyIdx >= Len(g.keys)
MissingKeys(g) == AtRootObject(g) /\ g.keyIdx # Len(g.keys)
Terminable(n) == n \in {"IntZero", "IntDigits", "FracDigits", "ExpDigits"}

(* A slip: any member value that ends counts as a schema key, whatever its
   depth.                                                                  *)
PushValueDoneAnyDepth(g) ==
    IF g.stack = <<>> THEN [g EXCEPT !.expect = "End"]
    ELSE [g EXCEPT !.keyIdx = IF Last(g.stack) = "{" THEN @ + 1 ELSE @,
                   !.pending = "free",
                   !.expect = IF Last(g.stack) = "{" THEN "ObjectNext" ELSE "ArrayNext"]

PushValueDone(g) ==
    IF g.stack = <<>> THEN [g EXCEPT !.expect = "End"]
    ELSE [g EXCEPT !.keyIdx = IF Last(g.stack) = "{" /\ AtRootObject(g) THEN @ + 1 ELSE @,
                   !.pending = "free",
                   !.expect = IF Last(g.stack) = "{" THEN "ObjectNext" ELSE "ArrayNext"]

CloseContainer(g) == PushValueDone([g EXCEPT !.stack = Front(@)])

StartKey(g) ==
    IF KeysExhausted(g) THEN Rejected
    ELSE [g EXCEPT !.scalar = "String", !.readingKey = TRUE, !.curKey = 0]

Open(g, b, next) == [g EXCEPT !.stack = Append(@, b), !.expect = next]
Literal(g, l) == [g EXCEPT !.scalar = "Lit", !.lit = l, !.litPos = 1]
Number(g, n, t) == [g EXCEPT !.scalar = "Number", !.num = n, !.intOnly = (t = "integer")]

FitsType(b, t) ==
    CASE t = "string"  -> b = Quote
      [] t \in {"integer", "number"} -> b \in Digits \cup {"-"}
      [] t = "boolean" -> b \in {"t", "f"}
      [] t = "free"    -> TRUE

BeginValue(g, b, t) ==
    IF ~FitsType(b, t) THEN Rejected
    ELSE CASE b = Quote -> [g EXCEPT !.scalar = "String"]
           [] b = "{"   -> Open(g, b, "ObjectKeyOrEnd")
           [] b = "["   -> Open(g, b, "ArrayValueOrEnd")
           [] b = "t"   -> Literal(g, <<"t", "r", "u", "e">>)
           [] b = "f"   -> Literal(g, <<"f", "a", "l", "s", "e">>)
           [] b = "n"   -> Literal(g, <<"n", "u", "l", "l">>)
           [] b = "-"   -> Number(g, "Sign", t)
           [] b = "0"   -> Number(g, "IntZero", t)
           [] b = "1"   -> Number(g, "IntDigits", t)
           [] OTHER     -> Rejected

Structural(g, b) ==
    CASE g.expect = "Value" ->
           IF g.schema /\ g.stack = <<>> /\ b # "{" THEN Rejected ELSE BeginValue(g, b, g.pending)
      [] g.expect = "ArrayValueOrEnd" ->
           IF b = "]" THEN CloseContainer(g) ELSE BeginValue(g, b, "free")
      [] g.expect \in {"ObjectKeyOrEnd", "ObjectNext"} /\ b = "}" ->
           IF MissingKeys(g) THEN Rejected ELSE CloseContainer(g)
      [] g.expect \in {"ObjectKeyOrEnd", "ObjectKey"} /\ b = Quote -> StartKey(g)
      [] g.expect = "ObjectColon" /\ b = ":" -> [g EXCEPT !.expect = "Value"]
      [] g.expect = "ObjectNext" /\ b = "," ->
           IF KeysExhausted(g) THEN Rejected ELSE [g EXCEPT !.expect = "ObjectKey"]
      [] g.expect = "ArrayNext" /\ b = "," -> [g EXCEPT !.expect = "Value", !.pending = "free"]
      [] g.expect = "ArrayNext" /\ b = "]" -> CloseContainer(g)
      [] OTHER -> Rejected

-----------------------------------------------------------------------------
(* Scalars.                                                                *)
(* number_continue: the state a byte leads to, "No" when it does not extend
   the number.                                                             *)
NumberContinue(g, b) ==
    CASE g.num = "Sign" -> IF b = "0" THEN "IntZero" ELSE IF b = "1" THEN "IntDigits" ELSE "No"
      [] g.num \in {"IntZero", "IntDigits"} ->
           IF g.num = "IntDigits" /\ b \in Digits THEN "IntDigits"
           ELSE IF g.intOnly THEN "No"
           ELSE IF b = "." THEN "FracDot" ELSE IF b = "e" THEN "ExpStart" ELSE "No"
      [] g.num \in {"FracDot", "FracDigits"} ->
           IF b \in Digits THEN "FracDigits"
           ELSE IF g.num = "FracDigits" /\ b = "e" THEN "ExpStart" ELSE "No"
      [] OTHER -> IF b \in Digits THEN "ExpDigits"
                  ELSE IF g.num = "ExpStart" /\ b \in {"+", "-"} THEN "ExpAfterSign" ELSE "No"

(* Whitespace between tokens is allowed outside compact mode.              *)
BetweenTokens(g, b) ==
    IF b = Space THEN (IF g.allowWs THEN g ELSE Rejected) ELSE Structural(g, b)

FeedNumber(g, b) ==
    IF NumberContinue(g, b) # "No" THEN [g EXCEPT !.num = NumberContinue(g, b)]
    ELSE IF ~Terminable(g.num) THEN Rejected
    ELSE BetweenTokens(PushValueDone([g EXCEPT !.scalar = "None"]), b)

SchemaKey(g) == g.readingKey /\ AtRootObject(g)

FeedString(g, b) ==
    LET want == g.keys[g.keyIdx + 1] IN
    CASE b = Quote /\ SchemaKey(g) ->
           IF g.curKey # Len(want) THEN Rejected
           ELSE [g EXCEPT !.scalar = "None", !.readingKey = FALSE, !.expect = "ObjectColon",
                          !.pending = g.types[g.keyIdx + 1]]
      [] b = Quote /\ g.readingKey /\ ~SchemaKey(g) ->
           [g EXCEPT !.scalar = "None", !.readingKey = FALSE, !.expect = "ObjectColon"]
      [] b = Quote /\ ~g.readingKey -> PushValueDone([g EXCEPT !.scalar = "None"])
      [] b = Escape -> IF SchemaKey(g) THEN Rejected ELSE [g EXCEPT !.scalar = "StringEsc"]
      [] b = "ctl"  -> Rejected
      [] OTHER -> IF ~SchemaKey(g) THEN g
                  ELSE IF g.curKey >= Len(want) \/ want[g.curKey + 1] # b THEN Rejected
                  ELSE [g EXCEPT !.curKey = @ + 1]

FeedEscape(g, b) ==
    IF b = "u" THEN [g EXCEPT !.scalar = "StringU", !.uLeft = 4]
    ELSE IF b \in {Quote, Escape, "/", "b", "f", "n", "r", "t"} THEN [g EXCEPT !.scalar = "String"]
    ELSE Rejected

FeedUnicode(g, b) ==
    IF b \notin Hex THEN Rejected
    ELSE [g EXCEPT !.uLeft = @ - 1, !.scalar = IF g.uLeft = 1 THEN "String" ELSE @]

FeedLiteral(g, b) ==
    IF b # g.lit[g.litPos + 1] THEN Rejected
    ELSE IF g.litPos + 1 < Len(g.lit) THEN [g EXCEPT !.litPos = @ + 1]
    ELSE PushValueDone([g EXCEPT !.litPos = @ + 1, !.scalar = "None"])

Feed(g, b) ==
    IF g = Rejected THEN Rejected
    ELSE CASE g.scalar = "String"    -> FeedString(g, b)
           [] g.scalar = "StringEsc" -> FeedEscape(g, b)
           [] g.scalar = "StringU"   -> FeedUnicode(g, b)
           [] g.scalar = "Lit"       -> FeedLiteral(g, b)
           [] g.scalar = "Number"    -> FeedNumber(g, b)
           [] g.scalar = "None"      -> BetweenTokens(g, b)

Advance(g, bytes) == FoldLeft(Feed, g, bytes)
Accepts(g, bytes) == Advance(g, bytes) # Rejected
Complete(g) == g.expect = "End" \/ (g.stack = <<>> /\ g.scalar = "Number" /\ Terminable(g.num))

-----------------------------------------------------------------------------
(* grammar_mask: the tokens of the vocabulary a row may draw.  A token is its
   bytes; the EOS and the special tokens decode to nothing.                *)
GrammarMask(g, vocab, eos) ==
    LET allowed == {id \in DOMAIN vocab :
                      IF id \in eos THEN Complete(g)
                      ELSE ~Complete(g) /\ vocab[id] # <<>> /\ Accepts(g, vocab[id])}
    IN  IF allowed = {} THEN DOMAIN vocab ELSE allowed

-----------------------------------------------------------------------------
(* JSON itself, by the shape of a whole text.                              *)
Inside(s) == SubSeq(s, 2, Len(s) - 1)
Wraps(s, a, b) == Len(s) >= 2 /\ Head(s) = a /\ Last(s) = b

RECURSIVE StringBody(_)
StringBody(s) ==
    IF s = <<>> THEN TRUE
    ELSE IF s[1] = Escape
    THEN /\ Len(s) >= 2
         /\ IF s[2] = "u" THEN Len(s) >= 6 /\ (\A i \in 3 .. 6 : s[i] \in Hex) /\ StringBody(SubSeq(s, 7, Len(s)))
            ELSE s[2] \in {Quote, Escape, "/", "b", "f", "n", "r", "t"} /\ StringBody(SubSeq(s, 3, Len(s)))
    ELSE s[1] \notin {Quote, "ctl"} /\ StringBody(Tail(s))
IsString(s) == Wraps(s, Quote, Quote) /\ StringBody(Inside(s))

AllDigits(s) == s # <<>> /\ ToSet(s) \subseteq Digits
IsInteger(s) ==
    LET u == IF s # <<>> /\ s[1] = "-" THEN Tail(s) ELSE s
    IN  AllDigits(u) /\ (Len(u) = 1 \/ u[1] # "0")
IsExponent(s) ==
    /\ s # <<>> /\ s[1] = "e"
    /\ AllDigits(IF Len(s) >= 2 /\ s[2] \in {"+", "-"} THEN SubSeq(s, 3, Len(s)) ELSE Tail(s))
IsFraction(s) == s # <<>> /\ s[1] = "." /\ AllDigits(Tail(s))
IsNumber(s) ==
    \E i \in 1 .. Len(s) : \E j \in i .. Len(s) :
       /\ IsInteger(SubSeq(s, 1, i))
       /\ i = j \/ IsFraction(SubSeq(s, i + 1, j))
       /\ j = Len(s) \/ IsExponent(SubSeq(s, j + 1, Len(s)))

RECURSIVE Trimmed(_)
Trimmed(s) ==
    IF s = <<>> THEN s
    ELSE IF Head(s) = Space THEN Trimmed(Tail(s))
    ELSE IF Last(s) = Space THEN Trimmed(Front(s)) ELSE s

(* A list of comma-separated items, values or members; the commas that
   separate are chosen.                                                    *)
RECURSIVE IsValue(_)
IsMember(s) ==
    \E i \in 1 .. Len(s) : s[i] = ":" /\ IsString(Trimmed(SubSeq(s, 1, i - 1)))
                           /\ IsValue(Trimmed(SubSeq(s, i + 1, Len(s))))
IsItem(s, member) == IF member THEN IsMember(s) ELSE IsValue(s)

RECURSIVE IsList(_, _)
IsList(s, member) ==
    \/ IsItem(Trimmed(s), member)
    \/ \E i \in 2 .. Len(s) - 1 : s[i] = "," /\ IsItem(Trimmed(SubSeq(s, 1, i - 1)), member)
                                  /\ IsList(SubSeq(s, i + 1, Len(s)), member)
IsValue(s) ==
    \/ IsString(s) \/ IsNumber(s)
    \/ s \in {<<"t", "r", "u", "e">>, <<"f", "a", "l", "s", "e">>, <<"n", "u", "l", "l">>}
    \/ Wraps(s, "[", "]") /\ (Trimmed(Inside(s)) = <<>> \/ IsList(Inside(s), FALSE))
    \/ Wraps(s, "{", "}") /\ (Trimmed(Inside(s)) = <<>> \/ IsList(Inside(s), TRUE))
IsJson(s) == IsValue(Trimmed(s))

(* A value of the type a schema names.                                     *)
IsTyped(s, t) ==
    CASE t = "string" -> IsString(s) [] t = "number" -> IsNumber(s) [] t = "integer" -> IsInteger(s)
      [] t = "boolean" -> s \in {<<"t", "r", "u", "e">>, <<"f", "a", "l", "s", "e">>}
      [] t = "free" -> IsValue(s)

(* The members of an object, in the order of the schema, and no others.    *)
RECURSIVE IsMembers(_, _, _)
IsMembers(s, keys, types) ==
    LET key == <<Quote>> \o keys[1] \o <<Quote>> IN
    \E i, j \in 1 .. Len(s) :
       /\ i < j /\ s[i] = ":" /\ Trimmed(SubSeq(s, 1, i - 1)) = key
       /\ IF Len(keys) = 1
          THEN j = Len(s) /\ IsTyped(Trimmed(SubSeq(s, i + 1, j)), types[1])
          ELSE /\ s[j] = "," /\ IsTyped(Trimmed(SubSeq(s, i + 1, j - 1)), types[1])
               /\ IsMembers(SubSeq(s, j + 1, Len(s)), Tail(keys), Tail(types))
IsOfSchema(s, keys, types) ==
    LET o == Trimmed(s) IN
    /\ Wraps(o, "{", "}")
    /\ IF keys = <<>> THEN Trimmed(Inside(o)) = <<>> ELSE IsMembers(Inside(o), keys, types)

-----------------------------------------------------------------------------
(* A byte that leads an accepted text towards a complete one.              *)
Closer(g) ==
    IF g.stack = <<>> THEN Space
    ELSE IF Last(g.stack) = "[" THEN "]"
    ELSE IF AtRootObject(g) /\ g.keyIdx + (IF g.scalar = "Number" THEN 1 ELSE 0) < Len(g.keys)
         THEN "," ELSE "}"
NextByte(g) ==
    CASE g.scalar = "String" -> IF SchemaKey(g) /\ g.curKey < Len(g.keys[g.keyIdx + 1])
                                THEN g.keys[g.keyIdx + 1][g.curKey + 1] ELSE Quote
      [] g.scalar = "StringEsc" -> "n"
      [] g.scalar = "StringU" -> "0"
      [] g.scalar = "Lit" -> g.lit[g.litPos + 1]
      [] g.scalar = "Number" -> IF Terminable(g.num) THEN Closer(g) ELSE "0"
      [] g.scalar = "None" /\ g.expect = "Value" ->
           IF g.schema /\ g.stack = <<>> THEN "{"
           ELSE CASE g.pending = "string" -> Quote [] g.pending = "boolean" -> "t" [] OTHER -> "0"
      [] g.scalar = "None" /\ g.expect = "ObjectKeyOrEnd" -> IF MissingKeys(g) THEN Quote ELSE "}"
      [] g.scalar = "None" /\ g.expect = "ObjectKey" -> Quote
      [] g.scalar = "None" /\ g.expect = "ObjectColon" -> ":"
      [] OTHER -> Closer([g EXCEPT !.scalar = "None"])

RECURSIVE Completable(_, _)
Completable(g, fuel) ==
    /\ g # Rejected
    /\ Complete(g) \/ (fuel > 0 /\ Completable(Feed(g, NextByte(g)), fuel - 1))
=============================================================================
