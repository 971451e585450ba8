--------------------------- MODULE AttributedText ---------------------------
(***************************************************************************)
(* ConvertArchivablesToCombinedComponents of messagecomponent.go: the walk *)
(* over the components of a decoded body that cuts the text into runs of   *)
(* attributes and selects the attributes of each run.                      *)
(*                                                                         *)
(* Component 1 is the text.  The others are ranges (data of a signed and   *)
(* an unsigned integer, of which the walk uses the second: the length of   *)
(* the run), dictionaries (their count of keys and values, read from the   *)
(* stream and not checked), and other items.  What an attribute says is    *)
(* left out: no key is ever of type ComponentTypeKey (messagecomponent.go: *)
(* 59), so every run gives a default effect.                               *)
(***************************************************************************)
EXTENDS Integers, Sequences

CONSTANTS
    Bodies,   \* the decoded bodies considered
    Chars,    \* characters of the text
    Bytes,    \* and its bytes
    Offsets   \* charIndexTable: the byte at which each character starts

Token == [kind : {"range"}, n : Nat] \cup [kind : {"dict"}, n : Int]
         \cup [kind : {"item"}, n : {0}]

ASSUME AttributedTextAssumption ==
    /\ Bodies \subseteq Seq(Token)
    /\ Chars \in Nat /\ Bytes \in Nat
    /\ Offsets \in [0 .. Chars - 1 -> 0 .. Bytes]
    /\ \A i, j \in 0 .. Chars - 1 : i <= j => Offsets[i] <= Offsets[j]

VARIABLES
    body,        \* components
    at,          \* componentIndex, counted from 1
    currentEnd,  \* characters covered so far
    combined,    \* combinedComponents: each text with its effects
    panicked,    \* did a slice go beyond the components?
    runs         \* the runs taken and what was selected for each (history)

vars == <<body, at, currentEnd, combined, panicked, runs>>

Init ==
    /\ body \in Bodies
    /\ at = 2 /\ currentEnd = 0
    /\ combined = <<>> /\ panicked = FALSE
    /\ runs = <<>>

-----------------------------------------------------------------------------

IsRange(i) == i <= Len(body) /\ body[i].kind = "range"

\* getDictionaryLength: only a dictionary has one, of any sign.
Attributes(i) == IF i <= Len(body) /\ body[i].kind = "dict" THEN body[i].n ELSE 0

\* Mutant: as many as asked for.
Selected_Counted(i, n) == {i + n - 1}

\* getNDictionaryObjects: where the selection from i on ends.  Not n objects
\* are taken but all up to the next range; when there is none to take, i + n
\* stands, which counts one too many and is not held against the length.
Selected(i, n) ==
    IF n = 0 THEN {i - 1}
    ELSE IF i <= Len(body) /\ ~IsRange(i)
    THEN {j \in i .. Len(body) : /\ \A k \in i .. j : ~IsRange(k)
                                 /\ j = Len(body) \/ IsRange(j + 1)}
    ELSE {i + n}

\* Mutant: the offsets are taken for bytes.
Effect_Units(s, e) == [start |-> s, end |-> e]

\* Mutant: the end of the text is not known.
Effect_NoEnd(s, e) ==
    [start |-> IF 0 < s /\ s < Chars THEN Offsets[s] ELSE 0,
     end   |-> IF 0 < e /\ e < Chars THEN Offsets[e] ELSE 0]

\* GetCombinedComponent: characters to bytes.  Offsets that are not in the
\* table, and an end of 0, stand for the bounds of the text.
Effect(s, e) ==
    [start |-> IF 0 < s /\ s < Chars THEN Offsets[s] ELSE 0,
     end   |-> IF 0 < e /\ e < Chars THEN Offsets[e] ELSE Bytes]

\* A run starts a text, or is appended to a copy of the last one and lost.
Combine(effect) == IF combined = <<>> THEN << <<effect>> >> ELSE combined

\* components[from - 1 : to] can be taken.
Sliceable(from, to) == from - 1 <= to /\ to <= Len(body)

Reading == ~panicked /\ at <= Len(body)

\* What is not a range is passed over.
SkipComponent ==
    /\ Reading /\ ~IsRange(at)
    /\ at' = at + 1
    /\ UNCHANGED <<body, currentEnd, combined, panicked, runs>>

\* Mutant: a dictionary is passed over whatever its count.
First_Nonzero(i) == IF Attributes(i + 1) # 0 THEN i + 2 ELSE i + 1

\* Where the selection for the range at i starts.
First(i) == IF Attributes(i + 1) > 0 THEN i + 2 ELSE i + 1

\* Mutant: the cursor moves on by the selection only.
TakeRun_Selection ==
    /\ Reading /\ IsRange(at)
    /\ \E to \in Selected(First(at), Attributes(at + 1)) :
        /\ Sliceable(First(at), to)
        /\ runs' = Append(runs, [range |-> at, from |-> First(at), to |-> to,
                                 start |-> currentEnd, end |-> currentEnd + body[at].n])
        /\ combined' = Combine(Effect(currentEnd, currentEnd + body[at].n))
        /\ currentEnd' = currentEnd + body[at].n
        /\ at' = at + (to + 1 - First(at))
    /\ UNCHANGED <<body, panicked>>

\* Mutant: the next run starts one character later.
TakeRun_Gap ==
    /\ Reading /\ IsRange(at)
    /\ \E to \in Selected(First(at), Attributes(at + 1)) :
        /\ Sliceable(First(at), to)
        /\ runs' = Append(runs, [range |-> at, from |-> First(at), to |-> to,
                                 start |-> currentEnd, end |-> currentEnd + body[at].n])
        /\ combined' = Combine(Effect(currentEnd, currentEnd + body[at].n))
        /\ currentEnd' = currentEnd + body[at].n + 1
        /\ at' = to + 1
    /\ UNCHANGED <<body, panicked>>

TakeRun ==
    /\ Reading /\ IsRange(at)
    /\ \E to \in Selected(First(at), Attributes(at + 1)) :
        /\ Sliceable(First(at), to)
        /\ runs' = Append(runs, [range |-> at, from |-> First(at), to |-> to,
                                 start |-> currentEnd, end |-> currentEnd + body[at].n])
        /\ combined' = Combine(Effect(currentEnd, currentEnd + body[at].n))
        /\ currentEnd' = currentEnd + body[at].n
        /\ at' = to + 1
    /\ UNCHANGED <<body, panicked>>

\* The selection ends beyond the components: the slice expression panics, or,
\* when the array behind it is long enough, the nil component it yields does.
SelectBeyond ==
    /\ Reading /\ IsRange(at)
    /\ \E to \in Selected(First(at), Attributes(at + 1)) : ~Sliceable(First(at), to)
    /\ panicked' = TRUE
    /\ UNCHANGED <<body, at, currentEnd, combined, runs>>

Next == SkipComponent \/ TakeRun \/ SelectBeyond

Spec == Init /\ [][Next]_vars

-----------------------------------------------------------------------------
(* Properties                                                              *)

Run == [range : Nat, from : Nat, to : Nat, start : Nat, end : Nat]
Effects == [start : 0 .. Bytes, end : 0 .. Bytes]

\* The type invariant.  Every effect lies in the text, and every selection in
\* the components.
TypeOK ==
    /\ body \in Seq(Token)
    /\ at \in Nat \ {0, 1} /\ currentEnd \in Nat
    /\ combined \in Seq(Seq(Effects))
    /\ panicked \in BOOLEAN
    /\ runs \in Seq(Run)
    /\ \A k \in DOMAIN runs : runs[k].to <= Len(body)

\* "This feels like it has potential for an infinite loop if no components are
\* returned?" (messagecomponent.go:237): it has none, for any body.  Each turn
\* of the loop moves on or ends the walk.
Advances == [][at' > at \/ panicked']_vars

\* The values of a dictionary after a range are missing.
Incomplete(i) ==
    /\ IsRange(i) /\ Attributes(i + 1) > 0
    /\ i + 2 > Len(body) \/ IsRange(i + 2)

\* What an archiver writes: every dictionary has its values.
WellFormed == \A i \in 2 .. Len(body) : ~Incomplete(i)

\* Only a dictionary without values makes the walk panic, and with it the
\* bridge, as nothing recovers (archivable.go:128-136).
PanicsOnlyIncomplete == panicked => ~WellFormed

\* The range after position i, or the end of the components.
NextRange(i) == CHOOSE j \in i + 1 .. Len(body) + 1 :
                    /\ j = Len(body) + 1 \/ IsRange(j)
                    /\ \A k \in i + 1 .. j - 1 : ~IsRange(k)

\* In a well formed body the walk takes every range it has passed once, in
\* order and with consecutive offsets, and selects for it what follows its
\* dictionary up to the next range, or the dictionary itself when its count is
\* negative (messagecomponent.go:187-239, "This loop seems buggy",
\* archivable.go:127).
RunsFound ==
    WellFormed =>
        /\ \A i \in 2 .. Len(body) : i < at /\ IsRange(i) => \E k \in DOMAIN runs : runs[k].range = i
        /\ \A k \in DOMAIN runs :
            /\ IsRange(runs[k].range)
            /\ runs[k].end = runs[k].start + body[runs[k].range].n
            /\ IF k = 1 THEN runs[k].start = 0
               ELSE /\ runs[k].start = runs[k - 1].end
                    /\ runs[k - 1].range < runs[k].range
            /\ IF Attributes(runs[k].range + 1) = 0 THEN runs[k].to < runs[k].from
               ELSE /\ runs[k].to = NextRange(runs[k].range) - 1
                    /\ runs[k].from <= runs[k].to

\* When the lengths of the runs are positive and add up to the characters of
\* the text, the effects of the runs cut the text in pieces without gap or
\* overlap, at the starts of characters ("Apple's indexes with the actual
\* chars, not the bytes", messagecomponent.go:176).
RunEffect(k) == Effect(runs[k].start, runs[k].end)
RunsTile ==
    /\ at > Len(body) /\ WellFormed /\ runs # <<>>
    /\ runs[Len(runs)].end = Chars /\ \A k \in DOMAIN runs : runs[k].start < runs[k].end
    => /\ RunEffect(1).start = 0 /\ RunEffect(Len(runs)).end = Bytes
       /\ \A k \in DOMAIN runs \ {1} :
            /\ RunEffect(k - 1).end = RunEffect(k).start
            /\ RunEffect(k).start \in {Offsets[i] : i \in DOMAIN Offsets}

\* No effect ends before it starts, so that the text can be sliced by it
\* (texteffect.go:81).
EffectsOrdered == \A k \in DOMAIN runs : RunEffect(k).start <= RunEffect(k).end

=============================================================================
