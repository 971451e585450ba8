------------------------ MODULE AttributedTextProofs ------------------------
(***************************************************************************)
(* The walk of AttributedText over any body of any text: it ends, panics   *)
(* only on a dictionary without values, takes every range once, and cuts   *)
(* the text in order.                                                      *)
(***************************************************************************)
EXTENDS AttributedText, TLAPS

-----------------------------------------------------------------------------
(* Operators                                                               *)

\* What Append does to a history of runs.
LEMMA AppendRun ==
    ASSUME NEW s \in Seq(Run), NEW u \in Run
    PROVE  /\ Append(s, u) \in Seq(Run) /\ Append(s, u) # <<>>
           /\ Len(Append(s, u)) = Len(s) + 1 /\ Len(s) \in Nat
           /\ DOMAIN Append(s, u) = DOMAIN s \cup {Len(s) + 1}
           /\ DOMAIN s = 1 .. Len(s)
           /\ Append(s, u)[Len(s) + 1] = u
           /\ \A k \in DOMAIN s : Append(s, u)[k] = s[k]
  OBVIOUS

\* The fields of the runs of a history are numbers.
LEMMA RunsAreNumbers ==
    ASSUME NEW s \in Seq(Run)
    PROVE  \A k \in DOMAIN s : /\ s[k] \in Run /\ s[k].range \in Nat /\ s[k].from \in Nat
                              /\ s[k].to \in Nat /\ s[k].start \in Nat /\ s[k].end \in Nat
  <1>1. \A k \in DOMAIN s : s[k] \in Run
    OBVIOUS
  <1>2. \A u \in Run : /\ u.range \in Nat /\ u.from \in Nat /\ u.to \in Nat
                       /\ u.start \in Nat /\ u.end \in Nat
    BY DEF Run
  <1> QED
    BY <1>1, <1>2

\* A component is a range with a length, or a dictionary with a count.
LEMMA Components ==
    ASSUME body \in Seq(Token)
    PROVE  /\ Len(body) \in Nat
           /\ \A i \in Nat \ {0} : /\ IsRange(i) => i <= Len(body) /\ body[i].n \in Nat
                                   /\ Attributes(i) \in Int
                                   /\ Attributes(i) # 0 => i <= Len(body) /\ ~IsRange(i)
  <1>1. Len(body) \in Nat
    OBVIOUS
  <1>2. ASSUME NEW i \in Nat \ {0}, i <= Len(body)
        PROVE  body[i] \in Token
    BY <1>1, <1>2
  <1>3. \A t \in Token : t.n \in Int /\ (t.kind = "range" => t.n \in Nat)
    BY DEF Token
  <1> QED
    BY <1>1, <1>2, <1>3 DEF IsRange, Attributes

\* Where the selection for a range ends: never before the range, and, when the
\* dictionary has its values, at the last component before the next range.
LEMMA Selections ==
    ASSUME body \in Seq(Token), NEW i \in Nat \ {0}, IsRange(i),
           NEW to \in Selected(First(i), Attributes(i + 1))
    PROVE  /\ First(i) \in Nat /\ to \in Nat /\ First(i) - 1 <= to /\ i <= to
           /\ Attributes(i + 1) = 0 => to = i /\ First(i) = i + 1
           /\ Attributes(i + 1) # 0 /\ ~Incomplete(i) =>
                /\ First(i) <= to /\ to <= Len(body) /\ i < to
                /\ \A j \in i + 1 .. to : ~IsRange(j)
                /\ to = Len(body) \/ IsRange(to + 1)
  <1> DEFINE n == Attributes(i + 1)
  <1>1. n \in Int /\ Len(body) \in Nat /\ i <= Len(body) /\ i + 1 \in Nat \ {0}
        /\ (n # 0 => i + 1 <= Len(body) /\ ~IsRange(i + 1))
    BY Components
  <1>2. CASE n = 0
    BY <1>1, <1>2 DEF Selected, First
  <1>3. CASE n < 0
    <2>1. First(i) = i + 1
      BY <1>1, <1>3 DEF First
    <2>2. to \in First(i) .. Len(body) /\ (\A k \in First(i) .. to : ~IsRange(k))
          /\ (to = Len(body) \/ IsRange(to + 1))
      BY <1>1, <1>3, <2>1 DEF Selected
    <2> QED
      BY <1>1, <1>3, <2>1, <2>2
  <1>4. CASE n > 0
    <2>1. First(i) = i + 2
      BY <1>1, <1>4 DEF First
    <2>2. CASE i + 2 <= Len(body) /\ ~IsRange(i + 2)
      <3>1. to \in i + 2 .. Len(body) /\ (\A k \in i + 2 .. to : ~IsRange(k))
            /\ (to = Len(body) \/ IsRange(to + 1))
        BY <1>1, <1>4, <2>1, <2>2 DEF Selected
      <3>2. ~IsRange(i + 1)
        BY <1>1, <1>4
      <3>3. \A j \in i + 1 .. to : j = i + 1 \/ j \in i + 2 .. to
        BY <1>1, <3>1
      <3> QED
        BY <1>1, <1>4, <2>1, <3>1, <3>2, <3>3
    <2>3. CASE ~(i + 2 <= Len(body) /\ ~IsRange(i + 2))
      <3>1. to = i + 2 + n
        BY <1>1, <1>4, <2>1, <2>3 DEF Selected
      <3>2. Incomplete(i)
        BY <1>1, <1>4, <2>3 DEF Incomplete
      <3> QED
        BY <1>1, <1>4, <2>1, <3>1, <3>2
    <2> QED
      BY <2>2, <2>3
  <1> QED
    BY <1>1, <1>2, <1>3, <1>4

\* Effects lie in the text, and do not end before they start.
LEMMA EffectsAreOrdered ==
    ASSUME NEW s \in Nat, NEW e \in Nat
    PROVE  Effect(s, e) \in Effects /\ (s <= e => Effect(s, e).start <= Effect(s, e).end)
  <1>1. Chars \in Nat /\ Bytes \in Nat
    BY AttributedTextAssumption
  <1>2. \A i \in 0 .. Chars - 1 : Offsets[i] \in 0 .. Bytes
    BY AttributedTextAssumption
  <1>3. \A i, j \in 0 .. Chars - 1 : i <= j => Offsets[i] <= Offsets[j]
    BY AttributedTextAssumption
  <1> DEFINE a == IF 0 < s /\ s < Chars THEN Offsets[s] ELSE 0
             b == IF 0 < e /\ e < Chars THEN Offsets[e] ELSE Bytes
  <1>4. a \in 0 .. Bytes /\ b \in 0 .. Bytes
    BY <1>1, <1>2
  <1>5. s <= e => a <= b
    BY <1>1, <1>2, <1>3
  <1>6. Effect(s, e) = [start |-> a, end |-> b]
    BY DEF Effect
  <1> HIDE DEF a, b
  <1> QED
    BY <1>4, <1>5, <1>6 DEF Effects

-----------------------------------------------------------------------------
(* The inductive invariant                                                 *)

\* The cursor in the text is the end of the last run, and beyond all runs.
Cursor ==
    /\ IF runs = <<>> THEN currentEnd = 0 ELSE currentEnd = runs[Len(runs)].end
    /\ \A k \in DOMAIN runs : /\ runs[k].start <= runs[k].end
                              /\ runs[k].end <= currentEnd
                              /\ runs[k].range < at

\* The selection of one run.
Whole(u) ==
    /\ IsRange(u.range) /\ u.range # 0
    /\ u.end = u.start + body[u.range].n
    /\ IF Attributes(u.range + 1) = 0 THEN u.to < u.from
       ELSE /\ u.from <= u.to /\ u.range < u.to /\ u.to <= Len(body)
            /\ \A j \in u.range + 1 .. u.to : ~IsRange(j)
            /\ u.to = Len(body) \/ IsRange(u.to + 1)

\* How a run follows the one before it.
Linked(k) ==
    IF k = 1 THEN runs[k].start = 0
    ELSE runs[k].start = runs[k - 1].end /\ runs[k - 1].range < runs[k].range

Found ==
    /\ \A i \in 2 .. Len(body) : i < at /\ IsRange(i) => \E k \in DOMAIN runs : runs[k].range = i
    /\ \A k \in DOMAIN runs : Whole(runs[k]) /\ Linked(k)

Inv == TypeOK /\ Cursor /\ PanicsOnlyIncomplete /\ (WellFormed => Found)

\* The walk starts at the second component with nothing taken.
LEMMA InvInit == Init => Inv
  <1> SUFFICES ASSUME Init PROVE Inv
    OBVIOUS
  <1>1. /\ body \in Seq(Token) /\ at = 2 /\ currentEnd = 0 /\ combined = <<>>
        /\ panicked = FALSE /\ runs = <<>>
    BY AttributedTextAssumption DEF Init
  <1>2. DOMAIN runs = {}
    BY <1>1
  <1>3. <<>> \in Seq(Run) /\ <<>> \in Seq(Seq(Effects))
    OBVIOUS
  <1>4. TypeOK
    <2>1. at \in Nat \ {0, 1} /\ currentEnd \in Nat
      BY <1>1
    <2>2. panicked \in BOOLEAN
      BY <1>1, Zenon
    <2>3. combined \in Seq(Seq(Effects)) /\ runs \in Seq(Run)
      BY <1>1, <1>3, Zenon
    <2> QED
      BY <1>1, <1>2, <2>1, <2>2, <2>3, Zenon DEF TypeOK
  <1>5. Cursor
    BY <1>1, <1>2 DEF Cursor
  <1>6. Found
    BY <1>1, <1>2 DEF Found
  <1> QED
    BY <1>1, <1>4, <1>5, <1>6 DEF Inv, PanicsOnlyIncomplete

\* A component passed over is not a range.
LEMMA InvSkip ==
    ASSUME Inv, SkipComponent
    PROVE  Inv'
  <1>1. body' = body /\ at' = at + 1 /\ UNCHANGED <<currentEnd, combined, panicked, runs>>
        /\ ~IsRange(at) /\ at \in Nat \ {0, 1} /\ Len(body) \in Nat
    BY DEF SkipComponent, Inv, TypeOK
  <1>2. TypeOK'
    BY <1>1 DEF Inv, TypeOK
  <1>3. Cursor'
    <2>1. \A k \in DOMAIN runs : runs[k].range \in Nat
      BY RunsAreNumbers DEF Inv, TypeOK
    <2> QED
      BY <1>1, <2>1 DEF Inv, Cursor
  <1>4. PanicsOnlyIncomplete'
    BY <1>1 DEF Inv, PanicsOnlyIncomplete, WellFormed, Incomplete, IsRange, Attributes
  <1>5. WellFormed' = WellFormed
    BY <1>1 DEF WellFormed, Incomplete, IsRange, Attributes
  <1>6. ASSUME Found PROVE Found'
    <2>1. \A i \in 2 .. Len(body) : i < at' /\ IsRange(i) => i < at
      BY <1>1
    <2>2. \A k \in DOMAIN runs : Whole(runs[k])' /\ Linked(k)'
      BY <1>1, <1>6 DEF Found, Whole, Linked, IsRange, Attributes
    <2> QED
      BY <1>1, <1>6, <2>1, <2>2 DEF Found, IsRange
  <1> QED
    BY <1>2, <1>3, <1>4, <1>5, <1>6 DEF Inv

\* What TakeRun adds to the history.
Taken(to) ==
    [range |-> at, from |-> First(at), to |-> to,
     start |-> currentEnd, end |-> currentEnd + body[at].n]

\* A run taken follows the last one and ends where the text is covered to.
LEMMA InvTake ==
    ASSUME Inv, TakeRun
    PROVE  Inv' /\ at' > at
  <1>1. PICK to \in Selected(First(at), Attributes(at + 1)) :
           /\ Sliceable(First(at), to)
           /\ runs' = Append(runs, Taken(to))
           /\ combined' = Combine(Effect(currentEnd, currentEnd + body[at].n))
           /\ currentEnd' = currentEnd + body[at].n
           /\ at' = to + 1
    BY DEF TakeRun, Taken
  <1>2. /\ body' = body /\ panicked' = panicked /\ IsRange(at) /\ at \in Nat \ {0, 1}
        /\ at <= Len(body) /\ body \in Seq(Token) /\ runs \in Seq(Run) /\ currentEnd \in Nat
    BY DEF TakeRun, Reading, Inv, TypeOK
  <1>3. Len(body) \in Nat /\ body[at].n \in Nat
    BY <1>2, Components
  <1>4. First(at) \in Nat /\ to \in Nat /\ at <= to /\ to <= Len(body)
    BY <1>1, <1>2, Selections DEF Sliceable
  <1>5. Taken(to) \in Run /\ Taken(to).range = at /\ Taken(to).from = First(at)
        /\ Taken(to).to = to /\ Taken(to).start = currentEnd
        /\ Taken(to).end = currentEnd + body[at].n
    BY <1>2, <1>3, <1>4 DEF Taken, Run
  <1> DEFINE u == Taken(to)
  <1> HIDE DEF u
  <1>6. /\ runs' \in Seq(Run) /\ runs' # <<>> /\ Len(runs') = Len(runs) + 1
        /\ DOMAIN runs' = DOMAIN runs \cup {Len(runs) + 1} /\ DOMAIN runs = 1 .. Len(runs)
        /\ Len(runs) \in Nat
        /\ runs'[Len(runs) + 1] = u /\ \A k \in DOMAIN runs : runs'[k] = runs[k]
    BY <1>1, <1>2, <1>5, AppendRun DEF u
  <1>7. /\ u.range = at /\ u.from = First(at) /\ u.to = to /\ u.start = currentEnd
        /\ u.end = currentEnd + body[at].n /\ u.end = currentEnd'
    BY <1>1, <1>5 DEF u
  <1>8. at' \in Nat /\ at < at' /\ currentEnd' \in Nat /\ currentEnd <= currentEnd'
    BY <1>1, <1>2, <1>3, <1>4
  <1>9. \A k \in DOMAIN runs : runs[k].range \in Nat /\ runs[k].end \in Nat
    BY <1>2, RunsAreNumbers
  <1>10. TypeOK'
    <2>1. Effect(currentEnd, currentEnd + body[at].n) \in Effects
      BY <1>2, <1>3, EffectsAreOrdered
    <2>2. combined' \in Seq(Seq(Effects))
      <3> DEFINE f == Effect(currentEnd, currentEnd + body[at].n)
      <3> HIDE DEF f
      <3>1. f \in Effects /\ combined' = Combine(f)
        BY <1>1, <2>1 DEF f
      <3> QED
        BY <3>1 DEF Combine, Inv, TypeOK
    <2>3. \A k \in DOMAIN runs' : runs'[k].to <= Len(body)
      BY <1>4, <1>6, <1>7 DEF Inv, TypeOK
    <2> QED
      BY <1>2, <1>6, <1>8, <2>2, <2>3 DEF Inv, TypeOK
  <1>11. Cursor'
    <2>1. \A k \in DOMAIN runs : /\ runs[k].start <= runs[k].end /\ runs[k].end <= currentEnd'
                                 /\ runs[k].range < at'
      BY <1>2, <1>8, <1>9 DEF Inv, Cursor
    <2>2. u.start <= u.end /\ u.end <= currentEnd' /\ u.range < at'
      BY <1>2, <1>7, <1>8
    <2> QED
      BY <1>6, <1>7, <2>1, <2>2 DEF Cursor
  <1>12. PanicsOnlyIncomplete'
    BY <1>2 DEF Inv, PanicsOnlyIncomplete, WellFormed, Incomplete, IsRange, Attributes
  <1>13. WellFormed' = WellFormed
    BY <1>2 DEF WellFormed, Incomplete, IsRange, Attributes
  <1>14. ASSUME WellFormed PROVE Found'
    <2>1. Found /\ ~Incomplete(at)
      BY <1>2, <1>3, <1>14 DEF Inv, WellFormed
    <2>2. /\ Attributes(at + 1) = 0 => to = at /\ First(at) = at + 1
          /\ Attributes(at + 1) # 0 =>
                /\ First(at) <= to /\ to <= Len(body) /\ at < to
                /\ \A j \in at + 1 .. to : ~IsRange(j)
                /\ to = Len(body) \/ IsRange(to + 1)
      BY <1>1, <1>2, <2>1, Selections
    <2>3. Whole(u)
      BY <1>2, <1>4, <1>7, <2>2 DEF Whole
    <2>4. \A x : Whole(x)' = Whole(x)
      BY <1>2 DEF Whole, IsRange, Attributes
    <2>5. ASSUME NEW n, n = Len(runs) + 1 PROVE Linked(n)'
      <3>1. CASE runs = <<>>
        BY <1>6, <1>7, <2>5, <3>1 DEF Linked, Inv, Cursor
      <3>2. CASE runs # <<>>
        <4>1. Len(runs) \in DOMAIN runs /\ Len(runs) # 0
          BY <1>2, <3>2
        <4>2. currentEnd = runs[Len(runs)].end /\ runs[Len(runs)].range < at
          BY <3>2, <4>1 DEF Inv, Cursor
        <4>3. n # 1 /\ n - 1 = Len(runs)
          BY <1>6, <2>5, <4>1
        <4> QED
          BY <1>6, <1>7, <2>5, <4>1, <4>2, <4>3 DEF Linked
      <3> QED
        BY <3>1, <3>2
    <2>6. ASSUME NEW k \in DOMAIN runs PROVE Linked(k)'
      <3>1. Linked(k) /\ runs'[k] = runs[k]
        BY <1>6, <2>1 DEF Found
      <3>2. k # 1 => k - 1 \in DOMAIN runs
        BY <1>6
      <3>3. k # 1 => runs'[k - 1] = runs[k - 1]
        BY <1>6, <3>2
      <3> QED
        BY <3>1, <3>3 DEF Linked
    <2>7. ASSUME NEW i \in 2 .. Len(body), i < at', IsRange(i)
          PROVE  \E k \in DOMAIN runs' : runs'[k].range = i
      <3>1. CASE i < at
        BY <1>6, <2>1, <2>7, <3>1 DEF Found
      <3>2. CASE i = at
        BY <1>6, <1>7, <3>2
      <3>3. CASE at < i
        <4>1. i \in at + 1 .. to
          BY <1>1, <1>2, <1>3, <1>4, <2>7, <3>3
        <4> QED
          BY <1>2, <1>4, <2>2, <2>7, <4>1
      <3> QED
        BY <1>2, <1>3, <3>1, <3>2, <3>3
    <2>8. \A i \in 2 .. Len(body') : i < at' /\ IsRange(i)' => \E k \in DOMAIN runs' : runs'[k].range = i
      BY <1>2, <2>7 DEF IsRange
    <2>9. \A k \in DOMAIN runs' : Whole(runs'[k])
      BY <1>6, <2>1, <2>3 DEF Found
    <2>10. \A k \in DOMAIN runs' : Whole(runs[k])' /\ Linked(k)'
      BY <1>6, <2>4, <2>5, <2>6, <2>9
    <2> QED
      BY <2>8, <2>10 DEF Found
  <1> QED
    BY <1>8, <1>10, <1>11, <1>12, <1>13, <1>14 DEF Inv

\* A selection that ends beyond the components is of a dictionary without values.
LEMMA InvBeyond ==
    ASSUME Inv, SelectBeyond
    PROVE  Inv' /\ panicked'
  <1>1. PICK to \in Selected(First(at), Attributes(at + 1)) : ~Sliceable(First(at), to)
    BY DEF SelectBeyond
  <1>2. /\ UNCHANGED <<body, at, currentEnd, combined, runs>> /\ panicked' = TRUE
        /\ IsRange(at) /\ at \in Nat \ {0, 1} /\ at <= Len(body) /\ body \in Seq(Token)
    BY DEF SelectBeyond, Reading, Inv, TypeOK
  <1>3. Incomplete(at)
    BY <1>1, <1>2, Selections, Components DEF Sliceable
  <1>4. ~WellFormed
    BY <1>2, <1>3, Components DEF WellFormed
  <1>5. WellFormed' = WellFormed
    BY <1>2 DEF WellFormed, Incomplete, IsRange, Attributes
  <1>6. TypeOK' /\ Cursor'
    BY <1>2 DEF Inv, TypeOK, Cursor
  <1> QED
    BY <1>2, <1>4, <1>5, <1>6 DEF Inv, PanicsOnlyIncomplete

\* Every step keeps the invariant, and moves on or ends the walk.
LEMMA InvStep == Inv /\ [Next]_vars => Inv' /\ [at' > at \/ panicked']_vars
  <1> SUFFICES ASSUME Inv, [Next]_vars PROVE Inv' /\ [at' > at \/ panicked']_vars
    OBVIOUS
  <1>1. CASE UNCHANGED vars
    <2>1. WellFormed' = WellFormed /\ TypeOK' /\ Cursor'
      BY <1>1 DEF vars, WellFormed, Incomplete, IsRange, Attributes, Inv, TypeOK, Cursor
    <2>2. Found => Found'
      BY <1>1 DEF vars, Found, Whole, Linked, IsRange, Attributes
    <2> QED
      BY <1>1, <2>1, <2>2 DEF Inv, PanicsOnlyIncomplete, vars
  <1>2. CASE SkipComponent
    <2>1. at' > at
      BY <1>2 DEF SkipComponent, Inv, TypeOK
    <2> QED
      BY <1>2, <2>1, InvSkip
  <1>3. CASE TakeRun
    BY <1>3, InvTake
  <1>4. CASE SelectBeyond
    BY <1>4, InvBeyond
  <1> QED
    BY <1>1, <1>2, <1>3, <1>4 DEF Next

-----------------------------------------------------------------------------
(* The theorems                                                            *)

\* The inductive invariant holds at every step of the walk.
THEOREM WalkInvariant == Spec => []Inv
  BY InvInit, InvStep, PTL DEF Spec

\* Every effect lies in the text and every selection in the components.
THEOREM WalkTypes == Spec => []TypeOK
  <1>1. Inv => TypeOK
    BY DEF Inv
  <1> QED
    BY <1>1, WalkInvariant, PTL

\* The loop of ConvertArchivablesToCombinedComponents has no infinite loop
\* (messagecomponent.go:237).
THEOREM WalkAdvances == Spec => Advances
  <1>1. Inv /\ [Next]_vars => [at' > at \/ panicked']_vars
    BY InvStep
  <1> QED
    BY <1>1, WalkInvariant, PTL DEF Spec, Advances

\* Only a dictionary without values makes the walk panic (archivable.go:128-136).
THEOREM WalkPanics == Spec => []PanicsOnlyIncomplete
  <1>1. Inv => PanicsOnlyIncomplete
    BY DEF Inv
  <1> QED
    BY <1>1, WalkInvariant, PTL

\* No effect ends before it starts (texteffect.go:81).
THEOREM WalkOrders == Spec => []EffectsOrdered
  <1>1. Inv => EffectsOrdered
    <2> SUFFICES ASSUME Inv, NEW k \in DOMAIN runs
                 PROVE  RunEffect(k).start <= RunEffect(k).end
      BY DEF EffectsOrdered
    <2>1. runs[k] \in Run /\ runs[k].start <= runs[k].end
      BY DEF Inv, TypeOK, Cursor
    <2> QED
      BY <2>1, EffectsAreOrdered DEF RunEffect, Run
  <1> QED
    BY <1>1, WalkInvariant, PTL

\* Only one position qualifies as the next range.
LEMMA NextRangeIs ==
    ASSUME body \in Seq(Token), NEW i \in Nat, NEW j \in i + 1 .. Len(body) + 1,
           j = Len(body) + 1 \/ IsRange(j),
           \A k \in i + 1 .. j - 1 : ~IsRange(k)
    PROVE  NextRange(i) = j
  <1> DEFINE Qualifies(x) == /\ x = Len(body) + 1 \/ IsRange(x)
                             /\ \A k \in i + 1 .. x - 1 : ~IsRange(k)
  <1>1. Len(body) \in Nat /\ Qualifies(j)
    OBVIOUS
  <1>2. ASSUME NEW x \in i + 1 .. Len(body) + 1, Qualifies(x) PROVE x = j
    <2>1. CASE x < j
      <3>1. x \in i + 1 .. j - 1 /\ x # Len(body) + 1
        BY <1>1, <2>1
      <3> QED
        BY <1>1, <1>2, <3>1
    <2>2. CASE j < x
      <3>1. j \in i + 1 .. x - 1 /\ j # Len(body) + 1
        BY <1>1, <2>2
      <3> QED
        BY <1>1, <1>2, <3>1
    <2> QED
      BY <1>1, <2>1, <2>2
  <1> HIDE DEF Qualifies
  <1>3. NextRange(i) = CHOOSE x \in i + 1 .. Len(body) + 1 : Qualifies(x)
    BY DEF NextRange, Qualifies
  <1> QED
    BY <1>1, <1>2, <1>3

\* Every range is taken once, in order, with all that follows its dictionary
\* (messagecomponent.go:187-239).
THEOREM WalkFinds == Spec => []RunsFound
  <1>1. Inv => RunsFound
    <2> SUFFICES ASSUME Inv, WellFormed PROVE RunsFound
      BY DEF RunsFound
    <2>1. Found /\ body \in Seq(Token) /\ Len(body) \in Nat
      BY DEF Inv, TypeOK
    <2>2. ASSUME NEW k \in DOMAIN runs, Attributes(runs[k].range + 1) # 0
          PROVE  runs[k].to = NextRange(runs[k].range) - 1
      <3>1. runs[k] \in Run /\ Whole(runs[k])
        BY <2>1 DEF Inv, TypeOK, Found
      <3>2. runs[k].range \in Nat /\ runs[k].to \in Nat
        BY <3>1 DEF Run
      <3>3. /\ runs[k].range < runs[k].to /\ runs[k].to <= Len(body)
            /\ \A j \in runs[k].range + 1 .. runs[k].to : ~IsRange(j)
            /\ runs[k].to = Len(body) \/ IsRange(runs[k].to + 1)
        BY <2>2, <3>1 DEF Whole
      <3> DEFINE i == runs[k].range
                 t == runs[k].to
      <3>4. i \in Nat /\ t + 1 \in i + 1 .. Len(body) + 1 /\ (t + 1) - 1 = t
            /\ (t + 1 = Len(body) + 1 \/ IsRange(t + 1))
        BY <2>1, <3>2, <3>3
      <3>5. NextRange(i) = t + 1
        BY <2>1, <3>3, <3>4, NextRangeIs
      <3> QED
        BY <3>2, <3>5
    <2> QED
      BY <2>1, <2>2 DEF Found, Whole, Linked, RunsFound
  <1> QED
    BY <1>1, WalkInvariant, PTL

\* Runs that add up to the text cut it without gap or overlap, at characters
\* (messagecomponent.go:176).
THEOREM WalkTiles == Spec => []RunsTile
  <1>1. Inv => RunsTile
    <2> SUFFICES ASSUME Inv, WellFormed, runs # <<>>, runs[Len(runs)].end = Chars,
                        \A k \in DOMAIN runs : runs[k].start < runs[k].end
                 PROVE  /\ RunEffect(1).start = 0 /\ RunEffect(Len(runs)).end = Bytes
                        /\ \A k \in DOMAIN runs \ {1} :
                             /\ RunEffect(k - 1).end = RunEffect(k).start
                             /\ RunEffect(k).start \in {Offsets[i] : i \in DOMAIN Offsets}
      BY DEF RunsTile
    <2>1. Found /\ runs \in Seq(Run) /\ currentEnd = Chars /\ Chars \in Nat
      BY AttributedTextAssumption DEF Inv, TypeOK, Cursor
    <2>2. Len(runs) \in Nat /\ DOMAIN runs = 1 .. Len(runs) /\ 1 \in DOMAIN runs
      BY <2>1
    <2>3. \A k \in DOMAIN runs : runs[k] \in Run /\ runs[k].start \in Nat /\ runs[k].end \in Nat
                                 /\ runs[k].end <= Chars
      BY <2>1, RunsAreNumbers DEF Inv, Cursor
    <2>4. RunEffect(1).start = 0
      BY <2>1, <2>2 DEF Found, Linked, RunEffect, Effect
    <2>5. RunEffect(Len(runs)).end = Bytes
      BY <2>1 DEF RunEffect, Effect
    <2>6. ASSUME NEW k \in DOMAIN runs, k # 1
          PROVE  /\ RunEffect(k - 1).end = RunEffect(k).start
                 /\ RunEffect(k).start \in {Offsets[i] : i \in DOMAIN Offsets}
      <3>1. k - 1 \in DOMAIN runs
        BY <2>2, <2>6
      <3>2. runs[k].start = runs[k - 1].end
        BY <2>1, <2>6 DEF Found, Linked
      <3>3. runs[k - 1].start < runs[k - 1].end /\ runs[k].start < runs[k].end
        BY <3>1
      <3>4. 0 < runs[k].start /\ runs[k].start < Chars
        BY <2>1, <2>3, <3>1, <3>2, <3>3
      <3>5. RunEffect(k).start = Offsets[runs[k].start]
            /\ RunEffect(k - 1).end = Offsets[runs[k].start]
        BY <3>2, <3>4 DEF RunEffect, Effect
      <3>6. runs[k].start \in DOMAIN Offsets
        <4>1. DOMAIN Offsets = 0 .. Chars - 1
          BY AttributedTextAssumption
        <4> QED
          BY <2>1, <2>3, <3>4, <4>1
      <3> QED
        BY <3>5, <3>6
    <2> QED
      BY <2>4, <2>5, <2>6
  <1> QED
    BY <1>1, WalkInvariant, PTL

=============================================================================
