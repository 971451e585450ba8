-------------------------- MODULE LifecycleProofs --------------------------
(***************************************************************************)
(* Lifecycle for any number of connections and any failing dependencies:   *)
(* the types, that a Connect that comes to nothing is reported, that the   *)
(* stop channels have room, and that the stops reach the loops they are    *)
(* meant for.                                                              *)
(***************************************************************************)
EXTENDS Lifecycle, TLAPS

\* The steps of Connect by number.
LEMMA LadderSteps ==
    /\ Len(Ladder) = 9
    /\ Ladder[5] = "channels" /\ Ladder[9] = "spawn"
    /\ \A i \in 1 .. 9 : (Ladder[i] = "channels" => i = 5) /\ (Ladder[i] = "spawn" => i = 9)
                         /\ (Ladder[i] = "newWatcher" => i = 6)
  <1>1. \A i \in 1 .. 9 : i = 1 \/ i = 2 \/ i = 3 \/ i = 4 \/ i = 5 \/ i = 6 \/ i = 7 \/ i = 8 \/ i = 9
    OBVIOUS
  <1> QED
    BY <1>1 DEF Ladder

\* A Connect past the making of its channels has them in the fields, and one
\* that ended without a report has started its loops.
Underway ==
    /\ at # 0 => connects # 0
    /\ at > 5 => gen = connects
    /\ gen <= connects

Inv == TypeOK /\ Underway /\ FailuresSurface

\* Nothing is connected at first.
LEMMA InvInit == Init => Inv
  <1> SUFFICES ASSUME Init PROVE Inv
    OBVIOUS
  <1>1. MaxConnects \in Nat /\ 0 \in 0 .. MaxConnects
    BY LifecycleAssumption
  <1>2. at = 0 /\ gen = 0 /\ connects = 0 /\ disconnects = 0
    BY DEF Init
  <1>3. TypeOK
    <2>1. /\ at \in 0 .. Len(Ladder) /\ gen \in 0 .. MaxConnects
          /\ connects \in 0 .. MaxConnects /\ disconnects \in 0 .. connects
      BY <1>1, <1>2, LadderSteps
    <2>2. made \in BOOLEAN /\ fault \in BOOLEAN /\ fresh \in BOOLEAN
      BY DEF Init
    <2>3. /\ loops \in [Kinds -> [Gens -> {"none", "busy", "select", "ended"}]]
          /\ on \in [Kinds -> [Gens -> 0 .. MaxConnects]]
          /\ tokens \in [Kinds -> [Gens -> {0, 1}]]
          /\ \A k \in Kinds, g \in Gens : loops[k][g] = "none"
      BY <1>1 DEF Init
    <2> QED
      BY <1>1, <2>1, <2>2, <2>3 DEF Init, TypeOK
  <1> QED
    BY <1>2, <1>3 DEF Inv, Underway, FailuresSurface

\* The steps of Connect: the loops start with the channels of this Connect, and
\* whatever ends it early is reported.
LEMMA InvConnect ==
    ASSUME Inv, CallConnect \/ Connecting
    PROVE  Inv'
  <1> USE DEF connectVars, loopVars, discVars
  <1>1. MaxConnects \in Nat
    BY LifecycleAssumption
  <1>2. /\ at \in 0 .. 9 /\ gen \in 0 .. MaxConnects /\ connects \in 0 .. MaxConnects
        /\ disconnects \in 0 .. connects
    BY LadderSteps DEF Inv, TypeOK
  <1>3. CASE CallConnect
    <2>1. at' = 1 /\ connects' = connects + 1 /\ gen' = gen /\ connects' \in 0 .. MaxConnects
      BY <1>1, <1>2, <1>3 DEF CallConnect
    <2>2. disconnects' \in 0 .. connects'
      BY <1>1, <1>2, <1>3 DEF CallConnect
    <2>3. TypeOK'
      <3>1. at' \in 0 .. Len(Ladder)
        BY <2>1, LadderSteps
      <3>2. made' \in BOOLEAN /\ fault' \in BOOLEAN
            /\ report' \in {"none", "bad-credentials", "unknown-error"}
        BY <1>3 DEF CallConnect
      <3>3. UNCHANGED <<gen, loopVars, tokens, discVars>>
        BY <1>3 DEF CallConnect
      <3> QED
        BY <2>1, <2>2, <3>1, <3>2, <3>3 DEF Inv, TypeOK
    <2> QED
      BY <1>1, <1>2, <2>1, <2>3 DEF Inv, Underway, FailuresSurface
  <1>4. CASE Fail
    <2>1. /\ at' = 0 /\ report' \in {"bad-credentials", "unknown-error"}
          /\ UNCHANGED <<gen, connects, loops>>
      BY <1>4 DEF Fail, StateOf
    <2>2. fault' \in BOOLEAN
      BY <1>4 DEF Fail, Inv, TypeOK
    <2>3. TypeOK'
      BY <1>1, <1>4, <2>1, <2>2, LadderSteps DEF Fail, Inv, TypeOK
    <2> QED
      BY <1>2, <2>1, <2>3 DEF Inv, Underway, FailuresSurface
  <1>5. CASE Pass
    <2>1. at # 0 /\ at # 5 /\ at # 9 /\ at' = at + 1
      BY <1>5, LadderSteps DEF Pass
    <2>2. at' \in 1 .. 9 /\ (at' > 5 => at > 5)
      BY <1>2, <2>1
    <2>3. TypeOK'
      BY <1>1, <1>5, <2>2, LadderSteps DEF Pass, Inv, TypeOK
    <2> QED
      BY <1>2, <1>5, <2>1, <2>2, <2>3 DEF Pass, Inv, Underway, FailuresSurface
  <1>6. CASE MakeChannels
    <2>1. at = 5 /\ at' = 6 /\ gen' = connects /\ connects' = connects
      BY <1>2, <1>6, LadderSteps DEF MakeChannels
    <2>2. \A k \in Kinds, g \in Gens : loops[k][g] # "none" => g <= gen'
      <3>1. gen <= gen' /\ gen \in Int /\ gen' \in Int /\ Gens \subseteq Int
        BY <1>1, <1>2, <2>1 DEF Inv, Underway, Gens
      <3> QED
        BY <3>1 DEF Inv, TypeOK
    <2>3. TypeOK'
      BY <1>1, <1>2, <1>6, <2>1, <2>2, LadderSteps DEF MakeChannels, Inv, TypeOK
    <2> QED
      BY <1>2, <2>1, <2>3 DEF Inv, Underway, FailuresSurface
  <1>7. CASE OpenWatcher
    <2>1. at = 6 /\ at' = 7 /\ gen' = gen /\ connects' = connects /\ gen \in Gens
      BY <1>1, <1>2, <1>7, LadderSteps DEF OpenWatcher, Inv, Underway, Gens
    <2>2. TypeOK'
      BY <1>1, <1>7, <2>1, LadderSteps DEF OpenWatcher, Inv, TypeOK
    <2> QED
      BY <1>2, <2>1, <2>2 DEF Inv, Underway, FailuresSurface
  <1>8. CASE Spawn
    <2>1. at = 9 /\ at' = 0 /\ gen' = gen /\ connects' = connects /\ gen = connects /\ gen \in Gens
      BY <1>1, <1>2, <1>8, LadderSteps DEF Spawn, Inv, Underway, Gens
    <2>2. loops' = [k \in Kinds |-> [loops[k] EXCEPT ![gen] = "busy"]]
      BY <1>8 DEF Spawn
    <2>3. loops' \in [Kinds -> [Gens -> {"none", "busy", "select", "ended"}]]
      BY <2>2 DEF Inv, TypeOK
    <2>4. \A k \in Kinds, g \in Gens : loops'[k][g] = IF g = gen THEN "busy" ELSE loops[k][g]
      BY <2>1, <2>2 DEF Inv, TypeOK
    <2>5. \A k \in Kinds, g \in Gens : loops'[k][g] # "none" => g <= gen
      <3>1. \A k \in Kinds, g \in Gens : loops[k][g] # "none" => g <= gen
        BY DEF Inv, TypeOK
      <3>2. gen <= gen
        BY <1>2
      <3> QED
        BY <2>4, <3>1, <3>2
    <2>6. TypeOK'
      BY <1>1, <1>8, <2>1, <2>3, <2>5, LadderSteps DEF Spawn, Inv, TypeOK
    <2>7. loops'["watch"][connects] = "busy"
      BY <2>1, <2>4 DEF Kinds
    <2> QED
      BY <1>2, <2>1, <2>6, <2>7 DEF Inv, Underway, FailuresSurface
  <1> QED
    BY <1>3, <1>4, <1>5, <1>6, <1>7, <1>8 DEF Connecting

\* The loops and Disconnect do not undo what Connect did: a loop ends but was
\* started, and a failing watcher is reported.
LEMMA InvLoops ==
    ASSUME Inv, NEW k \in Kinds,
           \/ CallDisconnect \/ SendStop(k)
           \/ \E g \in Gens : Select(k, g) \/ Handle(k, g) \/ Stop(k, g) \/ WatchFails(g)
    PROVE  Inv'
  <1> USE DEF connectVars, loopVars, discVars
  <1>1. MaxConnects \in Nat
    BY LifecycleAssumption
  <1>2. loops \in [Kinds -> [Gens -> {"none", "busy", "select", "ended"}]]
        /\ connects \in 0 .. MaxConnects /\ disconnects \in 0 .. connects /\ "watch" \in Kinds
    BY DEF Inv, TypeOK, Kinds
  \* Started loops stay started.
  <1>3. ASSUME NEW j \in Kinds, NEW g \in Gens, NEW s \in {"busy", "select", "ended"},
               loops[j][g] # "none", loops' = [loops EXCEPT ![j][g] = s]
        PROVE  /\ loops' \in [Kinds -> [Gens -> {"none", "busy", "select", "ended"}]]
               /\ \A i \in Kinds, f \in Gens : loops'[i][f] # "none" <=> loops[i][f] # "none"
    BY <1>2, <1>3
  <1>4. CASE CallDisconnect
    <2>1. disconnects' \in 0 .. connects
      BY <1>1, <1>2, <1>4 DEF CallDisconnect
    <2>2. TypeOK'
      BY <1>4, <2>1 DEF CallDisconnect, Inv, TypeOK, Kinds
    <2> QED
      BY <1>4, <2>2 DEF CallDisconnect, Inv, Underway, FailuresSurface
  <1>5. CASE SendStop(k)
    <2>1. tokens' \in [Kinds -> [Gens -> {0, 1}]]
      BY <1>5 DEF SendStop, Inv, TypeOK
    <2>2. TypeOK'
      BY <1>5, <2>1 DEF SendStop, Inv, TypeOK, Kinds
    <2> QED
      BY <1>5, <2>2 DEF SendStop, Inv, Underway, FailuresSurface
  <1>6. ASSUME NEW g \in Gens, Select(k, g) PROVE Inv'
    <2>1. on' \in [Kinds -> [Gens -> 0 .. MaxConnects]]
      BY <1>6 DEF Select, Inv, TypeOK
    <2>2. /\ loops' \in [Kinds -> [Gens -> {"none", "busy", "select", "ended"}]]
          /\ \A i \in Kinds, f \in Gens : loops'[i][f] # "none" <=> loops[i][f] # "none"
      BY <1>3, <1>6 DEF Select
    <2>3. TypeOK'
      BY <1>6, <2>1, <2>2 DEF Select, Inv, TypeOK
    <2>4. connects # 0 => connects \in Gens
      BY <1>1, <1>2 DEF Gens
    <2> QED
      BY <1>2, <1>6, <2>2, <2>3, <2>4 DEF Select, Inv, Underway, FailuresSurface
  <1>7. ASSUME NEW g \in Gens, Handle(k, g) PROVE Inv'
    <2>1. /\ loops' \in [Kinds -> [Gens -> {"none", "busy", "select", "ended"}]]
          /\ \A i \in Kinds, f \in Gens : loops'[i][f] # "none" <=> loops[i][f] # "none"
      BY <1>3, <1>7 DEF Handle
    <2>2. TypeOK'
      BY <1>7, <2>1 DEF Handle, Inv, TypeOK
    <2>3. connects # 0 => connects \in Gens
      BY <1>1, <1>2 DEF Gens
    <2> QED
      BY <1>2, <1>7, <2>1, <2>2, <2>3 DEF Handle, Inv, Underway, FailuresSurface
  <1>8. ASSUME NEW g \in Gens, Stop(k, g) PROVE Inv'
    <2>1. /\ loops' \in [Kinds -> [Gens -> {"none", "busy", "select", "ended"}]]
          /\ \A i \in Kinds, f \in Gens : loops'[i][f] # "none" <=> loops[i][f] # "none"
      BY <1>3, <1>8 DEF Stop
    <2>2. tokens' \in [Kinds -> [Gens -> {0, 1}]] /\ watchers' \subseteq Gens
      BY <1>8 DEF Stop, Closed, Inv, TypeOK
    <2>3. TypeOK'
      BY <1>8, <2>1, <2>2 DEF Stop, Inv, TypeOK
    <2>4. connects # 0 => connects \in Gens
      BY <1>1, <1>2 DEF Gens
    <2> QED
      BY <1>2, <1>8, <2>1, <2>3, <2>4 DEF Stop, Inv, Underway, FailuresSurface
  <1>9. ASSUME NEW g \in Gens, WatchFails(g) PROVE Inv'
    <2>1. /\ loops' \in [Kinds -> [Gens -> {"none", "busy", "select", "ended"}]]
          /\ \A i \in Kinds, f \in Gens : loops'[i][f] # "none" <=> loops[i][f] # "none"
      BY <1>2, <1>3, <1>9 DEF WatchFails
    <2>2. watchers' \subseteq Gens
      BY <1>9 DEF WatchFails, Closed, Inv, TypeOK
    <2>3. TypeOK'
      BY <1>9, <2>1, <2>2 DEF WatchFails, Inv, TypeOK
    <2> QED
      BY <1>9, <2>3 DEF WatchFails, Inv, Underway, FailuresSurface
  <1> QED
    BY <1>4, <1>5, <1>6, <1>7, <1>8, <1>9

\* Every step keeps the invariant.
LEMMA InvNext == Inv /\ [Next]_vars => Inv'
  <1> SUFFICES ASSUME Inv, [Next]_vars PROVE Inv'
    OBVIOUS
  <1>1. CASE UNCHANGED vars
    BY <1>1 DEF vars, connectVars, loopVars, discVars, Inv, TypeOK, Underway, FailuresSurface
  <1>2. "watch" \in Kinds
    BY DEF Kinds
  <1> QED
    BY <1>1, <1>2, InvConnect, InvLoops DEF Next

-----------------------------------------------------------------------------
(* Disconnect and the stop channels                                        *)

\* Disconnect follows Connect, once, and goes by the fields it finds.
Calls ==
    /\ connects - 1 <= disconnects
    /\ disc # "idle" => disconnects = connects
    /\ made => gen = connects
    /\ discOn <= gen

\* Tokens, selects and loops belong to connections that were made, and nothing
\* of the connection that is being made is in use.
Channels ==
    \A k \in Kinds, g \in Gens :
        /\ tokens[k][g] = 1 => g <= gen /\ (disconnects < connects => g < connects)
        /\ on[k][g] <= gen /\ (loops[k][g] = "select" => on[k][g] # 0)
        /\ (at # 0 /\ loops[k][g] # "none") => g < connects

\* The channels of the Connect that Disconnect undoes still have their room.
Room ==
    (fresh /\ disc # "idle") =>
        /\ discOn = gen /\ gen = connects /\ connects # 0
        /\ tokens[disc][gen] = 0 /\ (disc = "watch" => tokens["handle"][gen] = 0)

\* Has Disconnect told the loops of this kind to stop?
Told(k) == disconnects = connects /\ (disc = "idle" \/ (k = "watch" /\ disc = "handle"))

\* What the first Disconnect told a loop waits for it, or ended it.
Waits ==
    connects = 1 => \A k \in Kinds : Told(k) =>
        gen = 1 /\ (tokens[k][1] = 1 \/ loops[k][1] = "ended")

Stops == Calls /\ Channels /\ Room /\ Waits

\* The numbers of the life cycle are numbers.
LEMMA Numbers ==
    ASSUME Inv
    PROVE  /\ MaxConnects \in Nat /\ at \in 0 .. 9 /\ gen \in Nat /\ gen <= connects
           /\ connects \in 0 .. MaxConnects /\ disconnects \in 0 .. connects
           /\ discOn \in Nat /\ discOn <= MaxConnects /\ Gens \subseteq Nat \ {0}
           /\ at # 0 => connects # 0
  <1>1. MaxConnects \in Nat
    BY LifecycleAssumption
  <1> QED
    BY <1>1, LadderSteps DEF Inv, TypeOK, Underway, Gens

\* Nothing is sent at first.
LEMMA StopsInit == Init => Stops
  <1> SUFFICES ASSUME Init PROVE Stops
    OBVIOUS
  <1>1. Inv
    BY InvInit
  <1>2. /\ gen = 0 /\ connects = 0 /\ disconnects = 0 /\ discOn = 0 /\ at = 0
        /\ made = FALSE /\ fresh = FALSE /\ disc = "idle"
    BY DEF Init
  <1>3. \A k \in Kinds, g \in Gens : tokens[k][g] = 0 /\ on[k][g] = 0 /\ loops[k][g] = "none"
    BY DEF Init
  <1> QED
    BY <1>2, <1>3 DEF Stops, Calls, Channels, Room, Waits

\* The steps of Connect send nothing, and start loops that nothing was told to
\* unless the stop still waits.
LEMMA StopsConnect ==
    ASSUME Inv, Stops, CallConnect \/ Connecting
    PROVE  Stops'
  <1> USE DEF connectVars, loopVars, discVars
  <1>1. /\ MaxConnects \in Nat /\ at \in 0 .. 9 /\ gen \in Nat /\ gen <= connects
        /\ connects \in 0 .. MaxConnects /\ disconnects \in 0 .. connects
        /\ discOn \in Nat /\ Gens \subseteq Nat \ {0} /\ (at # 0 => connects # 0)
    BY Numbers
  <1>2. /\ \A k \in Kinds, g \in Gens : on[k][g] \in Nat
        /\ \A k \in Kinds, g \in Gens : loops[k][g] # "none" => g <= gen
    BY <1>1 DEF Inv, TypeOK
  <1>3. CASE CallConnect
    <2>1. /\ connects' = connects + 1 /\ disconnects = connects /\ disc = "idle" /\ made' = FALSE
          /\ UNCHANGED <<gen, watchers, loops, on, tokens, disc, discOn, fresh, disconnects>>
      BY <1>3 DEF CallConnect
    <2>2. Calls'
      BY <1>1, <2>1 DEF Stops, Calls
    <2>3. Channels'
      <3> SUFFICES ASSUME NEW k \in Kinds, NEW g \in Gens
                   PROVE  /\ tokens[k][g] = 1 => g <= gen /\ g < connects'
                          /\ on[k][g] <= gen /\ (loops[k][g] = "select" => on[k][g] # 0)
                          /\ loops[k][g] # "none" => g < connects'
        BY <2>1 DEF Channels
      <3>1. /\ tokens[k][g] = 1 => g <= gen
            /\ on[k][g] <= gen /\ (loops[k][g] = "select" => on[k][g] # 0)
        BY DEF Stops, Channels
      <3>2. g <= gen => g < connects'
        BY <1>1, <2>1
      <3> QED
        BY <1>2, <3>1, <3>2
    <2>4. Room' /\ Waits'
      <3>1. disconnects' # connects' /\ disc' = "idle"
        BY <1>1, <2>1
      <3> QED
        BY <3>1 DEF Room, Waits, Told
    <2> QED
      BY <2>2, <2>3, <2>4 DEF Stops
  <1>4. CASE Fail \/ Pass \/ OpenWatcher
    <2>1. /\ at # 0
          /\ UNCHANGED <<gen, connects, made, loops, on, tokens, disc, discOn, fresh, disconnects>>
      BY <1>4 DEF Fail, Pass, OpenWatcher
    <2>2. Calls' /\ Room' /\ Waits'
      BY <2>1 DEF Stops, Calls, Room, Waits, Told
    <2>3. Channels'
      BY <2>1 DEF Stops, Channels
    <2> QED
      BY <2>2, <2>3 DEF Stops
  <1>5. CASE MakeChannels
    <2>1. /\ at # 0 /\ gen' = connects /\ gen <= gen'
          /\ UNCHANGED <<connects, loops, on, tokens, disc, discOn, fresh, disconnects>>
      BY <1>1, <1>5 DEF MakeChannels
    <2>2. Calls'
      BY <1>1, <2>1 DEF Stops, Calls
    <2>3. Channels'
      <3> SUFFICES ASSUME NEW k \in Kinds, NEW g \in Gens
                   PROVE  /\ tokens[k][g] = 1 => g <= gen' /\ (disconnects < connects => g < connects)
                          /\ on[k][g] <= gen' /\ (loops[k][g] = "select" => on[k][g] # 0)
                          /\ loops[k][g] # "none" => g < connects
        BY <2>1 DEF Channels
      <3>1. /\ tokens[k][g] = 1 => g <= gen /\ (disconnects < connects => g < connects)
            /\ on[k][g] <= gen /\ (loops[k][g] = "select" => on[k][g] # 0)
            /\ loops[k][g] # "none" => g < connects
        BY <2>1 DEF Stops, Channels
      <3> QED
        BY <1>1, <1>2, <2>1, <3>1
    <2>4. Room'
      BY <2>1 DEF Stops, Room
    <2>5. Waits'
      BY <2>1 DEF Stops, Waits, Told
    <2> QED
      BY <2>2, <2>3, <2>4, <2>5 DEF Stops
  <1>6. CASE Spawn
    <2>1. /\ at = 9 /\ at' = 0 /\ gen = connects /\ gen \in Gens
          /\ loops' = [k \in Kinds |-> [loops[k] EXCEPT ![gen] = "busy"]]
          /\ UNCHANGED <<gen, connects, made, on, tokens, disc, discOn, fresh, disconnects>>
      BY <1>1, <1>6, LadderSteps DEF Spawn, Inv, Underway, Gens
    <2>2. \A k \in Kinds, g \in Gens : loops'[k][g] = IF g = gen THEN "busy" ELSE loops[k][g]
      BY <2>1 DEF Inv, TypeOK
    <2>3. Calls' /\ Room'
      BY <2>1 DEF Stops, Calls, Room
    <2>4. Channels'
      BY <2>1, <2>2 DEF Stops, Channels
    <2>5. Waits'
      <3> SUFFICES ASSUME connects = 1, NEW k \in Kinds, Told(k) PROVE gen = 1 /\ tokens[k][1] = 1
        BY <2>1 DEF Waits, Told
      <3>1. gen = 1 /\ (tokens[k][1] = 1 \/ loops[k][1] = "ended")
        BY DEF Stops, Waits
      <3>2. loops[k][1] # "none" => 1 < connects
        BY <2>1, <3>1 DEF Stops, Channels
      <3> QED
        BY <3>1, <3>2
    <2> QED
      BY <2>3, <2>4, <2>5 DEF Stops
  <1> QED
    BY <1>3, <1>4, <1>5, <1>6 DEF Connecting

\* A loop takes no token but the one it ends by, and selects on channels there are.
LEMMA StopsLoops ==
    ASSUME Inv, Stops, NEW k \in Kinds, NEW g \in Gens,
           Select(k, g) \/ Handle(k, g) \/ Stop(k, g) \/ WatchFails(g)
    PROVE  Stops'
  <1> USE DEF connectVars, loopVars, discVars
  <1>1. /\ MaxConnects \in Nat /\ gen \in Nat /\ gen <= connects
        /\ connects \in 0 .. MaxConnects /\ Gens \subseteq Nat \ {0} /\ "watch" \in Kinds
    BY Numbers DEF Kinds
  <1>2. /\ loops \in [Kinds -> [Gens -> {"none", "busy", "select", "ended"}]]
        /\ on \in [Kinds -> [Gens -> 0 .. MaxConnects]]
        /\ tokens \in [Kinds -> [Gens -> {0, 1}]]
    BY DEF Inv, TypeOK
  <1>3. /\ UNCHANGED <<at, gen, connects, made, disc, discOn, fresh, disconnects>>
    BY DEF Select, Handle, Stop, WatchFails
  <1>4. Calls'
    BY <1>3 DEF Stops, Calls
  \* Tokens only go, and go with the loop that takes them.
  <1>5. /\ \A i \in Kinds, f \in Gens : tokens'[i][f] \in {0, 1} /\ (tokens'[i][f] = 1 => tokens[i][f] = 1)
        /\ \A i \in Kinds, f \in Gens : tokens[i][f] = 0 => tokens'[i][f] = 0
    <2>1. CASE Stop(k, g)
      BY <1>2, <2>1 DEF Stop
    <2>2. CASE tokens' = tokens
      BY <1>2, <2>2
    <2> QED
      BY <2>1, <2>2 DEF Select, Handle, WatchFails
  <1>6. /\ \A i \in Kinds, f \in Gens : loops'[i][f] # "none" => loops[i][f] # "none"
        /\ \A i \in Kinds, f \in Gens : loops[i][f] = "ended" => loops'[i][f] = "ended"
    <2>1. ASSUME NEW i \in Kinds, NEW s \in {"busy", "select", "ended"},
                 loops[i][g] \in {"busy", "select"}, loops' = [loops EXCEPT ![i][g] = s]
          PROVE  /\ \A j \in Kinds, f \in Gens : loops'[j][f] # "none" => loops[j][f] # "none"
                 /\ \A j \in Kinds, f \in Gens : loops[j][f] = "ended" => loops'[j][f] = "ended"
      BY <1>2, <2>1
    <2> QED
      BY <1>1, <2>1 DEF Select, Handle, Stop, WatchFails
  <1>7. \A i \in Kinds, f \in Gens :
           /\ on'[i][f] = on[i][f] \/ on'[i][f] = gen
           /\ loops'[i][f] = "select" => on'[i][f] # 0
    <2>1. CASE Select(k, g)
      <3>1. PICK c \in {gen, on[k][g]} \ {0} : on' = [on EXCEPT ![k][g] = c]
        BY <2>1 DEF Select
      <3>2. loops' = [loops EXCEPT ![k][g] = "select"]
        BY <2>1 DEF Select
      <3>3. \A i \in Kinds, f \in Gens : on'[i][f] = IF i = k /\ f = g THEN c ELSE on[i][f]
        BY <1>2, <3>1
      <3>4. \A i \in Kinds, f \in Gens : loops'[i][f] = IF i = k /\ f = g THEN "select" ELSE loops[i][f]
        BY <1>2, <3>2
      <3> QED
        BY <3>3, <3>4 DEF Stops, Channels
    <2>2. CASE Handle(k, g) \/ Stop(k, g) \/ WatchFails(g)
      <3>1. on' = on
        BY <2>2 DEF Handle, Stop, WatchFails
      <3>2. \A i \in Kinds, f \in Gens : loops'[i][f] = "select" => loops[i][f] = "select"
        <4>1. ASSUME NEW i \in Kinds, NEW s \in {"busy", "ended"}, loops' = [loops EXCEPT ![i][g] = s]
              PROVE  \A j \in Kinds, f \in Gens : loops'[j][f] = "select" => loops[j][f] = "select"
          BY <1>2, <4>1
        <4> QED
          BY <1>1, <2>2, <4>1 DEF Handle, Stop, WatchFails
      <3> QED
        BY <3>1, <3>2 DEF Stops, Channels
    <2> QED
      BY <2>1, <2>2
  <1>8. Channels'
    <2> SUFFICES ASSUME NEW i \in Kinds, NEW f \in Gens
                 PROVE  /\ tokens'[i][f] = 1 => f <= gen /\ (disconnects < connects => f < connects)
                        /\ on'[i][f] <= gen /\ (loops'[i][f] = "select" => on'[i][f] # 0)
                        /\ (at # 0 /\ loops'[i][f] # "none") => f < connects
      BY <1>3 DEF Channels
    <2>1. /\ tokens[i][f] = 1 => f <= gen /\ (disconnects < connects => f < connects)
          /\ on[i][f] <= gen
          /\ (at # 0 /\ loops[i][f] # "none") => f < connects
      BY DEF Stops, Channels
    <2>2. tokens'[i][f] = 1 => f <= gen /\ (disconnects < connects => f < connects)
      BY <1>5, <2>1
    <2>3. on'[i][f] <= gen /\ (loops'[i][f] = "select" => on'[i][f] # 0)
      BY <1>1, <1>7, <2>1
    <2>4. (at # 0 /\ loops'[i][f] # "none") => f < connects
      BY <1>6, <2>1
    <2> QED
      BY <2>2, <2>3, <2>4
  <1>9. Room'
    <2> SUFFICES ASSUME fresh, disc # "idle"
                 PROVE  /\ discOn = gen /\ gen = connects /\ connects # 0
                        /\ tokens'[disc][gen] = 0 /\ (disc = "watch" => tokens'["handle"][gen] = 0)
      BY <1>3 DEF Room
    <2>1. /\ discOn = gen /\ gen = connects /\ connects # 0
          /\ tokens[disc][gen] = 0 /\ (disc = "watch" => tokens["handle"][gen] = 0)
      BY DEF Stops, Room
    <2>2. disc \in Kinds /\ "handle" \in Kinds /\ disconnects = connects
      BY DEF Inv, TypeOK, Kinds, Stops, Calls
    <2>3. gen \in Gens
      BY <1>1, <2>1 DEF Gens
    <2> QED
      BY <1>5, <2>1, <2>2, <2>3
  <1>10. Waits'
    <2> SUFFICES ASSUME connects = 1, NEW i \in Kinds, Told(i)
                 PROVE  gen = 1 /\ (tokens'[i][1] = 1 \/ loops'[i][1] = "ended")
      BY <1>3 DEF Waits, Told
    <2>1. gen = 1 /\ (tokens[i][1] = 1 \/ loops[i][1] = "ended") /\ 1 \in Gens
      BY <1>1 DEF Stops, Waits, Gens
    <2>2. CASE Stop(k, g)
      <3>1. on[k][g] = 1 /\ g = 1
        <4>1. on[k][g] # 0 /\ on[k][g] <= gen /\ g <= gen /\ on[k][g] \in Nat /\ g \in Nat \ {0}
          BY <1>1, <1>2, <2>2 DEF Stop, Stops, Channels, Inv, TypeOK
        <4> QED
          BY <2>1, <4>1
      <3>2. tokens' = [tokens EXCEPT ![k][1] = 0] /\ loops' = [loops EXCEPT ![k][1] = "ended"]
        BY <2>2, <3>1 DEF Stop
      <3> QED
        BY <1>2, <2>1, <3>2
    <2>3. CASE tokens' = tokens
      BY <1>6, <2>1, <2>3
    <2> QED
      BY <2>2, <2>3 DEF Select, Handle, WatchFails
  <1> QED
    BY <1>4, <1>8, <1>9, <1>10 DEF Stops

\* Disconnect takes the fields as they are.
LEMMA StopsCall == ASSUME Inv, Stops, CallDisconnect PROVE Stops'
  <1> USE DEF connectVars, loopVars, discVars
  <1>1. /\ MaxConnects \in Nat /\ gen \in Nat /\ gen <= connects
        /\ connects \in 0 .. MaxConnects /\ disconnects \in 0 .. connects /\ Gens \subseteq Nat \ {0}
    BY Numbers
  <1>2. /\ disconnects < connects /\ disc' = "watch" /\ discOn' = gen /\ fresh' = made
        /\ disconnects' = disconnects + 1
        /\ UNCHANGED <<at, gen, connects, made, loops, on, tokens>>
    BY <1>1 DEF CallDisconnect
  <1>3. disconnects' = connects
    BY <1>1, <1>2 DEF Stops, Calls
  <1>4. Calls'
    BY <1>1, <1>2, <1>3 DEF Stops, Calls
  <1>5. Channels'
    BY <1>1, <1>2, <1>3 DEF Stops, Channels
  <1>6. Room'
    <2> SUFFICES ASSUME made
                 PROVE  gen = connects /\ connects # 0 /\ tokens["watch"][gen] = 0 /\ tokens["handle"][gen] = 0
      BY <1>2 DEF Room
    <2>1. gen = connects /\ connects # 0 /\ gen \in Gens
      BY <1>1, <1>2 DEF Stops, Calls, Gens
    <2>2. \A k \in Kinds : tokens[k][gen] \in {0, 1} /\ tokens[k][gen] # 1
      BY <1>1, <1>2, <2>1 DEF Stops, Channels, Inv, TypeOK
    <2> QED
      BY <2>1, <2>2 DEF Kinds
  <1>7. Waits'
    BY <1>2 DEF Waits, Told
  <1> QED
    BY <1>4, <1>5, <1>6, <1>7 DEF Stops

\* A stop goes into a channel there is, and the next one goes by the fields again.
LEMMA StopsSend == ASSUME Inv, Stops, NEW k \in Kinds, SendStop(k) PROVE Stops'
  <1> USE DEF connectVars, loopVars, discVars
  <1>1. /\ MaxConnects \in Nat /\ gen \in Nat /\ gen <= connects
        /\ connects \in 0 .. MaxConnects /\ disconnects \in 0 .. connects
        /\ discOn \in Nat /\ discOn <= MaxConnects /\ Gens \subseteq Nat \ {0}
    BY Numbers
  <1>2. /\ disc = k /\ discOn # 0 /\ tokens' = [tokens EXCEPT ![k][discOn] = 1]
        /\ disc' = (IF k = "watch" THEN "handle" ELSE "idle") /\ discOn' = gen
        /\ UNCHANGED <<at, gen, connects, made, loops, on, fresh, disconnects>>
    BY DEF SendStop
  <1>3. disc # "idle" /\ disconnects = connects /\ discOn <= gen /\ discOn \in Gens
    BY <1>1, <1>2 DEF Kinds, Stops, Calls, Gens
  <1>4. \A i \in Kinds, f \in Gens : tokens'[i][f] = IF i = k /\ f = discOn THEN 1 ELSE tokens[i][f]
    BY <1>2 DEF Inv, TypeOK
  <1>5. Calls'
    BY <1>1, <1>2, <1>3 DEF Stops, Calls
  <1>6. Channels'
    <2> SUFFICES ASSUME NEW i \in Kinds, NEW f \in Gens
                 PROVE  /\ tokens'[i][f] = 1 => f <= gen
                        /\ on[i][f] <= gen /\ (loops[i][f] = "select" => on[i][f] # 0)
                        /\ (at # 0 /\ loops[i][f] # "none") => f < connects
      BY <1>1, <1>2, <1>3 DEF Channels
    <2> QED
      BY <1>3, <1>4 DEF Stops, Channels
  <1>7. Room'
    <2> SUFFICES ASSUME fresh, disc' # "idle"
                 PROVE  gen = connects /\ connects # 0 /\ tokens'["handle"][gen] = 0 /\ disc' = "handle"
      BY <1>2 DEF Room
    <2>1. k = "watch" /\ gen = connects /\ connects # 0 /\ gen = discOn /\ tokens["handle"][gen] = 0
      BY <1>2, <1>3 DEF Stops, Room
    <2> QED
      BY <1>2, <1>3, <1>4, <2>1 DEF Kinds
  <1>8. Waits'
    <2> SUFFICES ASSUME connects = 1, NEW i \in Kinds, Told(i)'
                 PROVE  gen = 1 /\ (tokens'[i][1] = 1 \/ loops[i][1] = "ended")
      BY <1>2 DEF Waits, Told
    <2>1. discOn = 1 /\ gen = 1
      BY <1>1, <1>2, <1>3
    <2>2. i = k \/ Told(i)
      BY <1>2 DEF Told, Kinds
    <2>3. 1 \in Gens
      BY <1>3, <2>1
    <2>4. CASE i = k
      BY <1>4, <2>1, <2>3, <2>4
    <2>5. CASE Told(i)
      BY <1>4, <2>1, <2>3, <2>5 DEF Stops, Waits
    <2> QED
      BY <2>2, <2>4, <2>5
  <1> QED
    BY <1>5, <1>6, <1>7, <1>8 DEF Stops

\* Every step keeps the stops.
LEMMA StopsNext == Inv /\ Stops /\ [Next]_vars => Stops'
  <1> SUFFICES ASSUME Inv, Stops, [Next]_vars PROVE Stops'
    OBVIOUS
  <1>1. CASE UNCHANGED vars
    BY <1>1 DEF vars, connectVars, loopVars, discVars, Stops, Calls, Channels, Room, Waits, Told
  <1>2. "watch" \in Kinds
    BY DEF Kinds
  <1> QED
    BY <1>1, <1>2, StopsConnect, StopsLoops, StopsCall, StopsSend DEF Next

-----------------------------------------------------------------------------
(* Theorems                                                                *)

\* The invariant of the life cycle.
THEOREM LifecycleInvariant == Spec => []Inv
  BY InvInit, InvNext, PTL DEF Spec

\* Every variable keeps its type, and no goroutine exists without channels.
THEOREM LifecycleTypes == Spec => []TypeOK
  <1>1. Inv => TypeOK
    BY DEF Inv
  <1> QED
    BY <1>1, LifecycleInvariant, PTL

\* A Connect that came to nothing was reported (client.go:41-119).
THEOREM NoSilentFailure == Spec => []FailuresSurface
  <1>1. Inv => FailuresSurface
    BY DEF Inv
  <1> QED
    BY <1>1, LifecycleInvariant, PTL

\* The invariant of the stop channels (client.go:76-77, 129-132, 200, 257).
THEOREM StopsInvariant == Spec => []Stops
  BY StopsInit, StopsNext, LifecycleInvariant, PTL DEF Spec

\* The sends of a Disconnect that follows the making of the channels have room,
\* after any number of connections (client.go:76-77, 129-132).
THEOREM SendsHaveRoom == Spec => []StopHasRoom
  <1>1. Inv /\ Stops => StopHasRoom
    <2> SUFFICES ASSUME Inv, Stops, fresh, disc # "idle" PROVE discOn # 0 /\ tokens[disc][discOn] = 0
      BY DEF StopHasRoom
    <2>1. discOn = gen /\ gen = connects /\ connects # 0 /\ tokens[disc][gen] = 0
      BY DEF Stops, Room
    <2> QED
      BY <2>1
  <1> QED
    BY LifecycleInvariant, StopsInvariant, <1>1, PTL

\* What the first Disconnect sent waits where the loops look for it
\* (client.go:129-132, 200, 257).
THEOREM StopsAreHeard == Spec => []StopWaits
  <1>1. Inv /\ Stops => StopWaits
    <2> SUFFICES ASSUME Inv, Stops, disc = "idle", connects = 1, disconnects = 1,
                        NEW k \in Kinds, NEW g \in Gens
                 PROVE  /\ loops[k][g] \in {"busy", "select"} => tokens[k][gen] = 1
                        /\ loops[k][g] = "select" => on[k][g] = gen
      BY DEF StopWaits
    <2>1. gen = 1 /\ (tokens[k][1] = 1 \/ loops[k][1] = "ended")
      BY DEF Stops, Waits, Told
    <2>2. g \in Nat \ {0} /\ on[k][g] \in Nat /\ (loops[k][g] # "none" => g <= gen)
      BY Numbers DEF Inv, TypeOK
    <2>3. on[k][g] <= gen /\ (loops[k][g] = "select" => on[k][g] # 0)
      BY DEF Stops, Channels
    <2>4. loops[k][g] # "none" => g = 1
      BY <2>1, <2>2
    <2> QED
      BY <2>1, <2>2, <2>3, <2>4
  <1> QED
    BY LifecycleInvariant, StopsInvariant, <1>1, PTL

\* As GetMaxMessagesTime is written (messages.go:185-193), no Connect ever gets
\* to its loops (client.go:102-127), and every one that ends is reported.
THEOREM NoLoopIsStarted ==
    ASSUME ScanNeedsNext
    PROVE  Spec => [](/\ \A k \in Kinds, g \in Gens : loops[k][g] = "none"
                      /\ (connects > 0 /\ at = 0) => report # "none")
  <1> DEFINE Still == at <= 8 /\ \A k \in Kinds, g \in Gens : loops[k][g] = "none"
  <1> USE DEF connectVars, loopVars, discVars
  <1>1. Init => Still
    BY DEF Init
  <1>2. ASSUME Inv, Still, [Next]_vars PROVE Still'
    <2>1. at \in 0 .. 9 /\ connects \in 0 .. MaxConnects
      BY <1>2, Numbers
    <2>2. \A i \in 1 .. 9 : Ladder[i] = "maxTime" <=> i = 8
      <3>1. \A i \in 1 .. 9 : i = 1 \/ i = 2 \/ i = 3 \/ i = 4 \/ i = 5 \/ i = 6 \/ i = 7 \/ i = 8 \/ i = 9
        OBVIOUS
      <3> QED
        BY <3>1 DEF Ladder
    <2>3. ~Spawn
      BY <1>2, <2>1, LadderSteps DEF Spawn
    <2>4. CASE Pass
      <3>1. at # 8 /\ at' = at + 1 /\ loops' = loops
        BY <2>1, <2>2, <2>4 DEF Pass
      <3> QED
        BY <1>2, <2>1, <3>1
    <2>5. CASE CallConnect \/ Fail
      BY <1>2, <2>5 DEF CallConnect, Fail
    <2>6. CASE MakeChannels \/ OpenWatcher
      <3>1. at \in {5, 6} /\ at' = at + 1 /\ loops' = loops
        BY <2>1, <2>6, LadderSteps DEF MakeChannels, OpenWatcher
      <3> QED
        BY <1>2, <3>1
    <2>7. \A k \in Kinds, g \in Gens : ~Select(k, g) /\ ~Handle(k, g) /\ ~Stop(k, g) /\ ~WatchFails(g)
      BY <1>2 DEF Select, Handle, Stop, WatchFails, Kinds
    <2>8. ASSUME CallDisconnect \/ (\E k \in Kinds : SendStop(k)) \/ UNCHANGED vars PROVE Still'
      BY <1>2, <2>8 DEF CallDisconnect, SendStop, vars
    <2>9. \E k \in Kinds : TRUE
      BY DEF Kinds
    <2> QED
      BY <1>2, <2>3, <2>4, <2>5, <2>6, <2>7, <2>8, <2>9 DEF Next, Connecting
  <1>3. ASSUME Inv, Still
        PROVE  /\ \A k \in Kinds, g \in Gens : loops[k][g] = "none"
               /\ (connects > 0 /\ at = 0) => report # "none"
    <2>1. connects > 0 => connects \in Gens
      BY <1>3, Numbers DEF Gens
    <2> QED
      BY <1>3, <2>1 DEF Inv, FailuresSurface, Kinds
  <1> HIDE DEF Still
  <1>4. Inv /\ Still /\ [Next]_vars => Still'
    BY <1>2
  <1>5. Inv /\ Still => /\ \A k \in Kinds, g \in Gens : loops[k][g] = "none"
                        /\ (connects > 0 /\ at = 0) => report # "none"
    BY <1>3
  <1> QED
    BY <1>1, <1>4, <1>5, LifecycleInvariant, PTL DEF Spec

=============================================================================
