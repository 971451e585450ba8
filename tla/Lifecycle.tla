----------------------------- MODULE Lifecycle -----------------------------
(***************************************************************************)
(* Connect and Disconnect of pkg/connector/client.go:35-132 against the    *)
(* two goroutines they start and stop, across reconnections.  What a loop  *)
(* does between two selects is one busy step here; Watcher has the detail. *)
(*                                                                         *)
(* The four channel fields of MessagesClient are made together, so one     *)
(* number stands for them: the generation, 0 while they are nil.  A send   *)
(* on a nil channel blocks for ever.                                       *)
(***************************************************************************)
EXTENDS Integers, Sequences

CONSTANTS
    MaxConnects,    \* bound on the calls of Connect
    Faults,         \* steps of Connect whose dependency may fail
    ScanNeedsNext   \* does Rows.Scan fail unless Rows.Next was called?

\* What Connect does, in order.
Ladder == <<"messagesClient", "contactsClient", "contactsValid", "messagesValid",
            "channels", "newWatcher", "addWatch", "maxTime", "spawn">>
Steps == {Ladder[i] : i \in 1 .. Len(Ladder)}

ASSUME LifecycleAssumption ==
    /\ MaxConnects \in Nat
    /\ Faults \subseteq Steps \ {"channels", "spawn"}
    /\ ScanNeedsNext \in BOOLEAN

Gens == 1 .. MaxConnects
Kinds == {"watch", "handle"}

VARIABLES
    at,          \* step Connect is at; 0 when it is not running
    gen,         \* generation of the channels in the fields
    connects,    \* calls of Connect so far
    disconnects, \* calls of Disconnect so far
    made,        \* has the last Connect made its channels?
    report,      \* the bridge state last sent
    fault,       \* has a dependency failed in the last Connect?
    watchers,    \* generations whose fsnotify watcher is open
    loops,       \* the two goroutines of each generation: where they are
    on,          \* and the generation of the channels they select on
    tokens,      \* tokens in the stop channels of each generation
    disc,        \* the send Disconnect is at
    discOn,      \* the generation of the channel it sends on
    fresh        \* was that channel made by the Connect it undoes?

connectVars == <<at, gen, connects, made, report, fault>>
loopVars == <<watchers, loops, on>>
discVars == <<disc, discOn, fresh, disconnects>>
vars == <<connectVars, loopVars, tokens, discVars>>

Init ==
    /\ at = 0 /\ gen = 0 /\ connects = 0 /\ made = FALSE
    /\ report = "none" /\ fault = FALSE
    /\ watchers = {}
    /\ loops = [k \in Kinds |-> [g \in Gens |-> "none"]]
    /\ on = [k \in Kinds |-> [g \in Gens |-> 0]]
    /\ tokens = [k \in Kinds |-> [g \in Gens |-> 0]]
    /\ disc = "idle" /\ discOn = 0 /\ fresh = FALSE /\ disconnects = 0

-----------------------------------------------------------------------------
(* Connect                                                                 *)

\* The framework (external) connects again only after it disconnected.
CallConnect ==
    /\ at = 0 /\ connects < MaxConnects
    /\ disconnects = connects /\ disc = "idle"
    /\ at' = 1 /\ connects' = connects + 1
    /\ made' = FALSE /\ fault' = FALSE /\ report' = "none"
    /\ UNCHANGED <<gen, loopVars, tokens, discVars>>

\* The state an error at a step is reported with.
StateOf(s) == IF s \in {"messagesClient", "contactsClient", "contactsValid", "messagesValid"}
              THEN "bad-credentials" ELSE "unknown-error"

\* Mutant: a failing step returns without sending a bridge state.
Fail_Silent ==
    /\ at # 0
    /\ \/ Ladder[at] \in Faults /\ fault' = TRUE
       \/ Ladder[at] = "maxTime" /\ ScanNeedsNext /\ UNCHANGED fault
    /\ report' = IF Ladder[at] = "addWatch" THEN report ELSE StateOf(Ladder[at])
    /\ at' = 0
    /\ UNCHANGED <<gen, connects, made, loopVars, tokens, discVars>>

\* A failing step is reported and ends Connect.  Nothing it opened is closed.
\* GetMaxMessagesTime calls Scan without Next.
Fail ==
    /\ at # 0
    /\ \/ Ladder[at] \in Faults /\ fault' = TRUE
       \/ Ladder[at] = "maxTime" /\ ScanNeedsNext /\ UNCHANGED fault
    /\ report' = StateOf(Ladder[at])
    /\ at' = 0
    /\ UNCHANGED <<gen, connects, made, loopVars, tokens, discVars>>

Pass ==
    /\ at # 0 /\ Ladder[at] \notin {"channels", "newWatcher", "spawn"}
    /\ ~(Ladder[at] = "maxTime" /\ ScanNeedsNext)
    /\ at' = at + 1
    /\ UNCHANGED <<gen, connects, made, report, fault, loopVars, tokens, discVars>>

\* Mutant: channels are made only where there are none.
MakeChannels_Keep ==
    /\ at # 0 /\ Ladder[at] = "channels"
    /\ gen' = IF gen = 0 THEN connects ELSE gen
    /\ made' = TRUE
    /\ at' = at + 1
    /\ UNCHANGED <<connects, report, fault, loopVars, tokens, discVars>>

\* The fields get new channels, whoever still uses the old ones.
MakeChannels ==
    /\ at # 0 /\ Ladder[at] = "channels"
    /\ gen' = connects /\ made' = TRUE
    /\ at' = at + 1
    /\ UNCHANGED <<connects, report, fault, loopVars, tokens, discVars>>

OpenWatcher ==
    /\ at # 0 /\ Ladder[at] = "newWatcher"
    /\ watchers' = watchers \cup {gen}
    /\ at' = at + 1
    /\ UNCHANGED <<gen, connects, made, report, fault, loops, on, tokens, discVars>>

Spawn ==
    /\ at # 0 /\ Ladder[at] = "spawn"
    /\ loops' = [k \in Kinds |-> [loops[k] EXCEPT ![gen] = "busy"]]
    /\ at' = 0
    /\ UNCHANGED <<gen, connects, made, report, fault, watchers, on, tokens, discVars>>

-----------------------------------------------------------------------------
(* The two loops                                                           *)

\* Entering a select evaluates the channel fields.  They are not synchronised
\* with Connect: the loop may still see the ones it used before.
Select(k, g) ==
    /\ loops[k][g] = "busy"
    /\ loops' = [loops EXCEPT ![k][g] = "select"]
    /\ \E c \in {gen, on[k][g]} \ {0} : on' = [on EXCEPT ![k][g] = c]
    /\ UNCHANGED <<connectVars, watchers, tokens, discVars>>

\* An event, a message or a receipt is there to be handled.
Handle(k, g) ==
    /\ loops[k][g] = "select"
    /\ loops' = [loops EXCEPT ![k][g] = "busy"]
    /\ UNCHANGED <<connectVars, watchers, on, tokens, discVars>>

Closed(k, g) == IF k = "watch" THEN watchers \ {g} ELSE watchers

Stop(k, g) ==
    /\ loops[k][g] = "select" /\ tokens[k][on[k][g]] = 1
    /\ tokens' = [tokens EXCEPT ![k][on[k][g]] = 0]
    /\ loops' = [loops EXCEPT ![k][g] = "ended"]
    /\ watchers' = Closed(k, g)
    /\ UNCHANGED <<connectVars, on, discVars>>

\* An error of fsnotify.
WatchFails(g) ==
    /\ loops["watch"][g] = "select"
    /\ loops' = [loops EXCEPT !["watch"][g] = "ended"]
    /\ watchers' = Closed("watch", g)
    /\ report' = "unknown-error" /\ fault' = TRUE
    /\ UNCHANGED <<at, gen, connects, made, on, tokens, discVars>>

-----------------------------------------------------------------------------
(* Disconnect                                                              *)

\* Called once per Connect, perhaps before that has returned.
CallDisconnect ==
    /\ disconnects < connects
    /\ disc' = "watch" /\ discOn' = gen /\ fresh' = made
    /\ disconnects' = disconnects + 1
    /\ UNCHANGED <<connectVars, loopVars, tokens>>

\* Mutant: an unbuffered stop channel takes a token only from a waiting loop.
SendStop_Unbuffered(k) ==
    /\ disc = k /\ discOn # 0 /\ tokens[k][discOn] = 0
    /\ \E g \in Gens : loops[k][g] = "select" /\ on[k][g] = discOn
    /\ tokens' = [tokens EXCEPT ![k][discOn] = 1]
    /\ disc' = IF k = "watch" THEN "handle" ELSE "idle"
    /\ discOn' = gen
    /\ UNCHANGED <<connectVars, loopVars, fresh, disconnects>>

\* Mutant: a stop channel has no room, and no loop that waits is no obstacle.
SendStop_Dropped(k) ==
    /\ disc = k /\ discOn # 0 /\ tokens[k][discOn] = 0
    /\ tokens' = IF \E g \in Gens : loops[k][g] = "select" /\ on[k][g] = discOn
                 THEN [tokens EXCEPT ![k][discOn] = 1]
                 ELSE tokens
    /\ disc' = IF k = "watch" THEN "handle" ELSE "idle"
    /\ discOn' = gen
    /\ UNCHANGED <<connectVars, loopVars, fresh, disconnects>>

\* Mutant: the send does not wait for room.
SendStop_Unbounded(k) ==
    /\ disc = k /\ discOn # 0
    /\ tokens' = [tokens EXCEPT ![k][discOn] = @ + 1]
    /\ disc' = IF k = "watch" THEN "handle" ELSE "idle"
    /\ discOn' = gen
    /\ UNCHANGED <<connectVars, loopVars, fresh, disconnects>>

\* Mutant: handleMessagesLoop is not told to stop.
SendStop_WatchOnly(k) ==
    /\ disc = k /\ discOn # 0 /\ tokens[k][discOn] = 0
    /\ tokens' = [tokens EXCEPT ![k][discOn] = 1]
    /\ disc' = "idle"
    /\ discOn' = gen
    /\ UNCHANGED <<connectVars, loopVars, fresh, disconnects>>

\* Each stop channel has room for one token.
SendStop(k) ==
    /\ disc = k /\ discOn # 0 /\ tokens[k][discOn] = 0
    /\ tokens' = [tokens EXCEPT ![k][discOn] = 1]
    /\ disc' = IF k = "watch" THEN "handle" ELSE "idle"
    /\ discOn' = gen
    /\ UNCHANGED <<connectVars, loopVars, fresh, disconnects>>

-----------------------------------------------------------------------------

Connecting == Fail \/ Pass \/ MakeChannels \/ OpenWatcher \/ Spawn

Next ==
    \/ CallConnect \/ Connecting \/ CallDisconnect
    \/ \E k \in Kinds : SendStop(k) \/ \E g \in Gens : Select(k, g) \/ Handle(k, g) \/ Stop(k, g)
    \/ \E g \in Gens : WatchFails(g)

Spec == Init /\ [][Next]_vars

\* Goroutines run.  A select whose stop channel is ready again and again takes
\* it at last, as it chooses among ready cases at random: hence SF.
Fairness ==
    /\ WF_vars(Connecting)
    /\ \A k \in Kinds : WF_vars(SendStop(k))
    /\ \A k \in Kinds, g \in Gens : WF_vars(Select(k, g)) /\ SF_vars(Stop(k, g))

FairSpec == Spec /\ Fairness

-----------------------------------------------------------------------------
(* Properties                                                              *)

\* What the variables of the life cycle range over, and that the fields hold
\* channels whenever a goroutine exists.
TypeOK ==
    /\ at \in 0 .. Len(Ladder) /\ gen \in 0 .. MaxConnects
    /\ connects \in 0 .. MaxConnects /\ disconnects \in 0 .. connects
    /\ made \in BOOLEAN /\ fault \in BOOLEAN /\ fresh \in BOOLEAN
    /\ report \in {"none", "bad-credentials", "unknown-error"}
    /\ watchers \subseteq Gens
    /\ loops \in [Kinds -> [Gens -> {"none", "busy", "select", "ended"}]]
    /\ on \in [Kinds -> [Gens -> 0 .. MaxConnects]]
    /\ tokens \in [Kinds -> [Gens -> {0, 1}]]
    /\ disc \in Kinds \cup {"idle"} /\ discOn \in 0 .. MaxConnects
    /\ \A k \in Kinds, g \in Gens : loops[k][g] # "none" => g <= gen

\* A Connect that came to nothing was reported: no step fails in silence, and
\* no Disconnect or loop of an earlier Connect hides it.
FailuresSurface ==
    (connects > 0 /\ at = 0 /\ report = "none") => loops["watch"][connects] # "none"

\* A Disconnect whose Connect made its channels finds room in both of them,
\* whatever earlier connections and their loops left behind: that it returns
\* asks no more than that it runs (client.go:76-77, 129-132).
StopHasRoom == (fresh /\ disc # "idle") => discOn # 0 /\ tokens[disc][discOn] = 0

\* When the first Disconnect has returned and nothing connects again, each loop
\* that runs, or waits in a select, has its stop in the very channel it selects
\* on, and Disconnect left none of the two out (client.go:129-132, 200, 257).
StopWaits ==
    (disc = "idle" /\ connects = 1 /\ disconnects = 1) =>
        \A k \in Kinds, g \in Gens :
            /\ loops[k][g] \in {"busy", "select"} => tokens[k][gen] = 1
            /\ loops[k][g] = "select" => on[k][g] = gen

\* A Disconnect whose Connect made its channels returns, whether or not that
\* Connect went on to start the loops: the stop channels have room
\* (client.go:76-77, 129-132).
DisconnectReturns == (disc = "watch" /\ fresh) ~> disc = "idle"

\* When the first Disconnect has returned, and as long as nothing connects again,
\* both loops end, however busy they are, even if Disconnect overtook the end of
\* Connect and the tokens wait for loops that do not exist yet.  (After a second
\* Connect an old loop may take the token meant for its successor.)
LoopsStop ==
    \A k \in Kinds, g \in Gens :
        (disc = "idle" /\ connects = 1 /\ disconnects = 1 /\ loops[k][g] \in {"busy", "select"})
            ~> (loops[k][g] = "ended" \/ connects > 1)

\* The error Connect reports is one of a dependency that does not work.
ErrorMeansFault == report # "none" => fault
=============================================================================
