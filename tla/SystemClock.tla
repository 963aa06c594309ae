---------------------------- MODULE SystemClock ----------------------------
(***************************************************************************)
(* SystemClock (systemclock.h, systemclock.cpp): the central scheduler of  *)
(* the simulation.  It keeps the simulation members in a MinHeap ordered   *)
(* by the time of their next step; Step runs the earliest one and puts it  *)
(* back where its own answer (nextStepIn_ns) says.  Endless, Run and       *)
(* RunTimeRange call Step in a loop until a signal, Stop or the time limit *)
(* ends it.                                                                *)
(***************************************************************************)
EXTENDS Integers, MinHeap

CONSTANTS Members,   \* the SimulationMember objects of the program
          Delays,    \* what a member's Step may store in *nextStepIn_ns
          MaxTime    \* bound: no step is taken once this time is passed

ASSUME DelaysAssumption == Delays \subseteq Int /\ MaxTime \in Nat

VARIABLES currentTime,   \* SystemClock::currentTime, in ns
          syncMembers,   \* SystemClock::syncMembers, the time table
          breakMessage,  \* the global flag set by Stop and by signals
          loop,          \* the loop being executed, "none" outside of one
          limit,         \* end time of Run or RunTimeRange
          onSignal       \* disposition of SIGINT and SIGTERM

vars == <<currentTime, syncMembers, breakMessage, loop, limit, onSignal>>

TypeOK ==
  /\ currentTime \in Nat
  /\ syncMembers \in Seq([key : Nat, val : Members])
  /\ breakMessage \in BOOLEAN
  /\ loop \in {"none", "Endless", "Run", "RunTimeRange", "killed"}
  /\ limit \in Nat
  /\ onSignal \in {"SIG_DFL", "OnBreak"}

Init ==
  /\ currentTime = 0
  /\ syncMembers = <<>>
  /\ breakMessage = FALSE
  /\ loop = "none"
  /\ limit = 0
  /\ onSignal = "SIG_DFL"

(* Mutant of NextPlace: a zero answer is placed with the following, not     *)
(* behind it.                                                              *)
NextPlaceWithFollowing(d, t, rest) ==
  CASE d = 0 -> (IF rest = <<>> THEN t ELSE rest[1].key)
    [] d > 0 -> t + d
    [] OTHER -> d

(* Where a member that answered d after running at time t goes next: 0 is  *)
(* "behind the following", positive is relative to now.                    *)
NextPlace(d, t, rest) ==
  CASE d = 0 -> 1 + (IF rest = <<>> THEN t ELSE rest[1].key)
    [] d > 0 -> t + d
    [] OTHER -> d

(* Step: run the earliest member, which answers d and may have called      *)
(* Stop(); a place that is not positive drops it from the table.           *)
StepMember(d, stop) ==
  /\ syncMembers # <<>>
  /\ currentTime <= MaxTime
  /\ LET first == syncMembers[1]
         rest  == RemoveMinimum(syncMembers)
         place == NextPlace(d, first.key, rest)
     IN  /\ currentTime' = first.key
         /\ syncMembers' = IF place > 0 THEN Insert(rest, place, first.val)
                                        ELSE rest
  /\ breakMessage' = (breakMessage \/ stop)

(* The embedding program calls Step directly, outside of any loop. *)
Step(d, stop) ==
  /\ loop = "none"
  /\ StepMember(d, stop)
  /\ UNCHANGED <<loop, limit, onSignal>>

(* Add itself does not look for m in the table: that a member is added     *)
(* only when it has no place is left to the callers, which add each device *)
(* once.                                                                   *)
Add(m) ==
  /\ loop = "none"
  /\ ~Holds(syncMembers, m)
  /\ syncMembers' = Insert(syncMembers, currentTime, m)
  /\ UNCHANGED <<currentTime, breakMessage, loop, limit, onSignal>>

ResetClock ==
  /\ loop = "none"
  /\ breakMessage' = FALSE
  /\ syncMembers' = <<>>
  /\ currentTime' = 0
  /\ UNCHANGED <<loop, limit, onSignal>>

Stop ==
  /\ loop # "killed"
  /\ breakMessage' = TRUE
  /\ UNCHANGED <<currentTime, syncMembers, loop, limit, onSignal>>

(* SIGINT or SIGTERM: OnBreak restores the default disposition, under      *)
(* which the next signal ends the process.                                 *)
Signal ==
  /\ loop # "killed"
  /\ onSignal' = "SIG_DFL"
  /\ IF onSignal = "OnBreak"
     THEN breakMessage' = TRUE /\ UNCHANGED loop
     ELSE loop' = "killed" /\ UNCHANGED breakMessage
  /\ UNCHANGED <<currentTime, syncMembers, limit>>

(* Entering a loop forgets an earlier break and installs the handler. *)
Enter(kind, until) ==
  /\ loop = "none"
  /\ loop' = kind
  /\ limit' = until
  /\ breakMessage' = FALSE
  /\ onSignal' = "OnBreak"
  /\ UNCHANGED <<currentTime, syncMembers>>

Endless == Enter("Endless", limit)

Run(maxRunTime) == Enter("Run", maxRunTime)

RunTimeRange(timeRange) == Enter("RunTimeRange", timeRange + currentTime)

(* Mutant of Going: the loop looks at the time limit only. *)
GoingUntilLimit ==
  /\ loop \in {"Endless", "Run", "RunTimeRange"}
  /\ loop # "Endless" => currentTime < limit

(* The condition of the loop that is being executed. *)
Going ==
  /\ loop \in {"Endless", "Run", "RunTimeRange"}
  /\ ~breakMessage
  /\ loop # "Endless" => currentTime < limit

(* One turn of the loop; RunTimeRange leaves it when Step returns nonzero, *)
(* which is the member's rc or, after a Stop(), 1.                         *)
LoopStep(d, rc, stop) ==
  /\ Going
  /\ StepMember(d, stop)
  /\ loop' = IF loop = "RunTimeRange" /\ (rc # 0 \/ stop) THEN "none" ELSE loop
  /\ UNCHANGED <<limit, onSignal>>

(* The loop condition is false: return to the caller. *)
LoopExit ==
  /\ loop \in {"Endless", "Run", "RunTimeRange"}
  /\ ~Going
  /\ loop' = "none"
  /\ UNCHANGED <<currentTime, syncMembers, breakMessage, limit, onSignal>>

LoopTurn == LoopExit \/ \E d \in Delays, rc \in {0, -1}, stop \in BOOLEAN :
                          LoopStep(d, rc, stop)

Next ==
  \/ \E d \in Delays, stop \in BOOLEAN : Step(d, stop)
  \/ \E m \in Members : Add(m)
  \/ ResetClock
  \/ Stop
  \/ Signal
  \/ Endless
  \/ \E t \in 0 .. MaxTime : Run(t)
  \/ \E t \in 0 .. (MaxTime - currentTime) : RunTimeRange(t)
  \/ LoopTurn

(* The loops are straight code: a loop that is entered keeps turning. *)
Fairness == WF_vars(LoopTurn)

Spec == Init /\ [][Next]_vars

FairSpec == Spec /\ Fairness
-----------------------------------------------------------------------------
(* The table keeps the binary heap invariant through every sift of Insert  *)
(* and RemoveMinimum, and no member has two places in it.                  *)
HeapOrdered ==
  /\ IsHeap(syncMembers)
  /\ \A i, j \in DOMAIN syncMembers :
       syncMembers[i].val = syncMembers[j].val => i = j

(* The clock implements the abstract time table: what the heap hands out   *)
(* first is an earliest place, and nothing else moves.                     *)
Table == INSTANCE TimeTable WITH now <- currentTime, table <- Entries(syncMembers)

ImplementsTimeTable == Table!Spec

(* A break (Stop or a first signal) ends the loop that is running.         *)
BreakEndsLoop == breakMessage ~> loop \in {"none", "killed"}

(* Run and RunTimeRange come to their end time, or run out of members: no  *)
(* sequence of answers of the members keeps the clock from advancing.      *)
LimitEndsLoop ==
  loop \in {"Run", "RunTimeRange"}
    ~> \/ loop \in {"none", "killed"}
       \/ syncMembers = <<>>

=============================================================================
