----------------------------- MODULE Dashboard ------------------------------
(***************************************************************************)
(* The page (frontend/src/App.tsx): HealthStrip and EventsExplorer side by *)
(* side.  They share neither state nor requests, so a behaviour of one is  *)
(* the same whatever the other does; each is examined with the other at    *)
(* rest.                                                                   *)
(***************************************************************************)
EXTENDS Naturals, Sequences

CONSTANTS MaxRows, MaxTime, MaxLimit, MaxEdits, None, Polls

VARIABLES next_id, uncommitted, events, form, edits, cursorStack, results,
          nextCursor, loading, error, queries, walk,
          world, mounted, poll, cancelled, status,
          active  \* the component that is not at rest

explorer == <<next_id, uncommitted, events, form, edits, cursorStack, results,
              nextCursor, loading, error, queries, walk>>
strip == <<world, mounted, poll, cancelled, status>>
vars == <<explorer, strip, active>>

Explorer == INSTANCE EventsExplorer
Strip == INSTANCE HealthStrip

ASSUME DashboardAssumption ==
  /\ {MaxRows, MaxTime, MaxLimit, MaxEdits} \subseteq Nat
  /\ None \notin Explorer!Rows
  /\ None \notin Seq(Explorer!Cursors)

Init ==
  /\ active \in {"explorer", "strip"}
  /\ Explorer!Init
  /\ Strip!Init
  /\ active = "explorer" => world = [backend |-> TRUE, database |-> TRUE,
                                     redis |-> TRUE]
  /\ active = "strip" => form = [from |-> 1, order |-> "desc", limit |-> 1]

Next ==
  \/ active = "explorer" /\ Explorer!Next /\ UNCHANGED <<strip, active>>
  \/ active = "strip" /\ Strip!Next /\ UNCHANGED <<explorer, active>>

StripTick(p) ==
  active = "strip" /\ Strip!Tick(p) /\ UNCHANGED <<explorer, active>>
StripProgress(p) ==
  active = "strip" /\ Strip!Progress(p) /\ UNCHANGED <<explorer, active>>

\* As in HealthStrip; nothing makes a user go on.
Fairness ==
  \A p \in Polls : WF_vars(StripTick(p)) /\ WF_vars(StripProgress(p))

Spec == Init /\ [][Next]_vars /\ Fairness

-----------------------------------------------------------------------------
(* The properties of the two components.                                   *)

\* The types of EventsExplorer.
TypeOK == Explorer!TypeOK

\* Paging repeats no row, see EventsExplorer.
RowsShownOnce == Explorer!RowsShownOnce

\* Paging skips no row, see EventsExplorer.
NoRowSkipped == Explorer!NoRowSkipped

\* The stack describes the screen, see EventsExplorer.
StackMatchesScreen == Explorer!StackMatchesScreen

\* The strip ends up saying how things are, see HealthStrip.
StatusConverges == Strip!StatusConverges
=============================================================================
