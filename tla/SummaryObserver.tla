---------------------------- MODULE SummaryObserver ----------------------------
(***************************************************************************)
(* observer/summary.go: the goroutine that counts the results of the       *)
(* comparisons and prints the summary at the end of a run.  It reads an    *)
(* observer.Property (github.com/imkira/go-observer), external: a list of  *)
(* values, of which an observer gets the one that is current when it calls *)
(* Observe and all later ones.                                             *)
(***************************************************************************)
EXTENDS Naturals, Sequences

CONSTANT
  Prompt \* the goroutine of Start calls Observe before the first Update

ASSUME PromptAssumption == Prompt \in BOOLEAN

VARIABLES
  updates,  \* the values of the property
  observer, \* control point of the goroutine, "none" if there is no observer
  position, \* the value it reads, 0 before Observe
  made,     \* whether the map results is made
  counted,  \* the comparison results in results
  printed   \* whether the summary was printed

summaryVars == <<updates, observer, position, made, counted, printed>>

Comparison(path, status) == [kind |-> "comparison", path |-> path, status |-> status]
StartEvent == [kind |-> "start"]
EndEvent   == [kind |-> "end"]

SummaryInit(kinds) ==
  /\ updates = <<StartEvent>> /\ observer \in kinds /\ position = 0
  /\ made = FALSE /\ counted = << >> /\ printed = FALSE

\* Property.Update, called by the main goroutine.
Update(value) ==
  /\ Prompt => observer # "starting"
  /\ updates' = Append(updates, value)
  /\ UNCHANGED <<observer, position, made, counted, printed>>

Observe ==
  /\ observer = "starting"
  /\ observer' = "handle" /\ position' = Len(updates)
  /\ UNCHANGED <<updates, made, counted, printed>>

Handles(kind) == observer = "handle" /\ updates[position].kind = kind

HandleStart ==
  /\ Handles("start")
  /\ observer' = "changes" /\ made' = TRUE /\ counted' = << >>
  /\ UNCHANGED <<updates, position, printed>>

\* A result that is stored in a map that was never made ends the program.
HandleComparison ==
  /\ Handles("comparison")
  /\ observer' = IF made THEN "changes" ELSE "panic"
  /\ counted' = Append(counted, updates[position])
  /\ UNCHANGED <<updates, position, made, printed>>

HandleEnd ==
  /\ Handles("end")
  /\ observer' = "done" /\ printed' = TRUE
  /\ UNCHANGED <<updates, position, made, counted>>

\* Changes and Next of the stream.
NextValue ==
  /\ observer = "changes" /\ position < Len(updates)
  /\ observer' = "handle" /\ position' = position + 1
  /\ UNCHANGED <<updates, made, counted, printed>>

ObserverStep ==
  Observe \/ HandleStart \/ HandleComparison \/ HandleEnd \/ NextValue

\* Finalize meets the goroutine at the unbuffered channel done.
Finalize ==
  /\ observer = "done" /\ observer' = "changes"
  /\ UNCHANGED <<updates, position, made, counted, printed>>

=================================================================================
