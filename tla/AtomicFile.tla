----------------------------- MODULE AtomicFile -----------------------------
(***************************************************************************)
(* What the file tools promise of one file that commands change as well.   *)
(* A call takes the file as it is at one moment, or makes a text up; it    *)
(* puts the text it has made of that into the file at most once and in     *)
(* one step.  A call that reports success to the agent has done so, unless *)
(* it only reads.  Success is not durable: a crash ends the calls under    *)
(* way and brings back the text the disk has, which was in the file once.  *)
(* An error may be reported for a file that was replaced, and nothing is   *)
(* promised of the time between taking and replacing: a change made then   *)
(* is overwritten.  Nothing is promised at all once a call has removed the *)
(* temporary file of another.                                              *)
(***************************************************************************)
CONSTANTS Calls, Original, Foreign, NoFile

Whole(b) == [base |-> b, edits |-> {}]

VARIABLES file,
          disk,    \* what the disk has of it
          stage,   \* how far a call is
          text,    \* what it took or has made
          crossed  \* two calls shared a temporary name, and one removed it

fileVars == <<file, disk, stage, text, crossed>>

Underway == {"begun", "took", "made", "replaced", "failing"}

Init ==
    /\ file \in {NoFile, Whole(Original)}
    /\ disk = file
    /\ stage = [c \in Calls |-> "idle"]
    /\ text = [c \in Calls |-> NoFile]
    /\ crossed = FALSE

Moves(c, from, to) ==
    /\ stage[c] = from
    /\ stage' = [stage EXCEPT ![c] = to]

Begin(c) ==
    /\ Moves(c, "idle", "begun")
    /\ UNCHANGED <<file, disk, text>>

Take(c) ==
    /\ Moves(c, "begun", "took")
    /\ file # NoFile
    /\ text' = [text EXCEPT ![c] = file]
    /\ UNCHANGED <<file, disk>>

Make(c) ==
    /\ \/ Moves(c, "begun", "made") /\ text' = [text EXCEPT ![c] = Whole(c)]
       \/ Moves(c, "took", "made") /\ text' = [text EXCEPT ![c].edits = @ \cup {c}]
    /\ UNCHANGED <<file, disk>>

Replace(c) ==
    /\ Moves(c, "made", "replaced")
    /\ file' = text[c]
    /\ UNCHANGED <<disk, text>>

Succeed(c) ==
    /\ \E from \in {"took", "replaced"} : Moves(c, from, "ok")
    /\ UNCHANGED <<file, disk, text>>

Fail(c) ==
    /\ \/ \E from \in {"begun", "took", "made"} : Moves(c, from, "error")
       \/ \E from \in {"made", "replaced"} : Moves(c, from, "failing")
       \/ Moves(c, "failing", "error")
    /\ UNCHANGED <<file, disk, text>>

Command ==
    /\ file' \in {NoFile, Whole(Foreign)}
    /\ UNCHANGED <<disk, stage, text>>

Flush ==
    /\ disk' = file
    /\ UNCHANGED <<file, stage, text>>

Crash ==
    /\ stage' = [c \in Calls |-> IF stage[c] \in Underway THEN "dead" ELSE stage[c]]
    /\ file' = disk
    /\ UNCHANGED <<disk, text>>

Next ==
    IF crossed' THEN TRUE
    ELSE /\ \/ \E c \in Calls : Begin(c) \/ Take(c) \/ Make(c) \/ Replace(c) \/ Succeed(c) \/ Fail(c)
            \/ Command \/ Flush \/ Crash
         /\ UNCHANGED crossed

Spec == Init /\ [][Next]_fileVars
=============================================================================
