-------------------------------- MODULE Files --------------------------------
(***************************************************************************)
(* Package utils: MoveFile, which copies a file to another partition and   *)
(* removes the original.  Each call may fail, MoveFile then returns its    *)
(* error, and the caller may call it again.  Nothing else in the           *)
(* repository calls MoveFile; source and destination are different files.  *)
(* A copy that is short without an error (one that only the deferred Close *)
(* would report) is not modelled.                                          *)
(***************************************************************************)
EXTENDS Sequences, Naturals

CONSTANTS NoFile,     \* a file that does not exist
          MaxFaults   \* how many calls fail

ASSUME MovesAssumption == MaxFaults \in Nat

VARIABLES file,         \* the text in the source
          destination,  \* the text in the destination
          move,         \* where MoveFile is, or how it ended
          text,         \* what was in the source when MoveFile was first called
          faults        \* calls that may still fail

fileVars == <<file, destination, move, text, faults>>

FilesInit == /\ destination = NoFile /\ move = "idle" /\ text = NoFile
             /\ faults = MaxFaults

Returns(how) == move' = how /\ UNCHANGED text

\* A call that fails and changes nothing
CallFails == /\ faults > 0 /\ faults' = faults - 1 /\ Returns("failed")
             /\ UNCHANGED <<file, destination>>

\* os.Open, the first time or again after an error
OpenSource ==
  /\ move \in {"idle", "failed"}
  /\ text' = IF move = "idle" THEN file ELSE text
  /\ \/ file # NoFile /\ move' = "create" /\ UNCHANGED faults
     \/ faults > 0 /\ faults' = faults - 1 /\ move' = "failed"
  /\ UNCHANGED <<file, destination>>

\* os.Create truncates a destination that is there
CreateDestination ==
  /\ move = "create"
  /\ \/ destination' = <<>> /\ Returns("copy") /\ UNCHANGED <<file, faults>>
     \/ CallFails

\* Mutant: an error of io.Copy goes unnoticed
Copy_Unchecked ==
  /\ move = "copy" /\ Returns("remove")
  /\ \/ destination' = file /\ UNCHANGED faults
     \/ /\ faults > 0 /\ faults' = faults - 1
        /\ \E n \in 0 .. Len(file) : destination' = SubSeq(file, 1, n)
  /\ UNCHANGED file

\* io.Copy may fail with part of the text written
Copy ==
  /\ move = "copy"
  /\ \/ destination' = file /\ Returns("remove") /\ UNCHANGED faults
     \/ /\ faults > 0 /\ faults' = faults - 1 /\ Returns("failed")
        /\ \E n \in 0 .. Len(file) : destination' = SubSeq(file, 1, n)
  /\ UNCHANGED file

RemoveSource ==
  /\ move = "remove"
  /\ \/ file' = NoFile /\ Returns("ok") /\ UNCHANGED <<destination, faults>>
     \/ CallFails

MoveFile == OpenSource \/ CreateDestination \/ Copy \/ RemoveSource

-----------------------------------------------------------------------------
\* At every moment of MoveFile, through errors and calls made again, the whole
\* text is in one of the two files; once MoveFile returns nil it is in the
\* destination, and the source is gone.
MoveKeepsText ==
  move # "idle" =>
    /\ text \in {file, destination}
    /\ move = "ok" => destination = text /\ file = NoFile
=============================================================================
