-------------------------------- MODULE MCHistory --------------------------------
(***************************************************************************)
(* Bounds for TLC; the other constants are in the .cfg files.              *)
(***************************************************************************)
EXTENDS History

\* Several rows for one metric; none for another, so that the response is empty.
MCRows == [m \in Stored |->
  IF m = "a" THEN <<[time |-> 3, value |-> 1], [time |-> 5, value |-> 2],
                    [time |-> 6, value |-> 1]>> ELSE <<>>]

\* With and without the time that values were valid.
MCAggregates == [m \in Stored |->
  IF m = "a"
  THEN <<[time |-> 3, min |-> 1, max |-> 3, sum |-> 4, count |-> 2,
          integral |-> 20, activeTime |-> 10],
         [time |-> 8, min |-> 2, max |-> 2, sum |-> 2, count |-> 1,
          integral |-> 0, activeTime |-> 0]>>
  ELSE <<>>]
=============================================================================
