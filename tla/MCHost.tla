------------------------------- MODULE MCHost -------------------------------
(* A boot file with a second stage, and calls of each kind.                *)
EXTENDS HostSystem, TLC

\* Three bytes for the bootstrap and two for the program to read.
MCBootFile == <<3, 33, 34, 35, 36, 37>>

\* A text file with two lines, the second without a newline.
MCDiskFiles == <<65>> :> <<72, 105, 10, 66, 67>>

\* The second begins with a character and a NUL.
MCTypedLine == {<<81, 10>>, <<82, 0, 10>>}

\* A file that is there, one that is made, and one that is not there.
OpenA == [tag |-> OPEN, name |-> <<65>>, mode |-> 1]
OpenB == [tag |-> OPEN, name |-> <<66>>, mode |-> 2]
OpenC == [tag |-> OPEN, name |-> <<67>>, mode |-> 1]

InStepCalls == {
  OpenA, OpenB, OpenC,
  [tag |-> WRITE, data |-> <<7, 8>>],
  [tag |-> WRITE, data |-> <<>>],
  [tag |-> GETS, length |-> 8],
  [tag |-> PUTS, stream |-> 1, data |-> <<79, 75>>],
  [tag |-> PUTS, stream |-> 2, data |-> <<33, 33>>],
  [tag |-> GETKEY, body |-> <<0, 0, 0, 0, 0>>]}

ReadTwo == [tag |-> READ, length |-> 2]

\* After these the server and the program are no longer in step: READ, a tag
\* that is not answered (SP_CLOSE), and a frame below six bytes.
OutOfStepCalls == {
  ReadTwo,
  [tag |-> 11, body |-> <<1, 0, 0, 0, 0>>],
  [tag |-> 19, body |-> <<0>>]}

ReadCalls == {OpenA, ReadTwo}

PutsCalls == {[tag |-> PUTS, stream |-> 1, data |-> <<79, 75>>]}

NoCalls == {}
=============================================================================
