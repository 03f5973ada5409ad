----------------------------- MODULE ChunkStore -----------------------------
(***************************************************************************)
(* What the metadata recorder promises to those who read one drive while   *)
(* it records (downloads, the space monitor): at most one chunk file is    *)
(* open, only that one changes, it is a file that was not there before and *)
(* gets its index when it is closed, and a file in an hour directory is    *)
(* final.  When and why chunks begin and end is left out, and so are the   *)
(* other drive, the pointers, the clock and the messages.                  *)
(***************************************************************************)
EXTENDS Integers

CONSTANT Chunks   \* chunks, numbered in the order in which they are opened
                  \* (that of their names unless the clock is set back)

VARIABLES
  open,    \* the file that is being written, 0 for none
  size,    \* records in each file
  index,   \* index in the header of each file, <<>> for none
  staged,  \* files in the staging directory
  filed    \* files in the hour directories

storeVars == <<open, size, index, staged, filed>>

Init ==
  /\ open = 0
  /\ size = [c \in Chunks |-> 0]
  /\ index = [c \in Chunks |-> <<>>]
  /\ staged = {} /\ filed = {}

Write ==
  /\ open # 0
  /\ size' = [size EXCEPT ![open] = @ + 1]
  /\ UNCHANGED <<open, index, staged, filed>>

\* The open file, if any, gets an index or none, and is moved to its hour
\* directory or, when that fails, left in staging; created are the files that
\* take its place.
Replace(created) ==
  /\ \A c \in Chunks : index'[c] # index[c] => c = open /\ index[c] = <<>>
  /\ \E moved \in SUBSET (staged \cap {open}) :
       /\ staged' = (staged \ moved) \cup created
       /\ filed' = filed \cup moved
  /\ size' = size

Close ==
  /\ open # 0 /\ open' = 0
  /\ Replace({})

\* The new file was opened after every other, and is empty.
Create(c) ==
  /\ open' = c
  /\ size[c] = 0 /\ index[c] = <<>>
  /\ \A b \in staged \cup filed : b < c
  /\ Replace({c})

Next == Write \/ Close \/ \E c \in Chunks : Create(c)

Spec == Init /\ [][Next]_storeVars
=============================================================================
