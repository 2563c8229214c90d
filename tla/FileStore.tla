----------------------------- MODULE FileStore ------------------------------
(***************************************************************************)
(* internal/store/filestore.go: files received from peers, written by one  *)
(* goroutine per stream with no lock between them.  The test for a file    *)
(* that exists, its creation and each buffer copied are separate steps.    *)
(*                                                                         *)
(* The file system is modelled from how Write uses it: a directory entry   *)
(* names an inode, Create truncates the inode that is there, Remove takes  *)
(* the entry away from under whoever still writes, and a write beyond the  *)
(* end leaves a hole.  A file is a sequence of buffers.                    *)
(***************************************************************************)
EXTENDS Naturals, Sequences

CONSTANTS Streams,
          MsgOf,      \* the message each stream carries: id, batch, name and buffers
          NoBatch, NoFile, Hole

ASSUME NoFileIsNoStream == NoFile \notin Streams

VARIABLES dir,    \* path to inode, NoFile where there is none
          data,   \* inode to buffers; an inode is named after the stream that created it
          fd,     \* the inode each stream writes to
          off,    \* buffers each stream has written
          at      \* where each stream's Write is

store == <<dir, data, fd, off, at>>

\* The isolated directory of the batch or of the message, and the name in it.
Path(m) == <<IF m.batch # NoBatch THEN m.batch ELSE m.id, m.name>>

Paths == {Path(MsgOf[s]) : s \in Streams}

StoreInit ==
    /\ dir = [p \in Paths |-> NoFile]
    /\ data = [s \in Streams |-> <<>>]
    /\ fd = [s \in Streams |-> NoFile]
    /\ off = [s \in Streams |-> 0]
    /\ at = [s \in Streams |-> "stat"]

Goto(s, l) == at' = [at EXCEPT ![s] = l]

\* The file of this name is taken for the one being sent when its size is right.
Exists(s) ==
    LET f == dir[Path(MsgOf[s])]
    IN  f # NoFile /\ Len(data[f]) = Len(MsgOf[s].buffers)

Stat(s) ==
    /\ at[s] = "stat"
    /\ Goto(s, IF Exists(s) THEN "stored" ELSE "create")
    /\ UNCHANGED <<dir, data, fd, off>>

Create(s) ==
    LET p == Path(MsgOf[s])
        f == IF dir[p] = NoFile THEN s ELSE dir[p]
    IN  /\ at[s] = "create"
        /\ dir' = [dir EXCEPT ![p] = f]
        /\ data' = [data EXCEPT ![f] = <<>>]
        /\ fd' = [fd EXCEPT ![s] = f]
        /\ Goto(s, "copy")
        /\ UNCHANGED off

CreateFails(s) ==
    /\ at[s] = "create"
    /\ Goto(s, "failed")
    /\ UNCHANGED <<dir, data, fd, off>>

\* A buffer written at an offset, over a file that may be shorter by now.
Put(buffers, o, x) ==
    [i \in 1..(IF Len(buffers) > o THEN Len(buffers) ELSE o + 1) |->
        IF i = o + 1 THEN x ELSE IF i <= Len(buffers) THEN buffers[i] ELSE Hole]

\* Mutant: a file opened for appending.
CopyAppends(s) ==
    /\ at[s] = "copy" /\ off[s] < Len(MsgOf[s].buffers)
    /\ data' = [data EXCEPT ![fd[s]] = Append(@, MsgOf[s].buffers[off[s] + 1])]
    /\ off' = [off EXCEPT ![s] = @ + 1]
    /\ UNCHANGED <<dir, fd, at>>

Copy(s) ==
    /\ at[s] = "copy" /\ off[s] < Len(MsgOf[s].buffers)
    /\ data' = [data EXCEPT ![fd[s]] = Put(@, off[s], MsgOf[s].buffers[off[s] + 1])]
    /\ off' = [off EXCEPT ![s] = @ + 1]
    /\ UNCHANGED <<dir, fd, at>>

CopyDone(s) ==
    /\ at[s] = "copy" /\ off[s] = Len(MsgOf[s].buffers)
    /\ Goto(s, "stored")
    /\ UNCHANGED <<dir, data, fd, off>>

\* The stream breaks or ends early: the file is removed by its name.
CopyFails(s) ==
    /\ at[s] = "copy" /\ off[s] < Len(MsgOf[s].buffers)
    /\ dir' = [dir EXCEPT ![Path(MsgOf[s])] = NoFile]
    /\ Goto(s, "failed")
    /\ UNCHANGED <<data, fd, off>>

StoreStep(s) == Stat(s) \/ Create(s) \/ Copy(s) \/ CopyDone(s)
StoreFault(s) == CreateFails(s) \/ CopyFails(s)

\* What a reader of the path finds.
Intact(s) ==
    LET f == dir[Path(MsgOf[s])]
    IN  f # NoFile /\ data[f] = MsgOf[s].buffers

=============================================================================
