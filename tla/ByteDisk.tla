------------------------------ MODULE ByteDisk ------------------------------
(***************************************************************************)
(* What AtaDrive promises the file system: an array of bytes with a        *)
(* position.  A write changes the bytes it was given and no others; it is  *)
(* not atomic, so that a prefix of it may be on the disk for a while.      *)
(***************************************************************************)
EXTENDS Naturals

CONSTANTS DiskSize,   \* bytes on the disk
          NoOp        \* no operation is under way

VARIABLES disk,      \* the bytes
          position,  \* where the next operation starts
          op,        \* the operation under way: its kind, its length, its data
          done,      \* how many bytes of a write have been written
          out,       \* what a read that just ended returned
          stopped    \* the kernel has panicked

vars == <<disk, position, op, done, out, stopped>>

(* The disk once the first n bytes of data are written at the position. *)
Written(data, n) ==
  [a \in DOMAIN disk |-> IF a \in position..(position + n - 1)
                         THEN data[a - position] ELSE disk[a]]

Init == /\ position = 0 /\ op = NoOp /\ done = 0 /\ out = <<>> /\ stopped = FALSE
        /\ DOMAIN disk = 0..(DiskSize - 1)

Seek == /\ op = NoOp /\ ~stopped /\ position' \in 0..DiskSize
        /\ UNCHANGED <<disk, op, done, out, stopped>>

Begin == /\ op = NoOp /\ ~stopped
         /\ op' # NoOp /\ position + op'.len <= DiskSize
         /\ out' = <<>>
         /\ UNCHANGED <<disk, position, done, stopped>>

WriteSome == /\ op # NoOp /\ op.kind = "write" /\ ~stopped
             /\ done' \in (done + 1)..op.len
             /\ disk' = Written(op.data, done')
             /\ UNCHANGED <<position, op, out, stopped>>

WriteEnds == /\ op # NoOp /\ op.kind = "write" /\ done = op.len /\ ~stopped
             /\ position' = position + op.len
             /\ op' = NoOp /\ done' = 0
             /\ UNCHANGED <<disk, out, stopped>>

ReadEnds == /\ op # NoOp /\ op.kind = "read" /\ ~stopped
            /\ out' = [i \in 0..(op.len - 1) |-> disk[position + i]]
            /\ position' = position + op.len
            /\ op' = NoOp
            /\ UNCHANGED <<disk, done, stopped>>

(* Only an operation on no bytes at all may bring the kernel down. *)
Stops == /\ op # NoOp /\ op.len = 0 /\ stopped' = TRUE
         /\ UNCHANGED <<disk, position, op, done, out>>

Next == Seek \/ Begin \/ WriteSome \/ WriteEnds \/ ReadEnds \/ Stops

Safety == Init /\ [][Next]_vars

(* Every operation comes to its end. *)
Spec == Safety /\ WF_vars(WriteSome \/ WriteEnds \/ ReadEnds)
=============================================================================
