----------------------------- MODULE FlatStore -----------------------------
(***************************************************************************)
(* What internal/file promises the download engine: the files of a torrent *)
(* are one array of bytes.  A write puts its data where it was asked to,   *)
(* clipped to the end of the array, or fails having put a prefix of it; a  *)
(* read returns what is there, clipped likewise, or fails.  One call       *)
(* runs at a time.  After Close the array is out of reach: writes change   *)
(* nothing and reads return nothing, and neither reports an error.         *)
(***************************************************************************)
EXTENDS Integers, FiniteSets

CONSTANTS
    Bytes,      \* values of a byte
    Zero,       \* the byte in a file that was never written
    Offsets,    \* offsets that calls use
    MaxLen      \* longest write or read

\* Byte strings of at most MaxLen bytes, indexed from 0.
Strings == UNION {[0 .. n - 1 -> Bytes] : n \in 0 .. MaxLen}
Length(d) == IF DOMAIN d = {} THEN 0 ELSE CHOOSE n \in 1 .. MaxLen : DOMAIN d = 0 .. n - 1

Empty == [j \in {} |-> Zero]
Idle  == [op |-> "none", off |-> 0, data |-> Empty, len |-> 0]

WriteCalls == {[op |-> "write", off |-> o, data |-> d, len |-> Length(d)] :
                  o \in Offsets, d \in Strings}
ReadCalls  == [op : {"read"}, off : Offsets, data : {Empty}, len : 0 .. MaxLen]
Calls      == WriteCalls \cup ReadCalls
Answers    == [op : {"none", "write", "read", "close"}, ok : BOOLEAN, data : Strings]

VARIABLES
    store,    \* the bytes
    status,   \* "new", "ready", "closed" or "gone"
    call,     \* the call in progress
    k,        \* bytes it has written or read
    buf,      \* bytes it has read
    ret       \* the last answer

flatVars == <<store, status, call, k, buf, ret>>

\* The number of bytes; it never changes.
Total == Cardinality(DOMAIN store)

\* Bytes of the call that lie inside the array.
Reach(c) == IF c.off >= Total THEN 0
            ELSE IF c.len <= Total - c.off THEN c.len ELSE Total - c.off

FlatInit ==
    /\ DOMAIN store = 0 .. Total - 1 /\ \A c \in DOMAIN store : store[c] \in Bytes
    /\ status = "new"
    /\ call = Idle /\ k = 0 /\ buf = Empty
    /\ ret = [op |-> "none", ok |-> TRUE, data |-> Empty]

\* The bytes are set to zero before first use.
Format ==
    /\ status = "new"
    /\ store' = [c \in 0 .. Total - 1 |-> Zero]
    /\ UNCHANGED <<status, call, k, buf, ret>>

Attach ==
    /\ status = "new"
    /\ status' = "ready"
    /\ UNCHANGED <<store, call, k, buf, ret>>

\* The process is gone.
Vanish ==
    /\ status' = "gone"
    /\ UNCHANGED <<store, call, k, buf, ret>>

Begin(c) ==
    /\ status \in {"ready", "closed"} /\ call = Idle
    /\ call' = c /\ k' = 0 /\ buf' = Empty
    /\ UNCHANGED <<store, status, ret>>

\* n more bytes of a write reach the array.
Put(n) ==
    /\ status = "ready" /\ call.op = "write"
    /\ k + n <= Reach(call)
    /\ store' = [c \in 0 .. Total - 1 |->
                    IF call.off + k <= c /\ c < call.off + k + n
                    THEN call.data[c - call.off] ELSE store[c]]
    /\ k' = k + n
    /\ UNCHANGED <<status, call, buf, ret>>

\* n more bytes of a read come back.
Get(n) ==
    /\ status = "ready" /\ call.op = "read"
    /\ k + n <= Reach(call)
    /\ buf' = [j \in 0 .. k + n - 1 |->
                  IF j < k THEN buf[j] ELSE store[call.off + j]]
    /\ k' = k + n
    /\ UNCHANGED <<store, status, call, ret>>

Answer(ok, d) ==
    /\ ret' = [op |-> call.op, ok |-> ok, data |-> d]
    /\ call' = Idle /\ k' = 0 /\ buf' = Empty
    /\ UNCHANGED <<store, status>>

\* A call succeeds when all of it that lies in the array is done.
Succeed ==
    /\ call # Idle
    /\ status = "ready" => k = Reach(call)
    /\ Answer(TRUE, buf)

Fail ==
    /\ call # Idle
    /\ status = "ready"
    /\ Answer(FALSE, Empty)

CloseStore ==
    /\ status \in {"ready", "closed"} /\ call = Idle
    /\ \/ status' = "closed" /\ ret' = [op |-> "close", ok |-> TRUE, data |-> Empty]
       \/ UNCHANGED status /\ ret' = [op |-> "close", ok |-> FALSE, data |-> Empty]
    /\ UNCHANGED <<store, call, k, buf>>

FlatNext ==
    \/ Format \/ Attach \/ Vanish
    \/ \E c \in Calls : Begin(c)
    \/ \E n \in 1 .. MaxLen : Put(n) \/ Get(n)
    \/ Succeed \/ Fail \/ CloseStore

FlatSpec == FlatInit /\ [][FlatNext]_flatVars
=============================================================================
