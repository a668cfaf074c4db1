------------------------------- MODULE IoSync -------------------------------
(***************************************************************************)
(* uni_hal_io_receive_sync (io/uni_hal_io_c.c): a reader skips received    *)
(* bytes until a pattern has gone by.  A call that times out leaves the    *)
(* length of the partial match in buf_rx.sync_idx and the next call goes   *)
(* on from there.  Bytes arrive from the interrupt handler at any moment.  *)
(*                                                                         *)
(* A search lasts from the first call after a success, a clear or another  *)
(* read to the call that finds the pattern.  `taken' is what it has seen.  *)
(***************************************************************************)
EXTENDS Integers, Sequences

CONSTANTS
    Byte,
    Pattern,    \* the patterns callers look for
    RxSize,     \* bytes buf_rx can hold
    Window,     \* how much of the bytes seen is kept for the properties
    Habit       \* what callers may do: TRUE to change the pattern or read data
                \* in mid-match, FALSE to keep to a pattern they partly have

ASSUME SyncAssumption ==
    /\ Pattern \subseteq Seq(Byte) \ {<<>>}
    /\ RxSize \in Nat \ {0} /\ Window \in Nat
    /\ \A p \in Pattern : Len(p) <= Window
    /\ Habit \subseteq BOOLEAN

VARIABLES
    rx,         \* buf_rx
    sync_idx,   \* buf_rx.sync_idx: bytes of the pattern matched so far
    match_idx,  \* the local copy of a running call
    pat,        \* the pattern of the last call
    pc,         \* "ready" or "sync": the reader runs receive_sync
    expired,    \* the timeout of the running call is over
    switching,  \* the habit of this caller
    result,     \* of the last call: "none" before it, "found" or "timeout"
    taken       \* history: the last bytes the search has consumed

vars == <<rx, sync_idx, match_idx, pat, pc, expired, switching, result, taken>>
call == <<sync_idx, match_idx, pat, pc, expired, switching, result>>

Recent(s) == IF Len(s) <= Window THEN s ELSE Tail(s)

(* memcmp of the last k bytes of s with the first k bytes of p.            *)
EndsWith(s, p, k) == \A i \in 1..k : s[Len(s) - k + i] = p[i]

Init ==
    /\ rx = <<>> /\ sync_idx = 0 /\ match_idx = 0 /\ pat \in Pattern
    /\ switching \in Habit
    /\ pc = "ready" /\ expired = FALSE /\ result = "none" /\ taken = <<>>

(* Mutants, here and below: a full buffer not noticed; the comparison of   *)
(* the overlap left out; no overlap at all; the time not looked at while   *)
(* a match is under way.                                                   *)
PushUnlimited(b) == rx' = Append(rx, b) /\ UNCHANGED <<call, taken>>

(* The interrupt handler: a byte that does not fit is dropped.             *)
Push(b) ==
    /\ rx' = IF Len(rx) < RxSize THEN Append(rx, b) ELSE rx
    /\ UNCHANGED <<call, taken>>

-----------------------------------------------------------------------------

(* A new search starts unless the last call left one open.  A disciplined  *)
(* caller keeps to its pattern while a partial match is stored.            *)
SyncCall(p) ==
    /\ pc = "ready"
    /\ switching \/ p = pat \/ sync_idx = 0
    /\ pc' = "sync" /\ expired' = FALSE /\ pat' = p
    /\ match_idx' = sync_idx
    /\ result' = "none"
    /\ taken' = IF result = "found" \/ p # pat THEN <<>> ELSE taken
    /\ UNCHANGED <<rx, sync_idx, switching>>

Expire == /\ pc = "sync" /\ expired' = TRUE
          /\ UNCHANGED <<rx, sync_idx, match_idx, pat, pc, switching, result, taken>>

OverlapsUncompared(ch) == {0} \cup {keep \in 1..match_idx : ch = pat[keep]}
OverlapsNone(ch) == {0}

(* After a mismatch: the match that can go on with ch is a prefix of the   *)
(* pattern, ending in ch, that the matched part followed by ch ends with.  *)
Overlaps(ch) ==
    {0} \cup {keep \in 1..match_idx :
                 /\ ch = pat[keep]
                 /\ EndsWith(SubSeq(pat, 1, match_idx), pat, keep - 1)}

Mismatch(ch) == \E keep \in Overlaps(ch) :
                   /\ \A k \in Overlaps(ch) : k <= keep
                   /\ match_idx' = keep

Found == /\ sync_idx' = 0 /\ match_idx' = 0
         /\ pc' = "ready" /\ result' = "found"

Search(ch) ==
    IF ch = pat[match_idx + 1]
    THEN IF match_idx + 1 = Len(pat)
         THEN Found
         ELSE match_idx' = match_idx + 1 /\ UNCHANGED <<sync_idx, pc, result>>
    ELSE Mismatch(ch) /\ UNCHANGED <<sync_idx, pc, result>>

SyncByte ==
    /\ pc = "sync" /\ rx # <<>>
    /\ rx' = Tail(rx)
    /\ taken' = Recent(Append(taken, Head(rx)))
    /\ match_idx < Len(pat)
    /\ Search(Head(rx))
    /\ UNCHANGED <<pat, expired, switching>>

(* A stored match longer than a new pattern: the comparisons read past its *)
(* end, and the index ends up anywhere the loop can leave it.  The bytes   *)
(* past the longest pattern are not modelled (match_idx <= Window).        *)
SyncBeyond ==
    /\ pc = "sync" /\ rx # <<>> /\ match_idx >= Len(pat)
    /\ rx' = Tail(rx)
    /\ taken' = Recent(Append(taken, Head(rx)))
    /\ match_idx' \in 0..match_idx + 1 /\ match_idx' <= Window
    /\ UNCHANGED <<sync_idx, pat, pc, expired, switching, result>>

TimedOutUnmatched == expired /\ match_idx = 0

(* The read found nothing and the time is up.                              *)
TimedOut == expired

SyncTimeout ==
    /\ pc = "sync" /\ rx = <<>> /\ TimedOut
    /\ sync_idx' = match_idx /\ match_idx' = 0
    /\ pc' = "ready" /\ result' = "timeout"
    /\ UNCHANGED <<rx, pat, expired, switching, taken>>

-----------------------------------------------------------------------------

(* uni_hal_io_receive_data takes what is there, up to n bytes.             *)
ReceiveData(n) ==
    /\ pc = "ready" /\ n <= Len(rx)
    /\ switching \/ sync_idx = 0
    /\ rx' = SubSeq(rx, n + 1, Len(rx))
    /\ taken' = <<>> /\ result' = "none"
    /\ UNCHANGED <<sync_idx, match_idx, pat, pc, expired, switching>>

(* No task waits in the buffer, so that the reset succeeds.                *)
ReceiveClear ==
    /\ pc = "ready"
    /\ sync_idx' = 0 /\ rx' = <<>>
    /\ taken' = <<>> /\ result' = "none"
    /\ UNCHANGED <<match_idx, pat, pc, expired, switching>>

Next ==
    \/ \E b \in Byte : Push(b)
    \/ \E p \in Pattern : SyncCall(p)
    \/ Expire \/ SyncByte \/ SyncBeyond \/ SyncTimeout
    \/ \E n \in 1..RxSize : ReceiveData(n)
    \/ ReceiveClear

Spec == Init /\ [][Next]_vars

(* The reader is scheduled and its clock runs.                             *)
FairSpec == Spec /\ WF_vars(SyncByte) /\ WF_vars(SyncTimeout) /\ WF_vars(Expire)

-----------------------------------------------------------------------------

(* Contents of the buffers, range of the indices.                          *)
TypeOK ==
    /\ rx \in Seq(Byte) /\ Len(rx) <= RxSize
    /\ sync_idx \in Nat /\ match_idx \in Nat
    /\ pat \in Pattern
    /\ pc \in {"ready", "sync"} /\ expired \in BOOLEAN /\ switching \in Habit
    /\ result \in {"none", "found", "timeout"}
    /\ taken \in Seq(Byte) /\ Len(taken) <= Window

(* How far the search is, between calls and inside one.                    *)
Progress == IF pc = "sync" THEN match_idx ELSE sync_idx

(* The stored progress is exactly the longest beginning of the pattern     *)
(* that the bytes seen so far end with: no overlap inside the pattern is   *)
(* forgotten on a mismatch or across a timeout, and none is invented, for  *)
(* callers that keep to their pattern.                                     *)
MatchIsLongest ==
    ~switching /\ result # "found" =>
        /\ Progress < Len(pat) /\ Progress <= Len(taken)
        /\ EndsWith(taken, pat, Progress)
        /\ \A k \in Progress + 1 .. Len(pat) - 1 :
              k <= Len(taken) => ~EndsWith(taken, pat, k)

(* A successful call has just consumed the pattern, byte by byte           *)
(* (io/uni_hal_io.h: "Skip input data until specified data will be         *)
(* found").                                                                *)
FoundMeansFound ==
    result = "found" => Len(pat) <= Len(taken) /\ EndsWith(taken, pat, Len(pat))

(* The same for callers that keep to a pattern they partly have.           *)
KeptPatternFound == ~switching => FoundMeansFound

(* No occurrence of the pattern goes by unnoticed: while a search is open, *)
(* or after it timed out, the bytes seen do not end with the pattern.      *)
NothingMissed ==
    ~switching /\ result # "found" /\ Len(pat) <= Len(taken) => ~EndsWith(taken, pat, Len(pat))

(* Once the line is quiet, every call returns (README.md: "Blocking        *)
(* functions return `false` when their timeout runs out").                 *)
QuietCallReturns == <>[](rx = <<>>) => ((pc = "sync") ~> (pc = "ready"))
=============================================================================
