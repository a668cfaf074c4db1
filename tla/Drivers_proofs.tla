---------------------------- MODULE Drivers_proofs ----------------------------
(***************************************************************************)
(* Proofs about the drivers that share no state with each other: the       *)
(* synchronising read of the IO buffers; status, reception, filters and    *)
(* bit timing of CAN; GPIO, flash, ADCs, input capture and CRC. Each part  *)
(* has its component's specification, an inductive invariant, lemmas about *)
(* the operators, one for each action that has something to it, and the    *)
(* theorems that state the component's properties for every value of the   *)
(* constants.                                                              *)
(***************************************************************************)
EXTENDS IoSync, CanBus, CanRx, CanFilter, CanTiming, Gpio, Flash, Adc, Tim, Crc,
        FiniteSetTheorems, SequenceTheorems, TLAPS

--------------------------------------------------------------------------------
(***************************************************************************)
(* IoSync: the search of uni_hal_io_receive_sync.                          *)
(***************************************************************************)
(* Ending with k bytes of p after one more byte.                            *)
LEMMA AppendEnds ==
    ASSUME NEW s \in Seq(Byte), NEW c \in Byte, NEW p \in Seq(Byte),
           NEW k \in 1..Len(p), k <= Len(s) + 1
    PROVE  EndsWith(Append(s, c), p, k) <=> p[k] = c /\ EndsWith(s, p, k - 1)
<1> DEFINE t == Append(s, c)
<1>1. /\ Len(t) = Len(s) + 1 /\ t[Len(s) + 1] = c
      /\ \A i \in 1..Len(s) : t[i] = s[i]
  OBVIOUS
<1>2. k \in Nat /\ Len(s) \in Nat /\ Len(p) \in Nat
  OBVIOUS
<1> HIDE DEF t
<1>3. ASSUME EndsWith(t, p, k) PROVE p[k] = c /\ EndsWith(s, p, k - 1)
  <2>1. p[k] = c
    BY <1>1, <1>2, <1>3 DEF EndsWith
  <2>2. ASSUME NEW i \in 1..k - 1 PROVE s[Len(s) - (k - 1) + i] = p[i]
    <3>1. i \in 1..k /\ Len(s) - (k - 1) + i \in 1..Len(s)
      BY <1>2
    <3>2. Len(t) - k + i = Len(s) - (k - 1) + i
      BY <1>1, <1>2
    <3> QED BY <1>1, <1>3, <3>1, <3>2 DEF EndsWith
  <2> QED BY <2>1, <2>2 DEF EndsWith
<1>4. ASSUME p[k] = c, EndsWith(s, p, k - 1) PROVE EndsWith(t, p, k)
  <2>1. ASSUME NEW i \in 1..k PROVE t[Len(t) - k + i] = p[i]
    <3>1. CASE i = k
      BY <1>1, <1>2, <1>4, <3>1
    <3>2. CASE i # k
      <4>1. i \in 1..k - 1 /\ Len(s) - (k - 1) + i \in 1..Len(s)
        BY <1>2, <3>2
      <4>2. Len(t) - k + i = Len(s) - (k - 1) + i
        BY <1>1, <1>2
      <4> QED BY <1>1, <1>4, <4>1, <4>2 DEF EndsWith
    <3> QED BY <3>1, <3>2
  <2> QED BY <2>1 DEF EndsWith
<1> QED BY <1>3, <1>4 DEF t

(* Keeping the last Window bytes loses nothing a pattern can be found in.   *)
LEMMA RecentEnds ==
    ASSUME NEW s \in Seq(Byte), NEW p, NEW k \in Nat, k <= Window, k <= Len(s)
    PROVE  k <= Len(Recent(s)) /\ (Len(s) <= Window + 1
              => (EndsWith(Recent(s), p, k) <=> EndsWith(s, p, k)))
<1>1. CASE Len(s) <= Window
  BY <1>1 DEF Recent
<1>2. CASE ~(Len(s) <= Window)
  <2>0. Window \in Nat /\ Len(s) \in Nat /\ s # <<>>
    BY <1>2, SyncAssumption
  <2> DEFINE t == Tail(s)
  <2>1. Recent(s) = t
    BY <1>2 DEF Recent
  <2>2. Len(t) = Len(s) - 1 /\ \A i \in 1..Len(s) - 1 : t[i] = s[i + 1]
    BY <2>0
  <2> HIDE DEF t
  <2>3. k <= Len(t)
    BY <1>2, <2>0, <2>2
  <2>4. \A i \in 1..k : t[Len(t) - k + i] = s[Len(s) - k + i]
    <3> SUFFICES ASSUME NEW i \in 1..k PROVE t[Len(t) - k + i] = s[Len(s) - k + i]
      OBVIOUS
    <3>1. Len(t) - k + i \in 1..Len(s) - 1 /\ (Len(t) - k + i) + 1 = Len(s) - k + i
      BY <2>0, <2>2, <2>3
    <3> QED BY <2>2, <3>1
  <2> QED BY <2>1, <2>3, <2>4 DEF EndsWith
<1> QED BY <1>1, <1>2

(* Whether s ends with k bytes of p can be read off the m bytes of p that   *)
(* it is known to end with.                                                 *)
LEMMA EndsWithin ==
    ASSUME NEW s \in Seq(Byte), NEW p \in Seq(Byte), NEW m \in Nat, NEW k \in 0..m,
           m <= Len(p), m <= Len(s), EndsWith(s, p, m)
    PROVE  EndsWith(s, p, k) <=> EndsWith(SubSeq(p, 1, m), p, k)
<1> DEFINE q == SubSeq(p, 1, m)
<1>1. Len(q) = m /\ \A i \in 1..m : q[i] = p[i]
  OBVIOUS
<1> HIDE DEF q
<1>2. ASSUME NEW i \in 1..k PROVE s[Len(s) - k + i] = q[Len(q) - k + i]
  <2>1. m - k + i \in 1..m /\ Len(s) - m + (m - k + i) = Len(s) - k + i
    OBVIOUS
  <2>2. s[Len(s) - m + (m - k + i)] = p[m - k + i]
    BY <2>1 DEF EndsWith
  <2> QED BY <1>1, <2>1, <2>2
<1> QED BY <1>2 DEF EndsWith, q

(* s ends with m bytes of p, and with no more of them, all included.        *)
Longest(s, p, m) ==
    /\ m < Len(p) /\ m <= Len(s) /\ EndsWith(s, p, m)
    /\ \A k \in m + 1 .. Len(p) : k <= Len(s) => ~EndsWith(s, p, k)

(* What one more byte does: the candidates of the overlap loop, and the     *)
(* match that simply goes on, are all the ways to end with a part of p.     *)
LEMMA OneMoreByte ==
    ASSUME NEW s \in Seq(Byte), NEW c \in Byte, NEW p \in Seq(Byte), NEW m \in Nat,
           Longest(s, p, m), NEW k \in 1..Len(p), k <= Len(s) + 1
    PROVE  EndsWith(Append(s, c), p, k) <=>
             p[k] = c /\ k - 1 <= m /\ EndsWith(SubSeq(p, 1, m), p, k - 1)
<1>0. Len(p) \in Nat /\ Len(s) \in Nat /\ k \in Nat
  OBVIOUS
<1>1. EndsWith(Append(s, c), p, k) <=> p[k] = c /\ EndsWith(s, p, k - 1)
  BY AppendEnds
<1>2. CASE k - 1 <= m
  <2>1. k - 1 \in 0..m /\ m <= Len(p) /\ m <= Len(s) /\ EndsWith(s, p, m)
    BY <1>0, <1>2 DEF Longest
  <2>2. EndsWith(s, p, k - 1) <=> EndsWith(SubSeq(p, 1, m), p, k - 1)
    BY <2>1, EndsWithin
  <2> QED BY <1>1, <1>2, <2>2
<1>3. CASE ~(k - 1 <= m)
  <2>1. k - 1 \in m + 1 .. Len(p) /\ k - 1 <= Len(s)
    BY <1>0, <1>3
  <2>2. ~EndsWith(s, p, k - 1)
    BY <2>1 DEF Longest
  <2> QED BY <1>1, <1>3, <2>2
<1> QED BY <1>2, <1>3

(* The longest match after a byte that continues the match.                 *)
LEMMA Continued ==
    ASSUME NEW s \in Seq(Byte), NEW c \in Byte, NEW p \in Seq(Byte), NEW m \in Nat,
           Longest(s, p, m), c = p[m + 1]
    PROVE  /\ EndsWith(Append(s, c), p, m + 1)
           /\ m + 1 # Len(p) => Longest(Append(s, c), p, m + 1)
<1> DEFINE t == Append(s, c)
<1>1. t \in Seq(Byte) /\ Len(t) = Len(s) + 1
  OBVIOUS
<1>2. Len(p) \in Nat /\ Len(s) \in Nat /\ m < Len(p) /\ m <= Len(s)
  BY DEF Longest
<1>3. EndsWith(t, p, m + 1)
  <2>1. m + 1 \in 1..Len(p) /\ m + 1 <= Len(s) + 1 /\ (m + 1) - 1 = m
    BY <1>2
  <2>2. EndsWith(s, p, m)
    BY DEF Longest
  <2> QED BY <2>1, <2>2, AppendEnds
<1>4. ASSUME NEW k \in m + 2 .. Len(p), k <= Len(t) PROVE ~EndsWith(t, p, k)
  <2>1. k \in 1..Len(p) /\ k <= Len(s) + 1 /\ ~(k - 1 <= m)
    BY <1>1, <1>2, <1>4
  <2> QED BY <2>1, OneMoreByte
<1> HIDE DEF t
<1>5. ASSUME m + 1 # Len(p) PROVE Longest(t, p, m + 1)
  <2>1. m + 1 < Len(p) /\ m + 1 <= Len(t) /\ (m + 1) + 1 = m + 2
    BY <1>1, <1>2, <1>5
  <2> QED BY <1>3, <1>4, <2>1 DEF Longest
<1> QED BY <1>3, <1>5 DEF t

(* The candidates of the overlap loop for a pattern p and progress m.       *)
Candidates(p, m, c) ==
    {0} \cup {keep \in 1..m : c = p[keep] /\ EndsWith(SubSeq(p, 1, m), p, keep - 1)}

(* The longest match after a byte that does not continue it.                *)
LEMMA Fallback ==
    ASSUME NEW s \in Seq(Byte), NEW c \in Byte, NEW p \in Seq(Byte), NEW m \in Nat,
           Longest(s, p, m), c # p[m + 1],
           NEW n \in Candidates(p, m, c), \A k \in Candidates(p, m, c) : k <= n
    PROVE  n \in Nat /\ Longest(Append(s, c), p, n)
<1> DEFINE t == Append(s, c)
<1>1. t \in Seq(Byte) /\ Len(t) = Len(s) + 1
  OBVIOUS
<1>2. Len(p) \in Nat /\ Len(s) \in Nat /\ m < Len(p) /\ m <= Len(s)
  BY DEF Longest
<1>3. n \in 0..m
  BY DEF Candidates
<1>4. EndsWith(t, p, n)
  <2>1. CASE n = 0
    BY <2>1 DEF EndsWith
  <2>2. CASE n # 0
    <3>1. n \in 1..m /\ c = p[n] /\ EndsWith(SubSeq(p, 1, m), p, n - 1)
      BY <2>2 DEF Candidates
    <3>2. n \in 1..Len(p) /\ n <= Len(s) + 1 /\ n - 1 <= m
      BY <1>2, <3>1
    <3> QED BY <3>1, <3>2, OneMoreByte
  <2> QED BY <2>1, <2>2
<1>5. ASSUME NEW k \in n + 1 .. Len(p), k <= Len(t), EndsWith(t, p, k) PROVE FALSE
  <2>1. k \in 1..Len(p) /\ k <= Len(s) + 1
    BY <1>1, <1>2, <1>3, <1>5
  <2>2. p[k] = c /\ k - 1 <= m /\ EndsWith(SubSeq(p, 1, m), p, k - 1)
    BY <1>5, <2>1, OneMoreByte
  <2>3. k # m + 1
    BY <2>2
  <2>4. k \in 1..m
    BY <1>2, <2>1, <2>2, <2>3
  <2>5. k \in Candidates(p, m, c)
    BY <2>2, <2>4 DEF Candidates
  <2> QED BY <1>3, <1>5, <2>5
<1> HIDE DEF t
<1>6. n < Len(p) /\ n <= Len(t)
  BY <1>1, <1>2, <1>3
<1> QED BY <1>3, <1>4, <1>5, <1>6 DEF t, Longest

(* Dropping the oldest byte keeps the longest match.                        *)
LEMMA RecentLongest ==
    ASSUME NEW s \in Seq(Byte), NEW p \in Pattern, NEW m \in Nat,
           Longest(s, p, m), Len(s) <= Window + 1
    PROVE  Longest(Recent(s), p, m)
<1>1. p \in Seq(Byte) /\ Len(p) \in Nat /\ Len(s) \in Nat /\ Window \in Nat /\ Len(p) <= Window
  BY SyncAssumption
<1>2. m < Len(p) /\ m <= Len(s)
  BY DEF Longest
<1>3. Len(Recent(s)) <= Len(s)
  BY <1>1 DEF Recent
<1>4. m <= Len(Recent(s)) /\ EndsWith(Recent(s), p, m)
  BY <1>1, <1>2, RecentEnds DEF Longest
<1>5. ASSUME NEW k \in m + 1 .. Len(p), k <= Len(Recent(s)) PROVE ~EndsWith(Recent(s), p, k)
  <2>1. k \in Nat /\ k <= Window /\ k <= Len(s)
    BY <1>1, <1>3, <1>5
  <2>2. ~EndsWith(s, p, k)
    BY <2>1 DEF Longest
  <2> QED BY <2>1, <2>2, RecentEnds
<1> QED BY <1>2, <1>4, <1>5 DEF Longest

(* The inductive invariant: an open search knows the longest match, a       *)
(* closed one has seen the pattern and stores no progress.                  *)
Open   == result # "found" => Longest(taken, pat, Progress)
Closed == result = "found" =>
            /\ pc = "ready" /\ sync_idx = 0
            /\ Len(pat) <= Len(taken) /\ EndsWith(taken, pat, Len(pat))

SyncInv == TypeOK /\ Open /\ Closed

LEMMA PatternFacts ==
    ASSUME NEW p \in Pattern
    PROVE  p \in Seq(Byte) /\ Len(p) \in Nat \ {0} /\ Len(p) <= Window
<1>1. p \in Seq(Byte) /\ p # <<>> /\ Len(p) <= Window
  BY SyncAssumption
<1>2. Len(p) # 0
  BY <1>1
<1> QED BY <1>1, <1>2

(* Before its first byte a search has matched nothing.                      *)
LEMMA NothingSeen ==
    ASSUME NEW p \in Pattern
    PROVE  Longest(<<>>, p, 0)
<1>1. Len(p) \in Nat \ {0} /\ Len(<<>>) = 0
  BY PatternFacts
<1> QED BY <1>1 DEF Longest, EndsWith

LEMMA RecentType ==
    ASSUME NEW s \in Seq(Byte), Len(s) <= Window + 1
    PROVE  Recent(s) \in Seq(Byte) /\ Len(Recent(s)) <= Window
<1>1. Window \in Nat /\ Len(s) \in Nat
  BY SyncAssumption
<1>2. CASE Len(s) <= Window
  BY <1>2 DEF Recent
<1>3. CASE ~(Len(s) <= Window)
  <2>1. s # <<>>
    BY <1>1, <1>3
  <2>2. Tail(s) \in Seq(Byte) /\ Len(Tail(s)) = Len(s) - 1
    BY <2>1
  <2> QED BY <1>1, <1>3, <2>2 DEF Recent
<1> QED BY <1>2, <1>3

LEMMA Initially == Init => SyncInv
<1> SUFFICES ASSUME Init PROVE SyncInv
  OBVIOUS
<1>1. Longest(<<>>, pat, 0)
  BY NothingSeen DEF Init
<1>2. TypeOK
  <2>1. <<>> \in Seq(Byte) /\ Len(<<>>) = 0 /\ Window \in Nat /\ RxSize \in Nat
    BY SyncAssumption
  <2>2. rx = <<>> /\ taken = <<>>
    BY DEF Init
  <2>3. rx \in Seq(Byte) /\ Len(rx) <= RxSize /\ taken \in Seq(Byte) /\ Len(taken) <= Window
    BY <2>1, <2>2
  <2> QED BY <2>3 DEF Init, TypeOK
<1>3. Progress = 0 /\ taken = <<>> /\ result = "none"
  BY DEF Init, Progress
<1>4. Open
  BY <1>1, <1>3 DEF Open
<1>5. Closed
  BY <1>3 DEF Closed
<1> QED BY <1>2, <1>4, <1>5 DEF SyncInv

(* The buffer after the interrupt handler or a reader.                      *)
LEMMA BufferStep ==
    ASSUME TypeOK
    PROVE  /\ \A b \in Byte : Push(b) => rx' \in Seq(Byte) /\ Len(rx') <= RxSize
           /\ \A n \in 1..RxSize : ReceiveData(n) => rx' \in Seq(Byte) /\ Len(rx') <= RxSize
           /\ rx # <<>> => /\ Head(rx) \in Byte /\ Tail(rx) \in Seq(Byte)
                           /\ Len(Tail(rx)) <= RxSize
<1>0. rx \in Seq(Byte) /\ Len(rx) <= RxSize /\ Len(rx) \in Nat /\ RxSize \in Nat
  BY SyncAssumption DEF TypeOK
<1>1. ASSUME NEW b \in Byte, Push(b) PROVE rx' \in Seq(Byte) /\ Len(rx') <= RxSize
  <2>1. Append(rx, b) \in Seq(Byte) /\ Len(Append(rx, b)) = Len(rx) + 1
    BY <1>0
  <2> QED BY <1>0, <1>1, <2>1 DEF Push
<1>2. ASSUME NEW n \in 1..RxSize, ReceiveData(n) PROVE rx' \in Seq(Byte) /\ Len(rx') <= RxSize
  <2>1. rx' = SubSeq(rx, n + 1, Len(rx)) /\ n <= Len(rx) /\ n \in Nat
    BY <1>0, <1>2 DEF ReceiveData
  <2>2. SubSeq(rx, n + 1, Len(rx)) \in Seq(Byte)
        /\ Len(SubSeq(rx, n + 1, Len(rx))) = Len(rx) - n
    BY <1>0, <2>1
  <2> QED BY <1>0, <2>1, <2>2
<1>3. ASSUME rx # <<>>
      PROVE  Head(rx) \in Byte /\ Tail(rx) \in Seq(Byte) /\ Len(Tail(rx)) <= RxSize
  <2>1. Head(rx) \in Byte /\ Tail(rx) \in Seq(Byte) /\ Len(Tail(rx)) = Len(rx) - 1
    BY <1>0, <1>3
  <2> QED BY <1>0, <2>1
<1> QED BY <1>1, <1>2, <1>3

(* One byte of a running call.                                              *)
LEMMA ByteStep ==
    ASSUME SyncInv, SyncByte
    PROVE  SyncInv'
<1> DEFINE c == Head(rx)
           t == Append(taken, c)
<1>1. c \in Byte /\ Tail(rx) \in Seq(Byte) /\ Len(Tail(rx)) <= RxSize
  BY BufferStep DEF SyncInv, SyncByte
<1>2. pat \in Pattern /\ pat \in Seq(Byte) /\ Len(pat) \in Nat \ {0} /\ Len(pat) <= Window
  BY PatternFacts DEF SyncInv, TypeOK
<1>3. Longest(taken, pat, match_idx) /\ result # "found" /\ pc = "sync"
  BY DEF SyncInv, Open, Closed, Progress, SyncByte
<1>4. /\ taken \in Seq(Byte) /\ Len(taken) \in Nat /\ Len(taken) <= Window
      /\ match_idx \in Nat /\ sync_idx \in Nat /\ expired \in BOOLEAN /\ switching \in Habit
      /\ result \in {"none", "found", "timeout"}
  BY DEF SyncInv, TypeOK
<1>5. t \in Seq(Byte) /\ Len(t) = Len(taken) + 1 /\ Len(t) <= Window + 1 /\ Len(t) \in Nat
  BY <1>1, <1>4, SyncAssumption
<1>6. /\ rx' = Tail(rx) /\ taken' = Recent(t) /\ pat' = pat /\ expired' = expired
      /\ switching' = switching /\ Search(c)
  BY DEF SyncByte
<1>7. Recent(t) \in Seq(Byte) /\ Len(Recent(t)) <= Window
  BY <1>5, RecentType
<1>8. CASE c = pat[match_idx + 1] /\ match_idx + 1 = Len(pat)
  <2>1. /\ sync_idx' = 0 /\ match_idx' = 0 /\ pc' = "ready" /\ result' = "found"
    BY <1>6, <1>8 DEF Search, Found
  <2>2. EndsWith(t, pat, Len(pat))
    BY <1>1, <1>2, <1>3, <1>4, <1>8, Continued
  <2>3. match_idx <= Len(taken)
    BY <1>3 DEF Longest
  <2>4. Len(pat) <= Len(t)
    BY <1>4, <1>5, <1>8, <2>3
  <2>5. Len(pat) <= Len(Recent(t)) /\ EndsWith(Recent(t), pat, Len(pat))
    BY <1>2, <1>5, <2>2, <2>4, RecentEnds
  <2>6. TypeOK'
    BY <1>1, <1>2, <1>4, <1>6, <1>7, <2>1 DEF TypeOK
  <2> QED BY <1>6, <2>1, <2>5, <2>6 DEF SyncInv, Open, Closed
<1>9. ASSUME match_idx' \in Nat, Longest(t, pat, match_idx'), UNCHANGED <<sync_idx, pc, result>>
      PROVE  SyncInv'
  <2>1. Longest(Recent(t), pat, match_idx')
    BY <1>2, <1>5, <1>9, RecentLongest
  <2>2. TypeOK'
    BY <1>1, <1>2, <1>3, <1>4, <1>6, <1>7, <1>9 DEF TypeOK
  <2> QED BY <1>3, <1>6, <1>9, <2>1, <2>2 DEF SyncInv, Open, Closed, Progress
<1>10. CASE c = pat[match_idx + 1] /\ match_idx + 1 # Len(pat)
  <2>1. match_idx' = match_idx + 1 /\ UNCHANGED <<sync_idx, pc, result>>
    BY <1>6, <1>10 DEF Search
  <2>2. Longest(t, pat, match_idx + 1)
    BY <1>1, <1>2, <1>3, <1>4, <1>10, Continued
  <2>3. match_idx + 1 \in Nat
    BY <1>4
  <2> QED BY <1>9, <2>1, <2>2, <2>3
<1>11. CASE c # pat[match_idx + 1]
  <2>1. Mismatch(c) /\ UNCHANGED <<sync_idx, pc, result>>
    BY <1>6, <1>11 DEF Search
  <2>2. Overlaps(c) = Candidates(pat, match_idx, c)
    BY DEF Overlaps, Candidates
  <2>3. PICK n \in Candidates(pat, match_idx, c) :
           (\A k \in Candidates(pat, match_idx, c) : k <= n) /\ match_idx' = n
    BY <2>1, <2>2 DEF Mismatch
  <2>4. n \in Nat /\ Longest(t, pat, n)
    BY <1>1, <1>2, <1>3, <1>4, <1>11, <2>3, Fallback
  <2> QED BY <1>9, <2>1, <2>3, <2>4
<1> QED BY <1>8, <1>10, <1>11

(* A call starts: it goes on with the stored progress, or afresh.           *)
LEMMA ReaderStep ==
    ASSUME SyncInv, ~switching, NEW p \in Pattern, SyncCall(p)
    PROVE  SyncInv'
<1>1. /\ pc = "ready" /\ pc' = "sync" /\ pat' = p /\ match_idx' = sync_idx
      /\ result' = "none" /\ sync_idx' = sync_idx /\ rx' = rx /\ expired' = FALSE
      /\ switching' = switching
      /\ p = pat \/ sync_idx = 0
      /\ taken' = IF result = "found" \/ p # pat THEN <<>> ELSE taken
  BY DEF SyncCall
<1>2. TypeOK'
  <2>1. <<>> \in Seq(Byte) /\ Len(<<>>) = 0 /\ Window \in Nat
    BY SyncAssumption
  <2>2. taken \in Seq(Byte) /\ Len(taken) <= Window
    BY DEF SyncInv, TypeOK
  <2>3. taken' \in Seq(Byte) /\ Len(taken') <= Window
    BY <1>1, <2>1, <2>2
  <2> QED BY <1>1, <2>3 DEF SyncInv, TypeOK
<1>3. CASE result = "found" \/ p # pat
  <2>1. taken' = <<>> /\ sync_idx = 0
    BY <1>1, <1>3 DEF SyncInv, Closed
  <2> QED BY <1>1, <1>2, <2>1, NothingSeen DEF SyncInv, Open, Closed, Progress
<1>4. CASE ~(result = "found" \/ p # pat)
  BY <1>1, <1>2, <1>4 DEF SyncInv, Open, Closed, Progress
<1> QED BY <1>3, <1>4

LEMMA Preserved == SyncInv /\ ~switching /\ [Next]_vars => SyncInv'
<1> SUFFICES ASSUME SyncInv, ~switching, [Next]_vars PROVE SyncInv'
  OBVIOUS
<1>0. TypeOK
  BY DEF SyncInv
<1>1. ASSUME NEW b \in Byte, Push(b) PROVE SyncInv'
  <2>1. rx' \in Seq(Byte) /\ Len(rx') <= RxSize /\ UNCHANGED <<call, taken>>
    BY <1>0, <1>1, BufferStep DEF Push
  <2> QED BY <2>1 DEF SyncInv, TypeOK, Open, Closed, Progress, call
<1>2. ASSUME NEW p \in Pattern, SyncCall(p) PROVE SyncInv'
  BY <1>2, ReaderStep
<1>3. CASE Expire
  BY <1>3 DEF Expire, SyncInv, TypeOK, Open, Closed, Progress
<1>4. CASE SyncByte
  BY <1>4, ByteStep
<1>5. CASE SyncBeyond
  <2>1. pc = "sync" /\ match_idx >= Len(pat)
    BY <1>5 DEF SyncBeyond
  <2>2. match_idx < Len(pat) /\ match_idx \in Nat /\ pat \in Pattern
    BY <2>1 DEF SyncInv, TypeOK, Open, Closed, Progress, Longest
  <2>3. Len(pat) \in Nat
    BY <2>2, PatternFacts
  <2> QED BY <2>1, <2>2, <2>3
<1>6. CASE SyncTimeout
  BY <1>6 DEF SyncTimeout, SyncInv, TypeOK, Open, Closed, Progress
<1>7. ASSUME NEW n \in 1..RxSize, ReceiveData(n) PROVE SyncInv'
  <2>1. /\ rx' \in Seq(Byte) /\ Len(rx') <= RxSize
        /\ pc = "ready" /\ sync_idx = 0 /\ taken' = <<>> /\ result' = "none"
        /\ UNCHANGED <<sync_idx, match_idx, pat, pc, expired, switching>>
    BY <1>0, <1>7, BufferStep DEF ReceiveData
  <2>2. pat \in Pattern
    BY DEF SyncInv, TypeOK
  <2> QED BY <2>1, <2>2, NothingSeen, SyncAssumption DEF SyncInv, TypeOK, Open, Closed, Progress
<1>8. CASE ReceiveClear
  <2>1. /\ pc = "ready" /\ sync_idx' = 0 /\ rx' = <<>> /\ taken' = <<>> /\ result' = "none"
        /\ UNCHANGED <<match_idx, pat, pc, expired, switching>>
    BY <1>8 DEF ReceiveClear
  <2>2. pat \in Pattern
    BY DEF SyncInv, TypeOK
  <2> QED BY <2>1, <2>2, NothingSeen, SyncAssumption DEF SyncInv, TypeOK, Open, Closed, Progress
<1>9. CASE UNCHANGED vars
  BY <1>9 DEF vars, SyncInv, TypeOK, Open, Closed, Progress
<1> QED BY <1>1, <1>2, <1>3, <1>4, <1>5, <1>6, <1>7, <1>8, <1>9 DEF Next

(* A caller keeps its habit.                                                *)
LEMMA HabitKept == [Next]_vars => switching' = switching
  BY DEF Next, vars, call, Push, SyncCall, Expire, SyncByte, SyncBeyond, SyncTimeout,
         ReceiveData, ReceiveClear

LEMMA SyncInvariant == Spec => [](switching \/ SyncInv)
<1>1. Init => switching \/ SyncInv
  BY Initially
<1>2. (switching \/ SyncInv) /\ [Next]_vars => (switching \/ SyncInv)'
  BY Preserved, HabitKept
<1> QED BY <1>1, <1>2, PTL DEF Spec

(* uni_hal_io_receive_sync: the progress it keeps inside a call and in      *)
(* sync_idx between calls is the longest match, for any patterns and any    *)
(* arrival of bytes.                                                        *)
THEOREM ProgressIsLongest == Spec => []MatchIsLongest
<1>1. switching \/ SyncInv => MatchIsLongest
  <2> SUFFICES ASSUME switching \/ SyncInv, ~switching, result # "found" PROVE
        /\ Progress < Len(pat) /\ Progress <= Len(taken)
        /\ EndsWith(taken, pat, Progress)
        /\ \A k \in Progress + 1 .. Len(pat) - 1 :
              k <= Len(taken) => ~EndsWith(taken, pat, k)
    BY DEF MatchIsLongest
  <2>1. Longest(taken, pat, Progress) /\ pat \in Pattern
    BY DEF SyncInv, Open, TypeOK
  <2>2. Len(pat) \in Nat
    BY <2>1, PatternFacts
  <2>3. Progress \in Nat
    BY DEF SyncInv, TypeOK, Progress
  <2>4. ASSUME NEW k \in Progress + 1 .. Len(pat) - 1 PROVE k \in Progress + 1 .. Len(pat)
    BY <2>2, <2>3
  <2> QED BY <2>1, <2>4 DEF Longest
<1>2. Spec => [](switching \/ SyncInv)
  BY SyncInvariant
<1> QED BY <1>1, <1>2, PTL

(* A call that returns true has just consumed the pattern.                  *)
THEOREM FoundIsReal == Spec => []KeptPatternFound
<1>1. switching \/ SyncInv => KeptPatternFound
  BY DEF SyncInv, Closed, FoundMeansFound, KeptPatternFound
<1>2. Spec => [](switching \/ SyncInv)
  BY SyncInvariant
<1> QED BY <1>1, <1>2, PTL

(* A call never reads past an occurrence of the pattern.                    *)
THEOREM NoOccurrenceMissed == Spec => []NothingMissed
<1>1. switching \/ SyncInv => NothingMissed
  <2> SUFFICES ASSUME switching \/ SyncInv, ~switching, result # "found", Len(pat) <= Len(taken)
               PROVE  ~EndsWith(taken, pat, Len(pat))
    BY DEF NothingMissed
  <2>1. Longest(taken, pat, Progress) /\ pat \in Pattern /\ Progress \in Nat
    BY DEF SyncInv, Open, TypeOK, Progress
  <2>2. Len(pat) \in Nat /\ Progress < Len(pat)
    BY <2>1, PatternFacts DEF Longest
  <2>3. Len(pat) \in Progress + 1 .. Len(pat)
    BY <2>1, <2>2
  <2> QED BY <2>1, <2>3 DEF Longest
<1>2. Spec => [](switching \/ SyncInv)
  BY SyncInvariant
<1> QED BY <1>1, <1>2, PTL

--------------------------------------------------------------------------------
(***************************************************************************)
(* CanBus: the states of the bus an application is told.                   *)
(***************************************************************************)
(* The specification of the status of the CAN bus. *)
BusSpec == BusInit /\ [][BusNext]_busVars

(* A bit that told has wrong waits in the flags, or in those the handler took. *)
Waits(b) == b \in ir \cup seen

(* The application has been told of an error state that is not active. *)
ToldPassive == told \in {"PASSIVE", "BUS_OFF"}

(* Of each of the two bits, the last report is right or its flag waits. *)
BitsTold ==
    /\ ~(ToldPassive <=> error_state \in {"passive", "busoff"}) => Waits("EP")
    /\ ~(told = "BUS_OFF" <=> error_state = "busoff") => Waits("BO")

(* A node that left the bus is reported so before it is reported back: the flag of *)
(* its recovery is never behind one of the passive state alone.                    *)
BusOffTold ==
    told = "BUS_OFF" =>
        /\ "EP" \in seen => "BO" \in seen
        /\ "EP" \in ir => Waits("BO")
        /\ error_state # "busoff" => {"EP", "BO"} \subseteq seen \/ {"EP", "BO"} \subseteq ir

(* What the FDCAN handler has not told yet, it has a flag for. *)
BusOnBooks ==
    /\ bus_irq \in {"idle", "state"}
    /\ bus_irq = "idle" => seen = {}
    /\ BitsTold /\ BusOffTold
    /\ error_state = "busoff" /\ "EP" \in ir => "BO" \in ir

(* The inductive invariant of the bus status. *)
BusInv ==
    /\ BusTypeOK /\ bus_h7 \in BOOLEAN /\ auto_bus_off \in BOOLEAN
    /\ bus_h7 => BusOnBooks

(* Every action changes the flags the one way a change of the node does, or leaves the node. *)
LEMMA BusTypeStep ==
    ASSUME BusTypeOK, bus_h7 \in BOOLEAN, auto_bus_off \in BOOLEAN, [BusNext]_busVars
    PROVE  BusTypeOK' /\ bus_h7' \in BOOLEAN /\ auto_bus_off' \in BOOLEAN
<1>. USE DEF BusTypeOK, taskVars, busFixed, nodeVars
<1>1. CASE CountersMove
  BY <1>1 DEF CountersMove, ErrorState, Changed, Bits
<1>2. CASE GoesBusOff
  BY <1>2 DEF GoesBusOff, ErrorState, Changed, Bits
<1>3. CASE Recovers
  BY <1>3 DEF Recovers, ErrorState, Changed, Bits
<1>4. CASE Joins
  BY <1>4 DEF Joins
<1>5. CASE Follows
  BY <1>5 DEF Follows
<1>6. CASE IrqEnterH7
  BY <1>6 DEF IrqEnterH7
<1>7. CASE IrqErrorH7
  BY <1>7 DEF IrqErrorH7, Reported, Reports
<1>8. CASE IrqReadL4
  BY <1>8 DEF IrqReadL4, Bits
<1>9. CASE IrqErrorL4
  BY <1>9 DEF IrqErrorL4, Reported, Reports
<1>10. CASE BusStart \/ Stop
  BY <1>10 DEF BusStart, Stop, Call
<1>11. CASE StartDone \/ WaitOff \/ WaitOffTimeout
  BY <1>11, ZenonT(30) DEF StartDone, WaitOff, WaitOffTimeout, BusReturn
<1>12. CASE StartFails
  BY <1>12 DEF StartFails, ModeInit
<1>13. CASE UNCHANGED busVars
  BY <1>13 DEF busVars
<1>. QED  BY <1>1, <1>2, <1>3, <1>4, <1>5, <1>6, <1>7, <1>8, <1>9, <1>10, <1>11, <1>12, <1>13
          DEF BusNext

(* FDCAN: a change of the error state raises the flags of the bits it changes, and a node *)
(* enters bus-off from the passive state only and leaves it for the active one.           *)
LEMMA NodeChanges ==
    ASSUME BusTypeOK, BusOnBooks,
           NEW s \in {"active", "warning", "passive", "busoff"}, bus_h7, ErrorState(s),
           error_state = "busoff" => s = "active", s = "busoff" => error_state = "passive"
    PROVE  BusOnBooks'
<1>1. /\ error_state' = s /\ UNCHANGED <<bus_irq, seen, told, bus_h7>>
      /\ ir \subseteq ir'
  BY DEF ErrorState, busFixed
<1>2. /\ (error_state \in {"passive", "busoff"}) # (s \in {"passive", "busoff"}) => "EP" \in ir'
      /\ (error_state = "busoff") # (s = "busoff") => "BO" \in ir'
  BY DEF ErrorState, Changed, Bits, BusTypeOK
<1>3. /\ "EP" \in ir' \ ir =>
            (error_state \in {"passive", "busoff"}) # (s \in {"passive", "busoff"})
      /\ "BO" \in ir' \ ir => (error_state = "busoff") # (s = "busoff")
  BY DEF ErrorState, Changed, Bits, BusTypeOK
<1>. QED  BY <1>1, <1>2, <1>3 DEF BusOnBooks, BitsTold, BusOffTold, Waits, ToldPassive

(* FDCAN: the report of the handler is right, or a flag that came after it waits. *)
LEMMA HandlerTells ==
    ASSUME BusTypeOK, BusOnBooks, bus_h7, IrqErrorH7
    PROVE  BusOnBooks'
<1>. DEFINE shows(b) == b \in Bits(error_state)
<1>1. /\ shows("BO") <=> error_state = "busoff"
      /\ shows("EP") <=> error_state \in {"passive", "busoff"}
  BY DEF BusTypeOK, Bits
<1>2. /\ bus_irq = "state" /\ bus_irq' = "idle" /\ seen' = {}
      /\ UNCHANGED <<error_state, ir, bus_h7>>
      /\ told' = Reports(seen, Bits(error_state))
  BY DEF IrqErrorH7, Reported, busFixed
<1>3. CASE "BO" \in seen /\ shows("BO")
  <2>1. told' = "BUS_OFF"
    BY <1>2, <1>3 DEF Reports
  <2>. QED  BY <1>1, <1>2, <1>3, <2>1 DEF BusOnBooks, BitsTold, BusOffTold, Waits, ToldPassive
<1>4. CASE ~("BO" \in seen /\ shows("BO")) /\ "EP" \in seen /\ shows("EP")
  <2>1. told' = "PASSIVE"
    BY <1>2, <1>4 DEF Reports
  <2>. QED  BY <1>1, <1>2, <1>4, <2>1 DEF BusOnBooks, BitsTold, BusOffTold, Waits, ToldPassive
<1>5. CASE ("EP" \in seen \/ "BO" \in seen) /\ ~shows("EP")
  <2>1. told' = "RECOVERED"
    BY <1>1, <1>2, <1>5 DEF Reports
  <2>. QED  BY <1>1, <1>2, <1>5, <2>1 DEF BusOnBooks, BitsTold, BusOffTold, Waits, ToldPassive
<1>6. CASE /\ ~("BO" \in seen /\ shows("BO")) /\ ~("EP" \in seen /\ shows("EP"))
           /\ ~(("EP" \in seen \/ "BO" \in seen) /\ ~shows("EP"))
  <2>1. told' = told
    BY <1>1, <1>2, <1>6 DEF Reports
  <2>2. "BO" \in seen => error_state = "passive" /\ "EP" \notin seen
    BY <1>1, <1>6
  <2>. QED  BY <1>1, <1>2, <1>6, <2>1, <2>2
            DEF BusOnBooks, BitsTold, BusOffTold, Waits, ToldPassive, BusTypeOK
<1>. QED  BY <1>3, <1>4, <1>5, <1>6

(* Every step keeps it. *)
LEMMA BusStep == BusInv /\ [BusNext]_busVars => BusInv'
<1> SUFFICES ASSUME BusInv, [BusNext]_busVars PROVE BusInv'
  OBVIOUS
<1>1. BusTypeOK' /\ bus_h7' \in BOOLEAN /\ auto_bus_off' \in BOOLEAN
  BY BusTypeStep DEF BusInv
<1>2. ASSUME bus_h7' PROVE BusOnBooks'
  <2>. USE DEF taskVars, busFixed, nodeVars
  <2>1. bus_h7
    BY <1>2 DEF BusNext, busVars, CountersMove, GoesBusOff, Recovers, Joins, Follows, IrqEnterH7,
       IrqErrorH7, IrqReadL4, IrqErrorL4, BusStart, StartDone, StartFails, Stop, WaitOff,
       WaitOffTimeout, ErrorState, Call, BusReturn
  <2>2. BusTypeOK /\ BusOnBooks
    BY <2>1 DEF BusInv
  <2>3. CASE CountersMove
    BY <2>1, <2>2, <2>3, NodeChanges DEF CountersMove
  <2>4. CASE GoesBusOff
    BY <2>1, <2>2, <2>4, NodeChanges DEF GoesBusOff
  <2>5. CASE Recovers
    BY <2>1, <2>2, <2>5, NodeChanges DEF Recovers
  <2>6. CASE IrqEnterH7
    BY <2>2, <2>6 DEF IrqEnterH7, BusOnBooks, BitsTold, BusOffTold, Waits, ToldPassive
  <2>7. CASE IrqErrorH7
    BY <2>1, <2>2, <2>7, HandlerTells
  <2>8. CASE Follows \/ IrqReadL4 \/ IrqErrorL4
    BY <2>1, <2>2, <2>8 DEF Follows, IrqReadL4, IrqErrorL4, BusOnBooks
  <2>9. CASE UNCHANGED <<bus_h7, error_state, ir, seen, bus_irq, told>>
    BY <2>2, <2>9 DEF BusOnBooks, BitsTold, BusOffTold, Waits, ToldPassive
  <2>10. CASE Joins \/ BusStart \/ StartDone \/ StartFails \/ Stop \/ WaitOff \/ WaitOffTimeout
    BY <2>9, <2>10 DEF Joins, BusStart, StartDone, StartFails, Stop, WaitOff, WaitOffTimeout,
                       Call, BusReturn
  <2>. QED  BY <2>3, <2>4, <2>5, <2>6, <2>7, <2>8, <2>9, <2>10 DEF BusNext, busVars
<1>. QED  BY <1>1, <1>2 DEF BusInv

(* What the error callback was told last is the state of the node. *)
THEOREM LastReportIsState == BusSpec => []ToldIsState
<1>1. BusInit => BusInv
  <2> SUFFICES ASSUME BusInit PROVE BusInv
    OBVIOUS
  <2>1. BusTypeOK /\ bus_h7 \in BOOLEAN /\ auto_bus_off \in BOOLEAN
    BY DEF BusInit, BusTypeOK
  <2>2. BitsTold /\ BusOffTold
    BY DEF BusInit, BitsTold, BusOffTold, ToldPassive
  <2>. QED  BY <2>1, <2>2 DEF BusInit, BusInv, BusOnBooks
<1>2. BusInv => ToldIsState
  BY DEF BusInv, BusTypeOK, BusOnBooks, BitsTold, Waits, ToldPassive, ToldIsState, BusStatus
<1>. QED  BY <1>1, <1>2, BusStep, PTL DEF BusSpec

--------------------------------------------------------------------------------
(***************************************************************************)
(* CanRx: the frames that arrive, and the two queues they wait in.         *)
(***************************************************************************)
(* The specification of the receive path. *)
RxSpec == RxInit /\ [][RxNext]_rxVars

(* Frames in the order they arrived. *)
Increasing(s) == \A i, j \in DOMAIN s : i < j => s[i] < s[j]

(* The frames of a FIFO came that way, in this order, after those that left it. *)
FifosInOrder ==
    \A f \in Fifos :
        /\ Increasing(fifo[f])
        /\ \A i \in DOMAIN fifo[f] : route[fifo[f][i]] = f
        /\ \A i \in DOMAIN fifo[f], j \in DOMAIN Got :
               route[Got[j]] = f => Got[j] < fifo[f][i]

(* The numbers of the frames, and where they are. *)
RxPlaced ==
    /\ arrived \in Nat /\ route \in Seq(Fifos) /\ Len(route) = arrived
    /\ fifo \in [Fifos -> Seq(1..arrived)]
    /\ queue \in Seq(1..arrived) /\ read \in Seq(1..arrived)
    /\ FifosInOrder

(* Frames of one FIFO are got in the order they arrived. *)
GotInOrder ==
    \A i, j \in DOMAIN Got : i < j /\ route[Got[i]] = route[Got[j]] => Got[i] < Got[j]

(* The counters count the frames got and dropped, and a loss beyond them is flagged. *)
RxCounted ==
    /\ count_rx = Len(Got) /\ told_dropped = count_rx_dropped /\ count_rx_dropped \in Nat
    /\ Cardinality(Gone) >= count_rx_dropped
    /\ Cardinality(Gone) > count_rx_dropped =>
           \E f \in told_overrun \cup full_flag : \E n \in Gone : route[n] = f

(* The inductive invariant of the receive path. *)
RxInv == RxPlaced /\ GotInOrder /\ RxCounted

(* A frame at the end of the queue is the last one to be got. *)
LEMMA QueueEnd ==
    ASSUME NEW S, NEW r \in Seq(S), NEW q \in Seq(S), NEW n \in S
    PROVE  r \o Append(q, n) = Append(r \o q, n)
<1>1. r \o q \in Seq(S) /\ <<n>> \in Seq(S)
  BY ConcatProperties
<1>2. Append(q, n) = q \o <<n>> /\ Append(r \o q, n) = (r \o q) \o <<n>>
  BY <1>1, AppendIsConcat
<1>. QED  BY <1>1, <1>2, ConcatAssociative

(* Reading a frame changes what is still to be read, not what is got. *)
LEMMA QueueHead ==
    ASSUME NEW S, NEW r \in Seq(S), NEW q \in Seq(S), q # <<>>
    PROVE  Append(r, Head(q)) \o Tail(q) = r \o q
<1>1. /\ Head(q) \in S /\ Tail(q) \in Seq(S) /\ Append(r, Head(q)) \in Seq(S)
      /\ Len(Tail(q)) = Len(q) - 1
  BY HeadTailProperties, AppendProperties
<1>2. /\ Append(r, Head(q)) \o Tail(q) \in Seq(S) /\ r \o q \in Seq(S)
      /\ Len(Append(r, Head(q)) \o Tail(q)) = Len(r \o q)
  BY <1>1, ConcatProperties, AppendProperties, LenProperties
<1>3. ASSUME NEW i \in 1..Len(r \o q)
      PROVE  (Append(r, Head(q)) \o Tail(q))[i] = (r \o q)[i]
  BY <1>1, ConcatProperties, AppendProperties, LenProperties, HeadTailProperties
<1>. QED  BY <1>2, <1>3, SeqEqual

(* What the application has got or can get are frames that arrived. *)
LEMMA GotType == ASSUME RxPlaced PROVE Got \in Seq(1..arrived) /\ Len(Got) \in Nat
BY ConcatProperties, LenProperties DEF RxPlaced, Got

(* The newest frame goes to the end of a FIFO. *)
LEMMA NewestLast ==
    ASSUME NEW n \in Nat, NEW s \in Seq(1..n), Increasing(s)
    PROVE  LET t == Append(s, n + 1) IN
           /\ t \in Seq(1..n + 1) /\ Increasing(t)
           /\ \A i \in DOMAIN t : (i \in DOMAIN s /\ t[i] = s[i]) \/ t[i] = n + 1
<1> DEFINE t == Append(s, n + 1)
<1>1. s \in Seq(1..n + 1) /\ n + 1 \in 1..n + 1
  OBVIOUS
<1>2. /\ t \in Seq(1..n + 1) /\ Len(t) = Len(s) + 1 /\ Len(s) \in Nat
      /\ \A i \in 1..Len(s) : t[i] = s[i] /\ s[i] \in 1..n
      /\ t[Len(s) + 1] = n + 1
      /\ DOMAIN t = 1..Len(s) + 1 /\ DOMAIN s = 1..Len(s)
  BY <1>1, AppendProperties, LenProperties
<1> HIDE DEF t
<1>3. ASSUME NEW i \in DOMAIN t, NEW j \in DOMAIN t, i < j PROVE t[i] < t[j]
  <2>1. i \in 1..Len(s) /\ t[i] = s[i] /\ s[i] \in 1..n
    BY <1>2, <1>3
  <2>2. CASE j \in 1..Len(s)
    BY <1>2, <1>3, <2>1, <2>2 DEF Increasing
  <2>3. CASE j = Len(s) + 1
    BY <1>2, <2>1, <2>3
  <2>. QED  BY <1>2, <2>2, <2>3
<1>4. \A i \in DOMAIN t : (i \in DOMAIN s /\ t[i] = s[i]) \/ t[i] = n + 1
  BY <1>2
<1>. QED  BY <1>2, <1>3, <1>4 DEF Increasing, t

(* Or it takes the place of the one before. *)
LEMMA NewestReplaces ==
    ASSUME NEW n \in Nat, NEW s \in Seq(1..n), s # <<>>, Increasing(s)
    PROVE  LET t == [s EXCEPT ![Len(s)] = n + 1] IN
           /\ t \in Seq(1..n + 1) /\ Increasing(t)
           /\ \A i \in DOMAIN t : (i \in DOMAIN s /\ t[i] = s[i]) \/ t[i] = n + 1
           /\ s[Len(s)] \in 1..n /\ Len(s) \in DOMAIN s
           /\ ToSet(t) = (ToSet(s) \ {s[Len(s)]}) \cup {n + 1}
<1> DEFINE m == Len(s)
           t == [s EXCEPT ![m] = n + 1]
<1>1. /\ m \in Nat /\ m > 0 /\ DOMAIN s = 1..m /\ s \in [1..m -> 1..n]
  BY LenProperties, EmptySeq
<1>2. /\ DOMAIN t = 1..m /\ t = [i \in 1..m |-> IF i = m THEN n + 1 ELSE s[i]]
  BY <1>1
<1> HIDE DEF t, m
<1>3. /\ m \in 1..m /\ t[m] = n + 1
      /\ \A i \in 1..m : i # m => t[i] = s[i]
      /\ \A i \in 1..m : s[i] \in 1..n
  BY <1>1, <1>2
<1>4. \A i, j \in 1..m : i < j => s[i] < s[j]
  BY <1>1 DEF Increasing
<1>5. \A i \in 1..m : i # m => i < m
  BY <1>1
<1>6. ASSUME NEW i \in 1..m, NEW j \in 1..m, i < j PROVE t[i] < t[j]
  <2>1. i # m /\ t[i] = s[i] /\ s[i] \in 1..n
    BY <1>1, <1>3, <1>6
  <2>2. CASE j = m
    BY <1>3, <2>1, <2>2
  <2>3. CASE j # m
    BY <1>3, <1>4, <1>6, <2>1, <2>3
  <2>. QED  BY <2>2, <2>3
<1>7. t \in Seq(1..n + 1)
  <2>1. \A i \in 1..m : t[i] \in 1..n + 1
    BY <1>3
  <2>2. t \in [1..m -> 1..n + 1]
    BY <1>2, <2>1
  <2>. QED  BY <1>1, <2>2, SeqDef
<1>8. \A i \in 1..m : i # m => s[i] # s[m]
  BY <1>3, <1>4, <1>5
<1>9. ToSet(t) = (ToSet(s) \ {s[m]}) \cup {n + 1}
  <2>1. ToSet(t) = {t[i] : i \in 1..m} /\ ToSet(s) = {s[i] : i \in 1..m}
    BY <1>1, <1>2 DEF ToSet
  <2>2. \A i \in 1..m : s[i] # n + 1
    BY <1>3
  <2>. QED  BY <1>3, <1>8, <2>1, <2>2
<1>. QED  BY <1>1, <1>2, <1>3, <1>6, <1>7, <1>9 DEF Increasing, t, m

(* A FIFO loses its oldest frame. *)
LEMMA OldestFirst ==
    ASSUME NEW n \in Nat, NEW s \in Seq(1..n), s # <<>>, Increasing(s)
    PROVE  /\ Head(s) \in 1..n /\ Head(s) = s[1] /\ 1 \in DOMAIN s
           /\ Tail(s) \in Seq(1..n) /\ Increasing(Tail(s))
           /\ \A i \in DOMAIN Tail(s) :
                  i + 1 \in DOMAIN s /\ Tail(s)[i] = s[i + 1] /\ s[1] < Tail(s)[i]
           /\ \A i \in DOMAIN s : i = 1 \/ (i - 1 \in DOMAIN Tail(s) /\ s[i] = Tail(s)[i - 1])
<1> DEFINE t == Tail(s)
           m == Len(s)
<1>1. /\ m \in Nat /\ m > 0 /\ DOMAIN s = 1..m
      /\ Head(s) \in 1..n /\ Head(s) = s[1]
      /\ t \in Seq(1..n) /\ DOMAIN t = 1..m - 1
      /\ \A i \in 1..m - 1 : t[i] = s[i + 1]
  BY HeadTailProperties, LenProperties, EmptySeq
<1>2. \A i, j \in 1..m : i < j => s[i] < s[j]
  BY <1>1 DEF Increasing
<1> HIDE DEF t, m
<1>3. \A i \in 1..m - 1 : i + 1 \in 1..m /\ s[1] < s[i + 1]
  BY <1>1, <1>2
<1>4. \A i, j \in 1..m - 1 : i < j => t[i] < t[j]
  BY <1>1, <1>2
<1>5. \A i \in 1..m : i = 1 \/ (i - 1 \in 1..m - 1 /\ i = (i - 1) + 1)
  BY <1>1
<1>6. \A i \in 1..m : i = 1 \/ (i - 1 \in 1..m - 1 /\ s[i] = t[i - 1])
  BY <1>1, <1>5
<1>7. 1 \in 1..m
  BY <1>1
<1>. QED  BY <1>1, <1>3, <1>4, <1>6, <1>7 DEF Increasing, t

(* A FIFO that is full has elements. *)
LEMMA FullIsFilled == ASSUME NEW s, ~(Len(s) < FifoSize) PROVE s # <<>>
<1>1. FifoSize \in Nat \ {0, 1}
  BY RxAssumption
<1>2. Len(<<>>) = 0
  OBVIOUS
<1>. QED  BY <1>1, <1>2

(* A frame that arrives is the newest of its FIFO, or is gone. *)
LEMMA ArrivalPlaced ==
    ASSUME RxPlaced, GotInOrder, NEW f \in Fifos, FrameArrives(f)
    PROVE  /\ RxPlaced' /\ GotInOrder' /\ Got' = Got /\ arrived' = arrived + 1
           /\ \A n \in 1..arrived : route'[n] = route[n]
           /\ route'[arrived + 1] = f
<1>1. Got' = Got /\ Got \in Seq(1..arrived)
  BY GotType DEF FrameArrives, Got
<1>2. /\ arrived \in Nat /\ arrived' = arrived + 1 /\ arrived' \in Nat
      /\ route \in Seq(Fifos) /\ Len(route) = arrived /\ route' = Append(route, f)
  BY DEF FrameArrives, RxPlaced
<1>3. /\ route' \in Seq(Fifos) /\ Len(route') = arrived'
      /\ \A n \in 1..arrived : route'[n] = route[n]
      /\ route'[arrived + 1] = f
  BY <1>2, AppendProperties
<1>4. /\ queue' \in Seq(1..arrived') /\ read' \in Seq(1..arrived')
  BY <1>2 DEF FrameArrives, RxPlaced
<1>5. ASSUME NEW g \in Fifos, fifo'[g] = fifo[g]
      PROVE  /\ fifo'[g] \in Seq(1..arrived') /\ Increasing(fifo'[g])
             /\ \A i \in DOMAIN fifo'[g] : route'[fifo'[g][i]] = g
             /\ \A i \in DOMAIN fifo'[g], j \in DOMAIN Got' :
                    route'[Got'[j]] = g => Got'[j] < fifo'[g][i]
  BY <1>1, <1>2, <1>3, <1>5, SMTT(30) DEF RxPlaced, FifosInOrder
<1>6. ASSUME \/ fifo'[f] = Append(fifo[f], arrived + 1)
             \/ fifo[f] # <<>> /\ fifo'[f] = [fifo[f] EXCEPT ![Len(fifo[f])] = arrived + 1]
      PROVE  /\ fifo'[f] \in Seq(1..arrived') /\ Increasing(fifo'[f])
             /\ \A i \in DOMAIN fifo'[f] : route'[fifo'[f][i]] = f
             /\ \A i \in DOMAIN fifo'[f], j \in DOMAIN Got' :
                    route'[Got'[j]] = f => Got'[j] < fifo'[f][i]
  <2>1. /\ fifo[f] \in Seq(1..arrived) /\ Increasing(fifo[f])
        /\ \A i \in DOMAIN fifo[f] : route[fifo[f][i]] = f
        /\ \A i \in DOMAIN fifo[f], j \in DOMAIN Got :
               route[Got[j]] = f => Got[j] < fifo[f][i]
    BY DEF RxPlaced, FifosInOrder
  <2>2. /\ fifo'[f] \in Seq(1..arrived') /\ Increasing(fifo'[f])
        /\ \A i \in DOMAIN fifo'[f] :
               (i \in DOMAIN fifo[f] /\ fifo'[f][i] = fifo[f][i]) \/ fifo'[f][i] = arrived + 1
    <3>1. CASE fifo'[f] = Append(fifo[f], arrived + 1)
      <4>. DEFINE s == fifo[f]
      <4>1. s \in Seq(1..arrived) /\ Increasing(s) /\ arrived \in Nat
        BY <1>2, <2>1
      <4>. HIDE DEF s
      <4>2. LET t == Append(s, arrived + 1) IN
            /\ t \in Seq(1..arrived + 1) /\ Increasing(t)
            /\ \A i \in DOMAIN t : (i \in DOMAIN s /\ t[i] = s[i]) \/ t[i] = arrived + 1
        BY <4>1, NewestLast
      <4>. QED  BY <1>2, <3>1, <4>2 DEF s
    <3>2. CASE fifo[f] # <<>> /\ fifo'[f] = [fifo[f] EXCEPT ![Len(fifo[f])] = arrived + 1]
      <4>. DEFINE s == fifo[f]
      <4>1. s \in Seq(1..arrived) /\ Increasing(s) /\ s # <<>> /\ arrived \in Nat
        BY <1>2, <2>1, <3>2
      <4>. HIDE DEF s
      <4>2. LET t == [s EXCEPT ![Len(s)] = arrived + 1] IN
            /\ t \in Seq(1..arrived + 1) /\ Increasing(t)
            /\ \A i \in DOMAIN t : (i \in DOMAIN s /\ t[i] = s[i]) \/ t[i] = arrived + 1
        BY <4>1, NewestReplaces
      <4>. QED  BY <1>2, <3>2, <4>2 DEF s
    <3>. QED  BY <1>6, <3>1, <3>2
  <2>3. \A i \in DOMAIN fifo[f] : fifo[f][i] \in 1..arrived
    <3>1. fifo[f] \in Seq(1..arrived)
      BY DEF RxPlaced
    <3>. QED  BY <3>1, ElementOfSeq, LenProperties
  <2>4. \A j \in DOMAIN Got : Got[j] \in 1..arrived
    BY <1>1, ElementOfSeq, LenProperties
  <2>5. \A i \in DOMAIN fifo'[f] : route'[fifo'[f][i]] = f
    BY <1>3, <2>1, <2>2, <2>3
  <2>6. ASSUME NEW i \in DOMAIN fifo'[f], NEW j \in DOMAIN Got', route'[Got'[j]] = f
        PROVE  Got'[j] < fifo'[f][i]
    <3>1. /\ Got'[j] = Got[j] /\ j \in DOMAIN Got /\ Got[j] \in 1..arrived
          /\ route[Got[j]] = f
      BY <1>1, <1>3, <2>4, <2>6
    <3>2. CASE i \in DOMAIN fifo[f] /\ fifo'[f][i] = fifo[f][i]
      BY <2>1, <3>1, <3>2
    <3>3. CASE fifo'[f][i] = arrived + 1
      BY <1>2, <3>1, <3>3
    <3>. QED  BY <2>2, <3>2, <3>3
  <2>. QED  BY <2>2, <2>5, <2>6
<1>7. FifosInOrder' /\ fifo' \in [Fifos -> Seq(1..arrived')]
  <2>1. fifo \in [Fifos -> Seq(1..arrived)]
    BY DEF RxPlaced
  <2>2. fifo' = [fifo EXCEPT ![f] = Stored(fifo[f], arrived + 1)]
    BY DEF FrameArrives
  <2>3. /\ DOMAIN fifo' = Fifos /\ fifo'[f] = Stored(fifo[f], arrived + 1)
        /\ \A g \in Fifos \ {f} : fifo'[g] = fifo[g]
    BY <2>1, <2>2
  <2>8. \/ fifo'[f] = fifo[f] \/ fifo'[f] = Append(fifo[f], arrived + 1)
        \/ fifo[f] # <<>> /\ fifo'[f] = [fifo[f] EXCEPT ![Len(fifo[f])] = arrived + 1]
    BY <2>1, <2>3, FullIsFilled DEF Stored
  <2>4. fifo' = [g \in Fifos |-> fifo'[g]]
    BY <2>1, <2>2
  <2>5. \A g \in Fifos : fifo'[g] \in Seq(1..arrived')
    BY <1>5, <1>6, <2>3, <2>8
  <2>6. fifo' \in [Fifos -> Seq(1..arrived')]
    BY <2>4, <2>5
  <2>7. FifosInOrder'
    BY <1>5, <1>6, <2>3, <2>8 DEF FifosInOrder
  <2>. QED  BY <2>6, <2>7
<1>8. GotInOrder'
  <2>1. \A j \in DOMAIN Got : Got[j] \in 1..arrived
    BY <1>1, ElementOfSeq, LenProperties
  <2>. QED  BY <1>1, <1>3, <2>1 DEF GotInOrder
<1>. QED  BY <1>1, <1>2, <1>3, <1>4, <1>7, <1>8 DEF RxPlaced

(* The frame that leaves a FIFO is older than what stays, newer than what was got. *)
LEMMA DrainPlaced ==
    ASSUME RxPlaced, GotInOrder, Drain
    PROVE  /\ RxPlaced' /\ GotInOrder' /\ arrived' = arrived /\ route' = route
           /\ Head(fifo[rx_at]) \in 1..arrived
           /\ Got' = IF Room(queue) THEN Append(Got, Head(fifo[rx_at])) ELSE Got
<1> DEFINE f == rx_at
           n == Head(fifo[f])
<1>1. /\ arrived \in Nat /\ route \in Seq(Fifos) /\ Len(route) = arrived
      /\ UNCHANGED <<arrived, route, read>>
      /\ f \in Fifos /\ fifo[f] # <<>> /\ fifo[f] \in Seq(1..arrived)
      /\ fifo \in [Fifos -> Seq(1..arrived)] /\ fifo' = [fifo EXCEPT ![f] = Tail(fifo[f])]
      /\ queue \in Seq(1..arrived) /\ read \in Seq(1..arrived)
      /\ Increasing(fifo[f]) /\ \A i \in DOMAIN fifo[f] : route[fifo[f][i]] = f
  BY DEF RxPlaced, FifosInOrder, Drain
<1>2. /\ n \in 1..arrived /\ n = fifo[f][1] /\ route[n] = f
      /\ Tail(fifo[f]) \in Seq(1..arrived) /\ Increasing(Tail(fifo[f]))
      /\ \A i \in DOMAIN Tail(fifo[f]) :
             i + 1 \in DOMAIN fifo[f] /\ Tail(fifo[f])[i] = fifo[f][i + 1]
                /\ n < Tail(fifo[f])[i]
      /\ 1 \in DOMAIN fifo[f]
  BY <1>1, OldestFirst
<1>3. /\ queue' = IF Room(queue) THEN Append(queue, n) ELSE queue
      /\ queue' \in Seq(1..arrived) /\ read' \in Seq(1..arrived)
  <2>1. CASE Room(queue)
    <3>1. queue' = Append(queue, n)
      BY <2>1 DEF Drain, PushFrame, Room
    <3>. QED  BY <1>1, <1>2, <2>1, <3>1, AppendProperties
  <2>2. CASE ~Room(queue)
    BY <1>1, <2>2 DEF Drain
  <2>. QED  BY <2>1, <2>2
<1>4. Got \in Seq(1..arrived) /\ Got' = IF Room(queue) THEN Append(Got, n) ELSE Got
  <2>1. CASE Room(queue)
    <3>1. read \o Append(queue, n) = Append(read \o queue, n)
      BY <1>1, <1>2, QueueEnd, SMTT(30)
    <3>. QED  BY <1>1, <1>3, <2>1, <3>1, GotType DEF Got
  <2>2. CASE ~Room(queue)
    BY <1>1, <1>3, <2>2, GotType DEF Got
  <2>. QED  BY <2>1, <2>2
<1>5. \A j \in DOMAIN Got : route[Got[j]] = f => Got[j] < n
  BY <1>1, <1>2 DEF RxPlaced, FifosInOrder
<1>6. \A j \in DOMAIN Got' : (j \in DOMAIN Got /\ Got'[j] = Got[j])
                            \/ (Got'[j] = n /\ \A i \in DOMAIN Got' : i < j => i \in DOMAIN Got)
  BY <1>2, <1>4, AppendProperties, LenProperties
<1> HIDE DEF n, f
<1>7. GotInOrder'
  <2> SUFFICES ASSUME NEW i \in DOMAIN Got', NEW j \in DOMAIN Got', i < j,
                      route[Got'[i]] = route[Got'[j]]
               PROVE  Got'[i] < Got'[j]
    BY <1>1 DEF GotInOrder
  <2>1. CASE j \in DOMAIN Got /\ Got'[j] = Got[j]
    <3>1. i \in DOMAIN Got /\ Got'[i] = Got[i]
      BY <1>2, <1>4, <2>1, AppendProperties, LenProperties
    <3>. QED  BY <2>1, <3>1 DEF GotInOrder
  <2>2. CASE Got'[j] = n /\ \A k \in DOMAIN Got' : k < j => k \in DOMAIN Got
    <3>1. i \in DOMAIN Got /\ Got'[i] = Got[i]
      BY <1>2, <1>4, <2>2, AppendProperties, LenProperties
    <3>. QED  BY <1>2, <1>5, <2>2, <3>1
  <2>. QED  BY <1>6, <2>1, <2>2
<1>8. fifo' \in [Fifos -> Seq(1..arrived')]
  BY <1>1, <1>2
<1>9. ASSUME NEW g \in Fifos
      PROVE  /\ Increasing(fifo'[g])
             /\ \A i \in DOMAIN fifo'[g] : route[fifo'[g][i]] = g
             /\ \A i \in DOMAIN fifo'[g], j \in DOMAIN Got' :
                    route[Got'[j]] = g => Got'[j] < fifo'[g][i]
  <2>1. CASE g = f
    <3>1. fifo'[g] = Tail(fifo[f])
      BY <1>1, <2>1
    <3>2. ASSUME NEW i \in DOMAIN Tail(fifo[f]), NEW j \in DOMAIN Got', route[Got'[j]] = f
          PROVE  Got'[j] < Tail(fifo[f])[i]
      <4>1. i + 1 \in DOMAIN fifo[f] /\ Tail(fifo[f])[i] = fifo[f][i + 1] /\ n < Tail(fifo[f])[i]
        BY <1>2
      <4>2. CASE j \in DOMAIN Got /\ Got'[j] = Got[j]
        BY <1>1, <3>2, <4>1, <4>2 DEF RxPlaced, FifosInOrder
      <4>3. CASE Got'[j] = n
        BY <4>1, <4>3
      <4>. QED  BY <1>6, <4>2, <4>3
    <3>. QED  BY <1>1, <1>2, <2>1, <3>1, <3>2
  <2>2. CASE g # f
    <3>1. fifo'[g] = fifo[g]
      BY <1>1, <2>2
    <3>2. \A j \in DOMAIN Got' : route[Got'[j]] = g => j \in DOMAIN Got /\ Got'[j] = Got[j]
      BY <1>2, <1>6, <2>2
    <3>. QED  BY <3>1, <3>2 DEF RxPlaced, FifosInOrder
  <2>. QED  BY <2>1, <2>2
<1>10. FifosInOrder'
  BY <1>1, <1>9 DEF FifosInOrder
<1>. QED  BY <1>1, <1>2, <1>3, <1>4, <1>7, <1>8, <1>10 DEF RxPlaced, n, f

(* uni_hal_can_receive and the steps of the handlers between two frames move no frame. *)
LEMMA NothingMoves ==
    ASSUME RxPlaced, GotInOrder, UNCHANGED <<fifo, arrived, route>>,
           \/ UNCHANGED <<queue, read>>
           \/ queue # <<>> /\ read' = Append(read, Head(queue)) /\ queue' = Tail(queue)
    PROVE  /\ RxPlaced' /\ GotInOrder' /\ Got' = Got /\ Gone' = Gone
           /\ \A n : route'[n] = route[n]
<1>1. /\ queue \in Seq(1..arrived) /\ read \in Seq(1..arrived)
  BY DEF RxPlaced
<1>2. Got' = Got /\ queue' \in Seq(1..arrived) /\ read' \in Seq(1..arrived)
  <2>1. CASE UNCHANGED <<queue, read>>
    BY <1>1, <2>1 DEF Got
  <2>2. CASE queue # <<>> /\ read' = Append(read, Head(queue)) /\ queue' = Tail(queue)
    BY <1>1, <2>2, QueueHead, HeadTailProperties, AppendProperties DEF Got
  <2>. QED  BY <2>1, <2>2
<1>. QED  BY <1>2 DEF RxPlaced, FifosInOrder, GotInOrder, Gone

(* The frames of a FIFO with one more. *)
LEMMA SetOfAppend ==
    ASSUME NEW m \in Int, NEW s \in Seq(1..m), NEW n \in 1..m
    PROVE  ToSet(Append(s, n)) = ToSet(s) \cup {n}
<1> DEFINE t == Append(s, n)
<1>1. /\ Len(s) \in Nat /\ DOMAIN s = 1..Len(s) /\ DOMAIN t = 1..Len(s) + 1
      /\ \A i \in 1..Len(s) : t[i] = s[i]
      /\ t[Len(s) + 1] = n
  BY AppendProperties, LenProperties
<1> HIDE DEF t
<1>2. \A i \in DOMAIN t : i \in DOMAIN s \/ i = Len(s) + 1
  BY <1>1
<1>3. \A i \in DOMAIN s : i \in DOMAIN t /\ t[i] = s[i]
  BY <1>1
<1>4. Len(s) + 1 \in DOMAIN t
  BY <1>1
<1>. QED  BY <1>1, <1>2, <1>3, <1>4 DEF ToSet, t

(* The frames of a FIFO whose oldest one is taken out. *)
LEMMA SetOfHead ==
    ASSUME NEW n \in Nat, NEW s \in Seq(1..n), s # <<>>, Increasing(s)
    PROVE  ToSet(s) = ToSet(Tail(s)) \cup {Head(s)} /\ Head(s) \notin ToSet(Tail(s))
<1> DEFINE t == Tail(s)
           h == Head(s)
<1>1. /\ h = s[1] /\ 1 \in DOMAIN s /\ h \in 1..n
      /\ \A i \in DOMAIN t : i + 1 \in DOMAIN s /\ t[i] = s[i + 1] /\ h < t[i]
      /\ \A i \in DOMAIN s : i = 1 \/ (i - 1 \in DOMAIN t /\ s[i] = t[i - 1])
  BY OldestFirst
<1> HIDE DEF t, h
<1>2. h \notin ToSet(t)
  BY <1>1 DEF ToSet
<1>3. ToSet(s) \subseteq ToSet(t) \cup {h}
  BY <1>1 DEF ToSet
<1>4. ToSet(t) \cup {h} \subseteq ToSet(s)
  BY <1>1 DEF ToSet
<1>. QED  BY <1>2, <1>3, <1>4 DEF t, h

(* The frames that are gone, in numbers. *)
LEMMA GoneFinite == ASSUME RxPlaced PROVE IsFiniteSet(Gone) /\ Cardinality(Gone) \in Nat
<1>1. Gone \subseteq 1..arrived /\ arrived \in Int
  BY DEF Gone, RxPlaced
<1>2. IsFiniteSet(1..arrived)
  BY <1>1, FS_Interval
<1>3. IsFiniteSet(Gone)
  BY <1>1, <1>2, FS_Subset
<1>. QED  BY <1>3, FS_CardinalityType

(* A frame that arrives is in a FIFO, or is lost under a flag. *)
LEMMA ArrivalCounted ==
    ASSUME RxInv, NEW f \in Fifos, FrameArrives(f)
    PROVE  RxInv'
<1>1. /\ RxPlaced' /\ GotInOrder' /\ Got' = Got /\ arrived' = arrived + 1
      /\ \A n \in 1..arrived : route'[n] = route[n]
      /\ route'[arrived + 1] = f
  BY ArrivalPlaced DEF RxInv
<1>2. /\ arrived \in Nat /\ fifo \in [Fifos -> Seq(1..arrived)] /\ Got \in Seq(1..arrived)
  BY GotType DEF RxInv, RxPlaced
<1>3. /\ ToSet(fifo[0]) \subseteq 1..arrived /\ ToSet(fifo[1]) \subseteq 1..arrived
      /\ ToSet(Got) \subseteq 1..arrived
  <2>1. ASSUME NEW s \in Seq(1..arrived) PROVE ToSet(s) \subseteq 1..arrived
    <3>1. DOMAIN s = 1..Len(s) /\ \A i \in 1..Len(s) : s[i] \in 1..arrived
      BY LenProperties, ElementOfSeq
    <3>. QED  BY <3>1 DEF ToSet
  <2>2. fifo[0] \in Seq(1..arrived) /\ fifo[1] \in Seq(1..arrived)
    BY <1>2 DEF Fifos
  <2>. QED  BY ONLY <1>2, <2>1, <2>2
<1>4. (1..arrived') = (1..arrived) \cup {arrived + 1} /\ arrived + 1 \notin 1..arrived
  BY <1>1, <1>2
<1>5. /\ UNCHANGED <<count_rx, count_rx_dropped, told_dropped, told_overrun>>
      /\ full_flag \subseteq full_flag'
  BY DEF FrameArrives
<1>6. CASE Len(fifo[f]) < FifoSize
  <2>1. fifo' = [fifo EXCEPT ![f] = Append(fifo[f], arrived + 1)]
    BY <1>6 DEF FrameArrives, Stored
  <2>2. ToSet(Append(fifo[f], arrived + 1)) = ToSet(fifo[f]) \cup {arrived + 1}
    <3>1. fifo[f] \in Seq(1..arrived + 1) /\ arrived + 1 \in 1..arrived + 1
      BY <1>2
    <3>. QED  BY <3>1, SetOfAppend
  <2>3. ToSet(fifo'[0]) \cup ToSet(fifo'[1]) = ToSet(fifo[0]) \cup ToSet(fifo[1]) \cup {arrived + 1}
    <3>1. CASE f = 0
      BY <1>2, <2>1, <2>2, <3>1 DEF Fifos
    <3>2. CASE f = 1
      BY <1>2, <2>1, <2>2, <3>2 DEF Fifos
    <3>. QED  BY <3>1, <3>2 DEF Fifos
  <2>4. Gone' = Gone
    BY <1>1, <1>3, <1>4, <2>3 DEF Gone
  <2>5. \A n \in Gone : route'[n] = route[n]
    BY <1>1 DEF Gone
  <2>. QED  BY <1>1, <1>5, <2>4, <2>5 DEF RxInv, RxCounted
<1>7. CASE ~(Len(fifo[f]) < FifoSize)
  <2>1. f \in full_flag'
    BY <1>7 DEF FrameArrives
  <2>2. \E x \in 1..arrived' : Gone' = Gone \cup {x} /\ x \notin Gone /\ route'[x] = f
    <3>1. CASE rx_h7
      <4>1. fifo' = fifo
        BY <1>2, <1>7, <3>1 DEF FrameArrives, Stored
      <4>2. Gone' = Gone \cup {arrived + 1} /\ arrived + 1 \notin Gone
        BY <1>1, <1>3, <1>4, <4>1 DEF Gone
      <4>. QED  BY <1>1, <1>4, <4>2
    <3>2. CASE ~rx_h7
      <4>. DEFINE s == fifo[f]
                  x == s[Len(s)]
                  t == [s EXCEPT ![Len(s)] = arrived + 1]
      <4>1. fifo' = [fifo EXCEPT ![f] = t]
        BY <1>7, <3>2 DEF FrameArrives, Stored
      <4>2. s \in Seq(1..arrived) /\ Increasing(s) /\ s # <<>>
        BY <1>2, <1>7, FullIsFilled DEF RxInv, RxPlaced, FifosInOrder
      <4>3. /\ x \in 1..arrived /\ Len(s) \in DOMAIN s
            /\ ToSet(t) = (ToSet(s) \ {x}) \cup {arrived + 1}
        BY <1>2, <4>2, NewestReplaces
      <4>4. /\ \A i \in DOMAIN s : route[s[i]] = f
            /\ \A i \in DOMAIN s, j \in DOMAIN Got : route[Got[j]] = f => Got[j] < s[i]
            /\ \A g \in Fifos : \A i \in DOMAIN fifo[g] : route[fifo[g][i]] = g
        BY DEF RxInv, RxPlaced, FifosInOrder
      <4>5. route[x] = f /\ x \in ToSet(s)
        BY <4>3, <4>4 DEF ToSet
      <4>6. x \notin ToSet(Got)
        <5>1. \A j \in DOMAIN Got : route[Got[j]] = f => Got[j] < x
          BY <4>3, <4>4
        <5>. QED  BY <4>3, <4>5, <5>1 DEF ToSet
      <4>7. ASSUME NEW g \in Fifos \ {f} PROVE x \notin ToSet(fifo[g]) /\ fifo'[g] = fifo[g]
        BY <1>2, <4>1, <4>4, <4>5 DEF ToSet
      <4>8. fifo'[f] = t
        BY <1>2, <4>1
      <4>. HIDE DEF x, t, s
      <4>9. Gone' = Gone \cup {x} /\ x \notin Gone
        <5>1. Gone = (1..arrived) \ (ToSet(fifo[0]) \cup ToSet(fifo[1]) \cup ToSet(Got))
          BY DEF Gone
        <5>2. Gone' = (1..arrived') \ (ToSet(fifo'[0]) \cup ToSet(fifo'[1]) \cup ToSet(Got))
          BY <1>1 DEF Gone
        <5>3. CASE f = 0
          <6>1. /\ fifo'[0] = t /\ fifo'[1] = fifo[1] /\ x \notin ToSet(fifo[1])
                /\ s = fifo[0]
            BY <4>7, <4>8, <5>3 DEF Fifos, s
          <6>. QED  BY <1>3, <1>4, <4>3, <4>5, <4>6, <5>1, <5>2, <6>1
        <5>4. CASE f = 1
          <6>1. /\ fifo'[1] = t /\ fifo'[0] = fifo[0] /\ x \notin ToSet(fifo[0])
                /\ s = fifo[1]
            BY <4>7, <4>8, <5>4 DEF Fifos, s
          <6>. QED  BY <1>3, <1>4, <4>3, <4>5, <4>6, <5>1, <5>2, <6>1
        <5>. QED  BY <5>3, <5>4 DEF Fifos
      <4>. QED  BY <1>1, <1>4, <4>3, <4>5, <4>9
    <3>. QED  BY <3>1, <3>2
  <2>3. PICK x \in 1..arrived' : Gone' = Gone \cup {x} /\ x \notin Gone /\ route'[x] = f
    BY <2>2
  <2>4. Cardinality(Gone') = Cardinality(Gone) + 1 /\ Cardinality(Gone) \in Nat
    BY <2>3, GoneFinite, FS_AddElement DEF RxInv
  <2>. QED  BY <1>1, <1>5, <2>1, <2>3, <2>4 DEF RxInv, RxCounted
<1>. QED  BY <1>6, <1>7

(* A frame that leaves a FIFO is got, or dropped and counted. *)
LEMMA DrainCounted == ASSUME RxInv, Drain PROVE RxInv'
<1> DEFINE f == rx_at
           n == Head(fifo[f])
<1>1. /\ RxPlaced' /\ GotInOrder' /\ arrived' = arrived /\ route' = route
      /\ n \in 1..arrived
      /\ Got' = IF Room(queue) THEN Append(Got, n) ELSE Got
  BY DrainPlaced DEF RxInv
<1>2. /\ f \in Fifos /\ fifo[f] # <<>> /\ arrived \in Nat /\ Got \in Seq(1..arrived)
      /\ fifo \in [Fifos -> Seq(1..arrived)] /\ fifo' = [fifo EXCEPT ![f] = Tail(fifo[f])]
      /\ Increasing(fifo[f])
  BY GotType DEF RxInv, RxPlaced, FifosInOrder, Drain
<1>3. /\ ToSet(fifo[f]) = ToSet(Tail(fifo[f])) \cup {n} /\ n \notin ToSet(Tail(fifo[f]))
      /\ n = fifo[f][1] /\ 1 \in DOMAIN fifo[f]
  BY <1>2, SetOfHead, OldestFirst
<1>4. route[n] = f
  BY <1>2, <1>3 DEF RxInv, RxPlaced, FifosInOrder
<1>5. n \notin ToSet(Got)
  <2>1. \A j \in DOMAIN Got : route[Got[j]] = f => Got[j] < n
    BY <1>2, <1>3 DEF RxInv, RxPlaced, FifosInOrder
  <2>2. \A j \in DOMAIN Got : Got[j] # n
    BY <1>1, <1>4, <2>1
  <2>. QED  BY <2>2 DEF ToSet
<1>6. \A g \in Fifos \ {f} : n \notin ToSet(fifo[g])
  BY <1>4 DEF RxInv, RxPlaced, FifosInOrder, ToSet
<1>7. UNCHANGED <<told_overrun, full_flag>>
  BY DEF Drain
<1> HIDE DEF n, f
<1>8. /\ ToSet(fifo[0]) \cup ToSet(fifo[1]) = ToSet(fifo'[0]) \cup ToSet(fifo'[1]) \cup {n}
      /\ n \notin ToSet(fifo'[0]) \cup ToSet(fifo'[1])
  <2>1. CASE f = 0
    BY <1>2, <1>3, <1>6, <2>1 DEF Fifos
  <2>2. CASE f = 1
    BY <1>2, <1>3, <1>6, <2>2 DEF Fifos
  <2>. QED  BY <1>2, <2>1, <2>2 DEF Fifos
<1>9. CASE Room(queue)
  <2>1. Len(Got') = Len(Got) + 1 /\ ToSet(Got') = ToSet(Got) \cup {n} /\ Len(Got) \in Nat
    <3>1. Got' = Append(Got, n) /\ n \in 1..arrived /\ Got \in Seq(1..arrived)
      BY <1>1, <1>2, <1>9
    <3>2. ToSet(Append(Got, n)) = ToSet(Got) \cup {n}
      BY <1>2, <3>1, SetOfAppend
    <3>3. Len(Append(Got, n)) = Len(Got) + 1 /\ Len(Got) \in Nat
      BY <3>1, AppendProperties, LenProperties
    <3>. QED  BY <3>1, <3>2, <3>3
  <2>2. Gone' = Gone
    BY <1>1, <1>8, <2>1 DEF Gone
  <2>3. count_rx' = count_rx + 1 /\ UNCHANGED <<count_rx_dropped, told_dropped>>
    BY <1>9 DEF Drain
  <2>. QED  BY <1>1, <1>7, <2>1, <2>2, <2>3 DEF RxInv, RxCounted
<1>10. CASE ~Room(queue)
  <2>1. Gone' = Gone \cup {n} /\ n \notin Gone /\ Got' = Got
    BY <1>1, <1>5, <1>8, <1>10 DEF Gone
  <2>2. Cardinality(Gone') = Cardinality(Gone) + 1 /\ Cardinality(Gone) \in Nat
    BY <2>1, GoneFinite, FS_AddElement DEF RxInv
  <2>3. /\ count_rx' = count_rx /\ count_rx_dropped' = count_rx_dropped + 1
        /\ told_dropped' = told_dropped + 1
    BY <1>10 DEF Drain
  <2>. QED  BY <1>1, <1>7, <2>1, <2>2, <2>3 DEF RxInv, RxCounted
<1>. QED  BY <1>9, <1>10

(* Every step keeps the invariant. *)
LEMMA RxStep == RxInv /\ [RxNext]_rxVars => RxInv'
<1> SUFFICES ASSUME RxInv, [RxNext]_rxVars PROVE RxInv'
  OBVIOUS
<1>1. ASSUME NEW f \in Fifos, FrameArrives(f) PROVE RxInv'
  BY <1>1, ArrivalCounted
<1>2. CASE Drain
  BY <1>2, DrainCounted
<1>3. ASSUME UNCHANGED <<fifo, arrived, route, count_rx, count_rx_dropped, told_dropped>>,
             \/ UNCHANGED <<queue, read>>
             \/ queue # <<>> /\ read' = Append(read, Head(queue)) /\ queue' = Tail(queue),
             told_overrun \cup full_flag \subseteq told_overrun' \cup full_flag'
      PROVE  RxInv'
  <2>1. RxPlaced' /\ GotInOrder' /\ Got' = Got /\ Gone' = Gone /\ \A n : route'[n] = route[n]
    BY <1>3, NothingMoves DEF RxInv
  <2>. QED  BY <1>3, <2>1 DEF RxInv, RxCounted
<1>4. CASE Receive
  BY <1>3, <1>4 DEF Receive
<1>5. CASE IrqH7
  BY <1>3, <1>5 DEF IrqH7
<1>6. CASE IrqNext
  BY <1>3, <1>6 DEF IrqNext
<1>7. CASE DrainEnd
  BY <1>3, <1>7 DEF DrainEnd
<1>8. ASSUME NEW f \in Fifos, IrqL4(f) PROVE RxInv'
  BY <1>3, <1>8 DEF IrqL4
<1>9. CASE UNCHANGED rxVars
  BY <1>3, <1>9 DEF rxVars
<1>. QED  BY <1>1, <1>2, <1>4, <1>5, <1>6, <1>7, <1>8, <1>9 DEF RxNext, RxIrq

(* Frames reach the application in the order of their FIFO, and every one that does not is *)
(* counted or reported.                                                                    *)
THEOREM ReceptionIsAccounted == RxSpec => []ReceptionAccounted
<1>1. RxInit => RxInv
  <2> SUFFICES ASSUME RxInit PROVE RxInv
    OBVIOUS
  <2>1. Got = <<>> /\ Len(Got) = 0 /\ Got \in Seq(1..0)
    BY ConcatEmptySeq, EmptySeq DEF RxInit, Got
  <2>2. RxPlaced
    BY EmptySeq DEF RxInit, RxPlaced, FifosInOrder, Fifos, Increasing
  <2>3. Gone = {}
    BY DEF RxInit, Gone
  <2>4. Cardinality(Gone) = 0
    BY <2>3, FS_EmptySet
  <2>. QED  BY <2>1, <2>2, <2>4 DEF RxInit, RxInv, RxCounted, GotInOrder
<1>2. RxInv => ReceptionAccounted
  BY DEF RxInv, RxCounted, GotInOrder, ReceptionAccounted
<1>. QED  BY <1>1, <1>2, RxStep, PTL DEF RxSpec

--------------------------------------------------------------------------------
(***************************************************************************)
(* CanFilter: the receive filters, and the calls that rewrite one bank.    *)
(***************************************************************************)
(* The specification of the filter banks. *)
FilterSpec == FilterInit /\ [][FilterNext]_filterVars

(* The filters, the arguments of a call, and the filter they ask for. *)
Filters == [id : SUBSET WordBits, mask : SUBSET WordBits, fifo : {0, 1}]
Args == [key : Keys, id : SUBSET WordBits, mask : SUBSET WordBits, fifo : {0, 1}]
ArgFilter == [id |-> fl_arg.id, mask |-> fl_arg.mask, fifo |-> fl_arg.fifo]

(* Where the call can be, in each driver. *)
H7Steps == {"idle", "out", "out ext", "std", "ext mask", "ext"}
L4Steps == {"idle", "out", "deactivate", "words", "activate", "leave"}

(* The values of the variables; the call's bank is asked for what the call is given. *)
FilterTypes ==
    /\ fl_h7 \in BOOLEAN
    /\ set \in [Keys -> Filters \cup {None}] /\ was \in [Keys -> Filters \cup {None}]
    /\ fl_pc \in IF fl_h7 THEN H7Steps ELSE L4Steps
    /\ std = [k \in Keys |-> std[k]] /\ ext_id = [k \in Keys |-> ext_id[k]]
    /\ ext_mask = [k \in Keys |-> ext_mask[k]] /\ fr = [k \in Keys |-> fr[k]]
    /\ fl_pc # "idle" => fl_arg \in Args /\ set[fl_arg.key] = ArgFilter

(* The call is about this bank; other banks are what they were set to. *)
Changing(k) == fl_pc # "idle" /\ k = fl_arg.key
OthersKept == \A k \in Keys : fl_pc # "idle" /\ ~Changing(k) => was[k] = set[k]

(* FDCAN: what a standard element and an extended one let through, and what the filter *)
(* they stand for would.                                                               *)
StdPass(e, w) == IF e # None /\ Equal(w, e.id, e.mask \cap {"s"}) THEN e.fifo ELSE -1
ExtPass(e, mask, w) == IF e # None /\ Equal(w, e.id, mask \cap {"s", "l"}) THEN e.fifo ELSE -1
FdMeans(f, w) == IF f # None /\ Equal(w, f.id, f.mask \ {"r"}) THEN f.fifo ELSE -1

(* An element that lets through the standard frames of a filter, and two that let *)
(* through the extended ones.                                                     *)
StdIs(e, f) == \A w \in Frames : "i" \notin w => StdPass(e, w) = FdMeans(f, w)
ExtIs(e, mask, f) == \A w \in Frames : "i" \in w => ExtPass(e, mask, w) = FdMeans(f, w)

(* FDCAN: the filter whose standard frames the bank lets through in the middle of the *)
(* call, and the one whose extended frames it does.                                   *)
StdHolds(k) ==
    IF ~Changing(k) THEN set[k]
    ELSE IF fl_pc = "out" THEN was[k]
    ELSE IF fl_pc \in {"out ext", "std"} THEN None ELSE set[k]
ExtHolds(k) ==
    IF ~Changing(k) THEN set[k] ELSE IF fl_pc \in {"out", "out ext"} THEN was[k] ELSE None

(* FDCAN: each bank lets that through, and the call has done what comes before its step. *)
BanksH7 ==
    /\ \A k \in Keys : StdIs(std[k], StdHolds(k)) /\ ExtIs(ext_id[k], ext_mask[k], ExtHolds(k))
    /\ fl_pc \in {"out ext", "std"} => std[fl_arg.key] = None
    /\ fl_pc \in {"std", "ext mask", "ext"} => ext_id[fl_arg.key] = None
    /\ fl_pc \in {"ext mask", "ext"} => WantExtended
    /\ fl_pc = "ext" => ext_mask[fl_arg.key] = fl_arg.mask

(* bxCAN: an active bank holds the words of its filter, unless nothing is received. *)
BankHolds(k, f) == (k \in active <=> f # None) /\ (f # None => fr[k] = f)

(* The banks of a bxCAN hold their filters whenever frames are received. *)
BanksL4 ==
    /\ finit <=> fl_pc \notin {"idle", "out"}
    /\ \A k \in Keys :
          /\ ~Changing(k) => BankHolds(k, set[k])
          /\ Changing(k) /\ fl_pc = "out" => BankHolds(k, was[k])
    /\ fl_pc \in {"activate", "leave"} => fr[fl_arg.key] = ArgFilter
    /\ fl_pc = "leave" => fl_arg.key \in active

(* The inductive invariant of the filters. *)
FilterInv ==
    /\ FilterTypes /\ OthersKept
    /\ fl_h7 => BanksH7
    /\ ~fl_h7 => BanksL4

(* A filter is not the absence of one. *)
LEMMA FilterIsSome == \A f \in Filters : f # None
<1> SUFFICES ASSUME None \in Filters PROVE FALSE
  OBVIOUS
<1>1. DOMAIN None = {"id", "mask", "fifo"}
  BY DEF Filters
<1>2. DOMAIN None = {"off"}
  BY DEF None
<1>. QED  BY <1>1, <1>2

(* Standard frames have neither of the bits that tell an extended one. *)
LEMMA StandardOf ==
    ASSUME NEW id \in SUBSET WordBits, NEW mask \in SUBSET WordBits,
           NEW w \in Frames, "i" \notin w
    PROVE  Equal(w, id, mask \ {"r"})
               <=> /\ Equal(w, id, mask \cap {"s"})
                   /\ ("i" \in mask => "i" \notin id) /\ "l" \notin id \cap mask
BY DEF Equal, Frames, WordBits

(* Extended frames have the bit that tells them, which the elements leave out. *)
LEMMA ExtendedOf ==
    ASSUME NEW id \in SUBSET WordBits, NEW mask \in SUBSET WordBits,
           NEW w \in Frames, "i" \in w
    PROVE  Equal(w, id, mask \ {"r"})
               <=> Equal(w, id, mask \cap {"s", "l"}) /\ ("i" \in mask => "i" \in id)
BY DEF Equal, Frames, WordBits

(* The elements the driver writes for a filter let through what it means. *)
LEMMA StdElement ==
    ASSUME NEW f \in Filters,
           NEW e, e = IF ("i" \in f.mask => "i" \notin f.id) /\ "l" \notin f.id \cap f.mask
                      THEN [fifo |-> f.fifo, id |-> f.id, mask |-> f.mask] ELSE None
    PROVE  StdIs(e, f)
<1> SUFFICES ASSUME NEW w \in Frames, "i" \notin w PROVE StdPass(e, w) = FdMeans(f, w)
  BY DEF StdIs
<1>1. /\ f # None /\ f.id \in SUBSET WordBits /\ f.mask \in SUBSET WordBits
      /\ [fifo |-> f.fifo, id |-> f.id, mask |-> f.mask] \in Filters
  BY FilterIsSome DEF Filters
<1>2. [fifo |-> f.fifo, id |-> f.id, mask |-> f.mask] # None
  BY <1>1, FilterIsSome
<1>. QED  BY <1>1, <1>2, StandardOf DEF StdPass, FdMeans

(* The same, of the extended element and its mask. *)
LEMMA ExtElement ==
    ASSUME NEW f \in Filters,
           NEW e, e = IF "i" \in f.mask => "i" \in f.id THEN [fifo |-> f.fifo, id |-> f.id]
                      ELSE None
    PROVE  ExtIs(e, f.mask, f)
<1> SUFFICES ASSUME NEW w \in Frames, "i" \in w PROVE ExtPass(e, f.mask, w) = FdMeans(f, w)
  BY DEF ExtIs
<1>1. f # None /\ f.id \in SUBSET WordBits /\ f.mask \in SUBSET WordBits
  BY FilterIsSome DEF Filters
<1>2. [fifo |-> f.fifo, id |-> f.id] # None
  <2>1. DOMAIN [fifo |-> f.fifo, id |-> f.id] = {"fifo", "id"} /\ DOMAIN None = {"off"}
    BY DEF None
  <2>. QED  BY <2>1
<1>. QED  BY <1>1, <1>2, ExtendedOf DEF ExtPass, FdMeans

(* A bank without elements lets nothing through, as no filter at all. *)
LEMMA NothingIs == StdIs(None, None) /\ \A m : ExtIs(None, m, None)
BY DEF StdIs, ExtIs, StdPass, ExtPass, FdMeans

(* No element at all stands for a filter that has none of that format. *)
LEMMA ExtNone == \A m, n, f : ExtIs(None, m, f) => ExtIs(None, n, f)
BY DEF ExtIs, ExtPass

(* The elements and the words let through what they should. *)
LEMMA PassesIs ==
    ASSUME FilterTypes, NEW k \in Keys, NEW w \in Frames
    PROVE  fl_h7 => Passes(k, w) = IF "i" \in w THEN ExtPass(ext_id[k], ext_mask[k], w)
                                   ELSE StdPass(std[k], w)
BY DEF Passes, FdMatch, StdPass, ExtPass

(* What a filter means, for each of the two drivers. *)
LEMMA MeansIs ==
    ASSUME FilterTypes, NEW f \in Filters \cup {None}, NEW w \in Frames
    PROVE  /\ fl_h7 => Means(f, w) = FdMeans(f, w)
           /\ ~fl_h7 => Means(f, w) = IF BxMatch(f, w) THEN f.fifo ELSE -1
<1>1. CASE f = None
  BY <1>1 DEF Means, FdMeans, BxMatch
<1>2. ASSUME f \in Filters, NEW m \in SUBSET WordBits
      PROVE  /\ [f EXCEPT !.mask = m].id = f.id /\ [f EXCEPT !.mask = m].mask = m
             /\ [f EXCEPT !.mask = m] # None
  BY <1>2, FilterIsSome DEF Filters
<1>3. CASE f \in Filters
  <2>1. f.mask \in SUBSET WordBits /\ f.mask \ {"r"} \in SUBSET WordBits /\ f # None
    BY <1>3, FilterIsSome DEF Filters
  <2>2. CASE fl_h7
    BY <1>2, <1>3, <2>1, <2>2 DEF Means, FdMeans, BxMatch
  <2>3. CASE ~fl_h7
    BY <1>2, <1>3, <2>1, <2>3 DEF Means, BxMatch
  <2>. QED  BY <2>2, <2>3
<1>. QED  BY <1>1, <1>3

(* The call begins: the bank is still what it was. *)
LEMMA SetFilterStep ==
    ASSUME FilterInv, NEW c \in {1, 2}, NEW slot, NEW to_fifo \in {0, 1}, NEW id \in Ids,
           NEW mask \in Masks, SetFilter(c, slot, to_fifo, id, mask)
    PROVE  FilterInv'
<1>. DEFINE k == Bank(c, slot)
            f == [id |-> id, mask |-> mask, fifo |-> to_fifo]
<1>1. /\ fl_pc = "idle" /\ fl_pc' = "out" /\ k \in Keys
      /\ fl_arg' = [key |-> k, id |-> id, mask |-> mask, fifo |-> to_fifo]
      /\ was' = set /\ set' = [set EXCEPT ![k] = f]
      /\ UNCHANGED <<fl_h7, std, ext_id, ext_mask, fr, active, finit>>
  BY DEF SetFilter, Accepted
<1>2. f \in Filters /\ fl_arg' \in Args /\ fl_arg'.key = k /\ ArgFilter' = f
  BY <1>1, FilterAssumption DEF Filters, Args, ArgFilter
<1>. HIDE DEF k, f
<1>3. set' \in [Keys -> Filters \cup {None}] /\ set'[k] = f
  BY <1>1, <1>2 DEF FilterInv, FilterTypes
<1>4. FilterTypes'
  BY <1>1, <1>2, <1>3 DEF FilterInv, FilterTypes, H7Steps, L4Steps
<1>5. \A j \in Keys : j # k => set'[j] = set[j]
  BY <1>1 DEF FilterInv, FilterTypes
<1>6. \A j \in Keys : ~Changing(j) /\ (Changing(j)' <=> j = k)
  BY <1>1, <1>2 DEF Changing
<1>7. OthersKept'
  BY <1>1, <1>5, <1>6 DEF OthersKept
<1>8. ASSUME fl_h7' PROVE BanksH7'
  <2>1. \A j \in Keys : StdHolds(j)' = StdHolds(j) /\ ExtHolds(j)' = ExtHolds(j)
    BY <1>1, <1>5, <1>6 DEF StdHolds, ExtHolds
  <2>. QED  BY <1>1, <1>8, <2>1 DEF FilterInv, BanksH7
<1>9. ASSUME ~fl_h7' PROVE BanksL4'
  BY <1>1, <1>5, <1>6, <1>9 DEF FilterInv, BanksL4, BankHolds
<1>. QED  BY <1>4, <1>7, <1>8, <1>9 DEF FilterInv

(* A step of the call on its own bank. *)
CallMade ==
    /\ FilterTypes' /\ OthersKept' /\ fl_arg.key \in Keys /\ ArgFilter' = ArgFilter
    /\ \A k \in Keys : k # fl_arg.key =>
           /\ std'[k] = std[k] /\ ext_id'[k] = ext_id[k] /\ ext_mask'[k] = ext_mask[k]
           /\ fr'[k] = fr[k] /\ ~Changing(k) /\ ~Changing(k)'

(* A step of the call: the types hold, and banks it is not about are left alone. *)
LEMMA CallTypes ==
    ASSUME FilterInv, fl_pc # "idle", NEW step, CallStep(step),
           step \in IF fl_h7 THEN H7Steps ELSE L4Steps,
           NEW s, std' = std \/ std' = [std EXCEPT ![fl_arg.key] = s],
           NEW i, ext_id' = ext_id \/ ext_id' = [ext_id EXCEPT ![fl_arg.key] = i],
           NEW m, ext_mask' = ext_mask \/ ext_mask' = [ext_mask EXCEPT ![fl_arg.key] = m],
           NEW r, fr' = fr \/ fr' = [fr EXCEPT ![fl_arg.key] = r]
    PROVE  CallMade
<1>1. fl_arg.key \in Keys /\ fl_arg \in Args
  BY DEF FilterInv, FilterTypes, Args
<1>2. /\ std' = [k \in Keys |-> std'[k]] /\ ext_id' = [k \in Keys |-> ext_id'[k]]
      /\ ext_mask' = [k \in Keys |-> ext_mask'[k]] /\ fr' = [k \in Keys |-> fr'[k]]
  BY DEF FilterInv, FilterTypes
<1>3. ArgFilter' = ArgFilter /\ UNCHANGED <<fl_h7, fl_arg, was, set>> /\ fl_pc' = step
  BY DEF CallStep, ArgFilter
<1>4. FilterTypes'
  BY <1>1, <1>2, <1>3 DEF FilterInv, FilterTypes
<1>5. \A k \in Keys : k # fl_arg.key => ~Changing(k) /\ ~Changing(k)'
  BY <1>3 DEF Changing
<1>6. OthersKept'
  BY <1>3, <1>5 DEF FilterInv, OthersKept, Changing
<1>7. \A k \in Keys : k # fl_arg.key =>
          /\ std'[k] = std[k] /\ ext_id'[k] = ext_id[k] /\ ext_mask'[k] = ext_mask[k]
          /\ fr'[k] = fr[k]
  BY <1>1 DEF FilterInv, FilterTypes
<1>. QED  BY <1>1, <1>3, <1>4, <1>5, <1>6, <1>7 DEF CallMade

(* FDCAN: a step that leaves the elements of other banks, and makes these right. *)
LEMMA H7Step ==
    ASSUME FilterInv, fl_h7, fl_h7', fl_pc # "idle", fl_pc' \in H7Steps, CallMade,
           UNCHANGED <<set, was, fl_arg>>,
           StdIs(std[fl_arg.key]', StdHolds(fl_arg.key)'),
           ExtIs(ext_id[fl_arg.key]', ext_mask[fl_arg.key]', ExtHolds(fl_arg.key)'),
           fl_pc' \in {"out ext", "std"} => std'[fl_arg.key] = None,
           fl_pc' \in {"std", "ext mask", "ext"} => ext_id'[fl_arg.key] = None,
           fl_pc' \in {"ext mask", "ext"} => WantExtended,
           fl_pc' = "ext" => ext_mask'[fl_arg.key] = fl_arg.mask
    PROVE  FilterInv'
<1>. USE DEF CallMade
<1>1. WantExtended' <=> WantExtended
  BY DEF WantExtended, IdeMatters, IdeExtended
<1>2. ASSUME NEW k \in Keys, k # fl_arg.key
      PROVE  StdHolds(k)' = StdHolds(k) /\ ExtHolds(k)' = ExtHolds(k)
  BY <1>2 DEF StdHolds, ExtHolds
<1>3. ASSUME NEW k \in Keys
      PROVE  StdIs(std[k]', StdHolds(k)') /\ ExtIs(ext_id[k]', ext_mask[k]', ExtHolds(k)')
  BY <1>2 DEF FilterInv, BanksH7
<1>. QED  BY <1>1, <1>3 DEF FilterInv, BanksH7

(* What the call knows in the middle of it. *)
LEMMA CallKnows ==
    ASSUME FilterInv, fl_pc # "idle"
    PROVE  /\ fl_arg.key \in Keys /\ Changing(fl_arg.key)
           /\ set[fl_arg.key] = ArgFilter /\ ArgFilter \in Filters
           /\ ArgFilter.id = fl_arg.id /\ ArgFilter.mask = fl_arg.mask
           /\ ArgFilter.fifo = fl_arg.fifo
BY DEF FilterInv, FilterTypes, Args, Filters, ArgFilter, Changing

(* FDCAN: the standard element is switched off: the bank takes no standard frame. *)
LEMMA DisableStdStep == FilterInv /\ DisableStd => FilterInv'
<1> SUFFICES ASSUME FilterInv, DisableStd PROVE FilterInv'
  OBVIOUS
<1>1. /\ fl_h7 /\ fl_pc = "out" /\ CallStep("out ext") /\ UNCHANGED <<ext_id, ext_mask, fr>>
      /\ std' = [std EXCEPT ![fl_arg.key] = None]
  BY DEF DisableStd, l4Regs
<1>2. std'[fl_arg.key] = None
  BY <1>1, CallKnows DEF FilterInv, FilterTypes
<1>3. /\ fl_h7' /\ fl_pc' = "out ext" /\ UNCHANGED <<set, was, fl_arg>>
      /\ Changing(fl_arg.key) /\ Changing(fl_arg.key)'
  BY <1>1 DEF CallStep, Changing
<1>4. StdHolds(fl_arg.key)' = None /\ ExtHolds(fl_arg.key)' = ExtHolds(fl_arg.key)
  BY <1>1, <1>3 DEF StdHolds, ExtHolds
<1>5. ExtIs(ext_id[fl_arg.key]', ext_mask[fl_arg.key]', ExtHolds(fl_arg.key)')
  BY <1>1, <1>3, <1>4, CallKnows DEF FilterInv, BanksH7
<1>6. CallMade
  BY <1>1, <1>2, CallTypes DEF CallMade, H7Steps
<1>7. StdIs(std[fl_arg.key]', StdHolds(fl_arg.key)')
  BY <1>2, <1>3, <1>4, NothingIs
<1>. QED  BY <1>1, <1>2, <1>3, <1>5, <1>6, <1>7, H7Step DEF H7Steps

(* FDCAN: so is the extended one. *)
LEMMA DisableExtStep == FilterInv /\ DisableExt => FilterInv'
<1> SUFFICES ASSUME FilterInv, DisableExt PROVE FilterInv'
  OBVIOUS
<1>1. /\ fl_pc = "out ext" /\ CallStep("std") /\ UNCHANGED <<std, ext_mask, fr>>
      /\ ext_id' = [ext_id EXCEPT ![fl_arg.key] = None]
  BY DEF DisableExt, ExtDisabled, l4Regs
<1>2. ext_id'[fl_arg.key] = None /\ fl_h7
  BY <1>1, CallKnows DEF FilterInv, FilterTypes, L4Steps
<1>3. /\ fl_h7' /\ fl_pc' = "std" /\ UNCHANGED <<set, was, fl_arg>>
      /\ Changing(fl_arg.key) /\ Changing(fl_arg.key)'
  BY <1>1, <1>2 DEF CallStep, Changing
<1>4. /\ ExtHolds(fl_arg.key)' = None
      /\ StdHolds(fl_arg.key)' = None /\ StdHolds(fl_arg.key) = None
  BY <1>1, <1>3 DEF StdHolds, ExtHolds
<1>5. std'[fl_arg.key] = None
  BY <1>1, <1>2, <1>4, CallKnows DEF FilterInv, BanksH7
<1>6. CallMade
  BY <1>1, <1>2, CallTypes DEF CallMade, H7Steps
<1>7. StdIs(std[fl_arg.key]', StdHolds(fl_arg.key)')
  BY <1>3, <1>4, <1>5, NothingIs
<1>8. ExtIs(ext_id[fl_arg.key]', ext_mask[fl_arg.key]', ExtHolds(fl_arg.key)')
  BY <1>2, <1>3, <1>4, NothingIs
<1>. QED  BY <1>1, <1>2, <1>3, <1>5, <1>6, <1>7, <1>8, H7Step DEF H7Steps

(* FDCAN: the standard element is written. *)
LEMMA SetStdStep == FilterInv /\ SetStd => FilterInv'
<1> SUFFICES ASSUME FilterInv, SetStd PROVE FilterInv'
  OBVIOUS
<1>. DEFINE e == [fifo |-> fl_arg.fifo, id |-> fl_arg.id, mask |-> fl_arg.mask]
            next == IF WantExtended THEN "ext mask" ELSE "idle"
<1>1. /\ fl_pc = "std" /\ CallStep(next) /\ UNCHANGED <<ext_id, ext_mask, fr>>
      /\ std' = IF WantStandard THEN [std EXCEPT ![fl_arg.key] = e] ELSE std
  BY DEF SetStd, l4Regs
<1>2. /\ fl_h7 /\ fl_h7' /\ fl_pc' = next /\ UNCHANGED <<set, was, fl_arg>>
      /\ std[fl_arg.key] = None /\ ext_id[fl_arg.key] = None
  BY <1>1 DEF CallStep, FilterInv, FilterTypes, L4Steps, BanksH7
<1>3. std'[fl_arg.key] = IF WantStandard THEN e ELSE None
  BY <1>1, <1>2, CallKnows DEF FilterInv, FilterTypes
<1>4. StdIs(std'[fl_arg.key], ArgFilter)
  BY <1>1, <1>3, CallKnows, StdElement DEF WantStandard, IdeMatters, IdeExtended
<1>5. StdHolds(fl_arg.key)' = ArgFilter
  BY <1>1, <1>2, CallKnows DEF StdHolds
<1>6. ext_id'[fl_arg.key] = None
  BY <1>1, <1>2
<1>7. ExtIs(None, ext_mask[fl_arg.key]', ExtHolds(fl_arg.key)')
  <2>1. CASE WantExtended
    <3>1. ExtHolds(fl_arg.key)' = None
      BY <1>2, <2>1, CallKnows DEF ExtHolds, Changing
    <3>. QED  BY <3>1, NothingIs
  <2>2. CASE ~WantExtended
    <3>1. ExtHolds(fl_arg.key)' = ArgFilter
      BY <1>1, <1>2, <2>2, CallKnows DEF ExtHolds, Changing
    <3>2. ExtIs(None, ArgFilter.mask, ArgFilter)
      BY <1>1, <2>2, CallKnows, ExtElement DEF WantExtended, IdeMatters, IdeExtended
    <3>. QED  BY <3>1, <3>2, ExtNone
  <2>. QED  BY <2>1, <2>2
<1>8. CallMade
  BY <1>1, <1>2, CallTypes DEF H7Steps
<1>. QED  BY <1>1, <1>2, <1>4, <1>5, <1>6, <1>7, <1>8, H7Step DEF H7Steps

(* FDCAN: the mask of the extended element is, while that is off. *)
LEMMA SetExtMaskStep == FilterInv /\ SetExtMask => FilterInv'
<1> SUFFICES ASSUME FilterInv, SetExtMask PROVE FilterInv'
  OBVIOUS
<1>1. /\ fl_pc = "ext mask" /\ CallStep("ext") /\ UNCHANGED <<std, ext_id, fr>>
      /\ ext_mask' = [ext_mask EXCEPT ![fl_arg.key] = fl_arg.mask]
  BY DEF SetExtMask, l4Regs
<1>2. ext_mask'[fl_arg.key] = fl_arg.mask
  BY <1>1, CallKnows DEF FilterInv, FilterTypes
<1>3. /\ fl_h7 /\ fl_h7' /\ fl_pc' = "ext" /\ UNCHANGED <<set, was, fl_arg>>
      /\ Changing(fl_arg.key) /\ Changing(fl_arg.key)' /\ WantExtended
      /\ ext_id'[fl_arg.key] = None
  BY <1>1 DEF CallStep, Changing, FilterInv, FilterTypes, L4Steps, BanksH7
<1>4. ExtHolds(fl_arg.key)' = None /\ StdHolds(fl_arg.key)' = StdHolds(fl_arg.key)
  BY <1>1, <1>3 DEF StdHolds, ExtHolds
<1>5. StdIs(std[fl_arg.key]', StdHolds(fl_arg.key)')
  BY <1>1, <1>3, <1>4, CallKnows DEF FilterInv, BanksH7
<1>6. CallMade
  BY <1>1, <1>3, CallTypes DEF H7Steps
<1>. QED  BY <1>1, <1>2, <1>3, <1>4, <1>5, <1>6, NothingIs, H7Step DEF H7Steps

(* FDCAN: the extended element is, and the call is over. *)
LEMMA SetExtStep == FilterInv /\ SetExt => FilterInv'
<1> SUFFICES ASSUME FilterInv, SetExt PROVE FilterInv'
  OBVIOUS
<1>. DEFINE e == [fifo |-> fl_arg.fifo, id |-> fl_arg.id]
<1>1. /\ fl_pc = "ext" /\ CallStep("idle") /\ UNCHANGED <<std, ext_mask, fr>>
      /\ ext_id' = [ext_id EXCEPT ![fl_arg.key] = e]
  BY DEF SetExt, l4Regs
<1>2. /\ fl_h7 /\ fl_h7' /\ fl_pc' = "idle" /\ UNCHANGED <<set, was, fl_arg>>
      /\ WantExtended /\ ext_mask[fl_arg.key] = fl_arg.mask
  BY <1>1 DEF CallStep, FilterInv, FilterTypes, L4Steps, BanksH7
<1>3. ext_id'[fl_arg.key] = e
  BY <1>1, CallKnows DEF FilterInv, FilterTypes
<1>4. ExtIs(e, ArgFilter.mask, ArgFilter)
  BY <1>1, <1>2, CallKnows, ExtElement DEF WantExtended, IdeMatters, IdeExtended
<1>5. /\ ExtHolds(fl_arg.key)' = ArgFilter /\ StdHolds(fl_arg.key)' = ArgFilter
      /\ StdHolds(fl_arg.key) = ArgFilter
  BY <1>1, <1>2, CallKnows DEF StdHolds, ExtHolds, Changing
<1>6. StdIs(std[fl_arg.key]', ArgFilter)
  BY <1>1, <1>2, <1>5, CallKnows DEF FilterInv, BanksH7
<1>7. CallMade
  BY <1>1, <1>2, CallTypes DEF H7Steps
<1>8. ExtIs(ext_id[fl_arg.key]', ext_mask[fl_arg.key]', ArgFilter)
  BY <1>1, <1>2, <1>3, <1>4, CallKnows
<1>. QED  BY <1>1, <1>2, <1>5, <1>6, <1>7, <1>8, H7Step DEF H7Steps

(* bxCAN: nothing is received while the bank of the call is set up. *)
LEMMA L4Step ==
    ASSUME FilterInv, EnterFinit \/ Deactivate \/ SetWords \/ Activate \/ LeaveFinit
    PROVE  FilterInv'
<1>2. PICK step \in L4Steps :
          /\ CallStep(step) /\ ~fl_h7 /\ fl_pc # "idle" /\ UNCHANGED <<std, ext_id, ext_mask>>
          /\ fr' = fr \/ fr' = [fr EXCEPT ![fl_arg.key] = ArgFilter]
  BY DEF EnterFinit, Deactivate, SetWords, Activate, LeaveFinit, h7Regs, ArgFilter, L4Steps,
     H7Steps, CallStep, FilterInv, FilterTypes
<1>3. CallMade
  BY <1>2, CallTypes
<1>4. /\ ~fl_h7' /\ UNCHANGED <<set, was, fl_arg>> /\ fl_pc' = step /\ Changing(fl_arg.key)
      /\ fl_arg.key \in Keys /\ set[fl_arg.key] = ArgFilter /\ ArgFilter # None
  BY <1>2, CallKnows, FilterIsSome DEF CallStep
<1>5. \A k \in Keys : k # fl_arg.key => (k \in active' <=> k \in active)
  BY DEF EnterFinit, Deactivate, SetWords, Activate, LeaveFinit
<1>6. \A k \in Keys : k # fl_arg.key => BankHolds(k, set[k])'
  BY <1>2, <1>3, <1>4, <1>5 DEF FilterInv, BanksL4, BankHolds, CallMade
<1>7. finit' <=> fl_pc' \notin {"idle", "out"}
  BY <1>2 DEF EnterFinit, Deactivate, SetWords, Activate, LeaveFinit, FilterInv, BanksL4, CallStep
<1>8. fl_pc' # "out"
  BY DEF EnterFinit, Deactivate, SetWords, Activate, LeaveFinit, CallStep
<1>9. fl_pc' \in {"activate", "leave", "idle"} => fr'[fl_arg.key] = ArgFilter
  <2>1. CASE SetWords
    BY <2>1, <1>4 DEF SetWords, ArgFilter, FilterInv, FilterTypes
  <2>2. CASE Activate \/ LeaveFinit
    BY <2>2, <1>2 DEF Activate, LeaveFinit, FilterInv, BanksL4
  <2>. QED  BY <2>1, <2>2 DEF EnterFinit, Deactivate, CallStep
<1>10. fl_pc' \in {"leave", "idle"} => fl_arg.key \in active'
  BY <1>2 DEF EnterFinit, Deactivate, SetWords, Activate, LeaveFinit, CallStep, FilterInv, BanksL4
<1>11. BanksL4'
  <2>1. ASSUME NEW k \in Keys, ~Changing(k)' PROVE BankHolds(k, set[k])'
    BY <1>4, <1>6, <1>9, <1>10, <2>1 DEF Changing, BankHolds
  <2>. QED  BY <1>3, <1>4, <1>7, <1>8, <1>9, <1>10, <2>1 DEF BanksL4, CallMade
<1>. QED  BY <1>3, <1>4, <1>11 DEF FilterInv, CallMade

(* Every bank lets through what its filter means, and no more while it changes. *)
THEOREM FilterIsExact == FilterSpec => []FilterExact
<1>1. FilterInit => FilterInv
  <2> SUFFICES ASSUME FilterInit PROVE FilterInv
    OBVIOUS
  <2>1. FilterTypes
    BY DEF FilterInit, FilterTypes, H7Steps, L4Steps
  <2>2. \A k \in Keys : ~Changing(k) /\ set[k] = None /\ std[k] = None /\ ext_id[k] = None
    BY DEF FilterInit, Changing
  <2>3. BanksH7
    BY <2>2, NothingIs DEF FilterInit, BanksH7, StdHolds, ExtHolds
  <2>4. BanksL4
    BY <2>2 DEF FilterInit, BanksL4, BankHolds
  <2>5. OthersKept
    BY DEF FilterInit, OthersKept
  <2>. QED  BY <2>1, <2>3, <2>4, <2>5 DEF FilterInv
<1>2. FilterInv => FilterExact
  <2> SUFFICES ASSUME FilterInv, NEW k \in Keys, NEW w \in Frames
               PROVE  IF fl_pc = "idle" THEN Passes(k, w) = Means(set[k], w)
                      ELSE Passes(k, w) \in {-1, Means(was[k], w), Means(set[k], w)}
    BY DEF FilterExact
  <2>1. /\ set[k] \in Filters \cup {None} /\ was[k] \in Filters \cup {None} /\ FilterTypes
        /\ fl_h7 \in BOOLEAN
    BY DEF FilterInv, FilterTypes
  <2>2. CASE fl_h7
    <3>1. \E f \in {StdHolds(k), ExtHolds(k)} : Passes(k, w) = FdMeans(f, w)
      BY <2>1, <2>2, PassesIs DEF FilterInv, BanksH7, StdIs, ExtIs
    <3>2. /\ {StdHolds(k), ExtHolds(k)} \subseteq {set[k], was[k], None}
          /\ fl_pc = "idle" => StdHolds(k) = set[k] /\ ExtHolds(k) = set[k]
      BY DEF StdHolds, ExtHolds, Changing
    <3>3. FdMeans(None, w) = -1
      BY DEF FdMeans
    <3>4. Means(set[k], w) = FdMeans(set[k], w) /\ Means(was[k], w) = FdMeans(was[k], w)
      BY <2>1, <2>2, MeansIs
    <3>. QED  BY <3>1, <3>2, <3>3, <3>4
  <2>3. CASE ~fl_h7
    <3>1. /\ Means(set[k], w) = IF BxMatch(set[k], w) THEN set[k].fifo ELSE -1
          /\ Means(was[k], w) = IF BxMatch(was[k], w) THEN was[k].fifo ELSE -1
      BY <2>1, <2>3, MeansIs
    <3>2. CASE finit
      BY <2>3, <3>2 DEF Passes, FilterInv, BanksL4
    <3>3. CASE ~finit
      <4>1. BankHolds(k, set[k]) \/ (fl_pc = "out" /\ BankHolds(k, was[k]))
        BY <2>3, <3>3 DEF FilterInv, BanksL4, Changing
      <4>2. fl_pc = "idle" => BankHolds(k, set[k])
        BY <2>3 DEF FilterInv, BanksL4, Changing
      <4>3. \A f : BankHolds(k, f) => Passes(k, w) = IF BxMatch(f, w) THEN f.fifo ELSE -1
        BY <2>3, <3>3 DEF Passes, BankHolds, BxMatch
      <4>. QED  BY <3>1, <4>1, <4>2, <4>3
    <3>. QED  BY <3>2, <3>3
  <2>. QED  BY <2>1, <2>2, <2>3
<1>3. FilterInv /\ [FilterNext]_filterVars => FilterInv'
  <2> SUFFICES ASSUME FilterInv, [FilterNext]_filterVars PROVE FilterInv'
    OBVIOUS
  <2>1. CASE UNCHANGED filterVars
    BY <2>1 DEF filterVars, FilterInv, FilterTypes, OthersKept, Changing, ArgFilter, BanksH7,
       BanksL4, BankHolds, StdHolds, ExtHolds, WantExtended, IdeMatters, IdeExtended
  <2>. QED  BY <2>1, SetFilterStep, DisableStdStep, DisableExtStep, SetStdStep, SetExtMaskStep,
               SetExtStep, L4Step DEF FilterNext
<1>. QED  BY <1>1, <1>2, <1>3, PTL DEF FilterSpec

--------------------------------------------------------------------------------
(***************************************************************************)
(* CanTiming: the best of the exact bit timings.                           *)
(***************************************************************************)
(* The specification of the search for a bit timing.                        *)
TimingSpec == TimingInit /\ [][TimingNext]_timingVars

(* How far the sample point of a split is from the one that is asked for.   *)
Off(b, q) == Distance(SamplePoint(b, q), limits.sample_point)

(* A number of quanta and the segments: its own split leaves a second       *)
(* segment, and is valid and closest to the sample point if any split is.   *)
SplitsBest(q) ==
    /\ Bs1(q) \in Int /\ q - 1 - Bs1(q) >= 1
    /\ Bs1(q) >= 1 => Off(Bs1(q), q) \in 0..1000
    /\ \A b \in 1..limits.bs1_max : q - 1 - b \in 1..limits.bs2_max =>
           /\ Bs1(q) \in 1..limits.bs1_max /\ q - 1 - Bs1(q) <= limits.bs2_max
           /\ Off(b, q) >= Off(Bs1(q), q)

(* The error of a number of quanta, and the setting it is given.            *)
ErrorOf(q) == Off(Bs1(q), q)
Setting(q) ==
    [prescaler |-> TicksPerBit \div q, bs1 |-> Bs1(q), bs2 |-> q - 1 - Bs1(q),
     sjw |-> Smaller(q - 1 - Bs1(q), limits.sjw_max)]

(* The numbers of quanta that have been tried.                              *)
Searched == (quanta + 1)..limits.quanta_max

(* What has been found so far is the best of what was searched.             *)
TimingInv ==
    /\ clock \in Nat /\ bitrate \in Nat /\ limits \in {Nominal, DataPhase}
    /\ quanta \in (limits.quanta_min - 1)..limits.quanta_max /\ best_error \in Nat
    /\ ~Tried => timing = NoTiming
    /\ timing = NoTiming => best_error = Worst /\ \A q \in Searched : ~Fits(q)
    /\ timing # NoTiming =>
           \E q \in Searched :
              /\ Fits(q) /\ best_error = ErrorOf(q) /\ timing = Setting(q)
              /\ \A r \in Searched : Fits(r) =>
                    ErrorOf(r) > best_error \/ (ErrorOf(r) = best_error /\ r <= q)

(* Quotient and remainder.                                                  *)
LEMMA Division ==
    ASSUME NEW n \in Nat, NEW d \in Nat \ {0}
    PROVE  /\ n \div d \in Nat /\ n % d \in Nat /\ n % d < d
           /\ n = (d * (n \div d)) + (n % d)
OBVIOUS

(* So it is for every number of quanta the calls try: a finite search, one  *)
(* instance for each.                                                       *)
LEMMA SplitsAre ==
    ASSUME limits \in {Nominal, DataPhase}, NEW q \in limits.quanta_min..limits.quanta_max
    PROVE  SplitsBest(q)
<1>1. CASE limits = Nominal
  <2>1. /\ limits.bs1_max = 16 /\ limits.bs2_max = 8 /\ limits.sample_point = 875
        /\ q \in 8..25
    BY <1>1 DEF Nominal
  <2>2. SplitsBest(8) /\ SplitsBest(9) /\ SplitsBest(10)
    BY <2>1 DEF SplitsBest, Bs1, Off, Distance, SamplePoint, Smaller
  <2>3. SplitsBest(11) /\ SplitsBest(12) /\ SplitsBest(13)
    BY <2>1 DEF SplitsBest, Bs1, Off, Distance, SamplePoint, Smaller
  <2>4. SplitsBest(14) /\ SplitsBest(15) /\ SplitsBest(16)
    BY <2>1 DEF SplitsBest, Bs1, Off, Distance, SamplePoint, Smaller
  <2>5. SplitsBest(17) /\ SplitsBest(18) /\ SplitsBest(19)
    BY <2>1 DEF SplitsBest, Bs1, Off, Distance, SamplePoint, Smaller
  <2>6. SplitsBest(20) /\ SplitsBest(21) /\ SplitsBest(22)
    BY <2>1 DEF SplitsBest, Bs1, Off, Distance, SamplePoint, Smaller
  <2>7. SplitsBest(23) /\ SplitsBest(24) /\ SplitsBest(25)
    BY <2>1 DEF SplitsBest, Bs1, Off, Distance, SamplePoint, Smaller
  <2>. QED  BY <2>1, <2>2, <2>3, <2>4, <2>5, <2>6, <2>7
<1>2. CASE limits = DataPhase
  <2>1. /\ limits.bs1_max = 32 /\ limits.bs2_max = 16 /\ limits.sample_point = 800
        /\ q \in 5..25
    BY <1>2 DEF DataPhase
  <2>2. SplitsBest(5) /\ SplitsBest(6) /\ SplitsBest(7)
    BY <2>1 DEF SplitsBest, Bs1, Off, Distance, SamplePoint, Smaller
  <2>3. SplitsBest(8) /\ SplitsBest(9) /\ SplitsBest(10)
    BY <2>1 DEF SplitsBest, Bs1, Off, Distance, SamplePoint, Smaller
  <2>4. SplitsBest(11) /\ SplitsBest(12) /\ SplitsBest(13)
    BY <2>1 DEF SplitsBest, Bs1, Off, Distance, SamplePoint, Smaller
  <2>5. SplitsBest(14) /\ SplitsBest(15) /\ SplitsBest(16)
    BY <2>1 DEF SplitsBest, Bs1, Off, Distance, SamplePoint, Smaller
  <2>6. SplitsBest(17) /\ SplitsBest(18) /\ SplitsBest(19)
    BY <2>1 DEF SplitsBest, Bs1, Off, Distance, SamplePoint, Smaller
  <2>7. SplitsBest(20) /\ SplitsBest(21) /\ SplitsBest(22)
    BY <2>1 DEF SplitsBest, Bs1, Off, Distance, SamplePoint, Smaller
  <2>8. SplitsBest(23) /\ SplitsBest(24) /\ SplitsBest(25)
    BY <2>1 DEF SplitsBest, Bs1, Off, Distance, SamplePoint, Smaller
  <2>. QED  BY <2>1, <2>2, <2>3, <2>4, <2>5, <2>6, <2>7, <2>8
<1>. QED  BY <1>1, <1>2

(* There is one quotient and remainder.                                     *)
LEMMA DivisionUnique ==
    ASSUME NEW n \in Nat, NEW d \in Nat \ {0}, NEW k \in Nat, NEW r \in Nat, r < d, n = d * k + r
    PROVE  n \div d = k /\ n % d = r
<1>. DEFINE a == n \div d
            x == n % d
<1>1. a \in Nat /\ x \in Nat /\ x < d /\ d * k + r = d * a + x
  BY Division
<1>. HIDE DEF a, x
<1>2. CASE a > k
  <2>. DEFINE e == a - k
  <2>1. e \in Nat \ {0} /\ d * a = d * k + d * e
    BY <1>1, <1>2
  <2>. HIDE DEF e
  <2>2. d * e >= d
    BY <2>1
  <2>. QED  BY <1>1, <2>1, <2>2
<1>3. CASE a < k
  <2>. DEFINE e == k - a
  <2>1. e \in Nat \ {0} /\ d * k = d * a + d * e
    BY <1>1, <1>3
  <2>. HIDE DEF e
  <2>2. d * e >= d
    BY <2>1
  <2>. QED  BY <1>1, <2>1, <2>2
<1>4. CASE a = k
  <2>1. a = k /\ x = r
    BY <1>1, <1>4
  <2>. QED  BY <2>1 DEF a, x
<1>. QED  BY <1>1, <1>2, <1>3, <1>4

(* A setting that gives exactly the bit rate is one of its number of quanta. *)
LEMMA ExactDivides ==
    ASSUME clock \in Nat, bitrate \in Nat, Tried, NEW q \in Nat \ {0}
    PROVE  /\ TicksPerBit \in Nat /\ clock = bitrate * TicksPerBit
           /\ clock % (bitrate * q) = 0 <=> TicksPerBit % q = 0
           /\ TicksPerBit % q = 0 => /\ clock \div (bitrate * q) = TicksPerBit \div q
                                     /\ clock = bitrate * q * (TicksPerBit \div q)
<1>. DEFINE T == TicksPerBit
            w == bitrate * q
            k == T \div q
            m == clock \div w
<1>1. bitrate \in Nat \ {0} /\ clock \in Nat \ {0} /\ clock % bitrate = 0
  BY DEF Tried
<1>2. T \in Nat /\ clock = bitrate * T
  BY <1>1, Division DEF TicksPerBit
<1>3. w \in Nat \ {0}
  BY <1>1
<1>4. ASSUME T % q = 0 PROVE clock % w = 0 /\ m = k /\ clock = w * k
  <2>1. k \in Nat /\ T = q * k
    BY <1>2, <1>4, Division
  <2>. HIDE DEF k
  <2>2. clock = w * k
    BY <1>1, <1>2, <2>1
  <2>. HIDE DEF w
  <2>3. clock = w * k + 0
    BY <1>3, <2>1, <2>2
  <2>. QED  BY <1>1, <1>3, <2>1, <2>2, <2>3, DivisionUnique
<1>5. ASSUME clock % w = 0 PROVE T % q = 0
  <2>1. m \in Nat /\ clock = w * m
    <3>. HIDE DEF w
    <3>1. m \in Nat /\ clock = (w * m) + (clock % w)
      BY <1>1, <1>3, Division
    <3>. HIDE DEF m
    <3>2. w * m \in Nat
      BY <1>3, <3>1
    <3>. QED  BY <1>5, <3>1, <3>2
  <2>. HIDE DEF m
  <2>2. bitrate * T = bitrate * (q * m)
    BY <1>1, <1>2, <2>1
  <2>3. T = q * m
    <3>. DEFINE x == q * m
    <3>1. x \in Nat /\ bitrate * T = bitrate * x
      BY <2>1, <2>2
    <3>. HIDE DEF x, T
    <3>2. T = x
      BY <1>1, <1>2, <3>1
    <3>. QED  BY <3>2 DEF x
  <2>4. T = q * m + 0
    BY <2>1, <2>3
  <2>. HIDE DEF T
  <2>. QED  BY <1>2, <2>1, <2>4, DivisionUnique
<1>. QED  BY <1>2, <1>4, <1>5

(* A split that is valid is an error below Worst, and has two segments.     *)
LEMMA FitsIs ==
    ASSUME limits \in {Nominal, DataPhase}, NEW q \in limits.quanta_min..limits.quanta_max, Fits(q)
    PROVE  /\ q \in Nat /\ ErrorOf(q) \in Nat /\ ErrorOf(q) < Worst
           /\ Bs1(q) \in 1..limits.bs1_max /\ q - 1 - Bs1(q) \in 1..limits.bs2_max
           /\ q # 0 /\ TicksPerBit % q = 0 /\ TicksPerBit \div q \in 1..limits.prescaler_max
           /\ Setting(q) # NoTiming
<1>1. /\ limits.bs1_max \in Nat /\ limits.bs2_max \in Nat /\ limits.quanta_min \in Nat \ {0}
      /\ limits.quanta_max \in Nat
  BY DEF Nominal, DataPhase
<1>2. /\ TicksPerBit % q = 0 /\ TicksPerBit \div q \in 1..limits.prescaler_max
      /\ Bs1(q) \in 1..limits.bs1_max /\ q - 1 - Bs1(q) <= limits.bs2_max
  BY DEF Fits
<1>3. q - 1 - Bs1(q) >= 1 /\ ErrorOf(q) \in 0..1000
  BY <1>1, <1>2, SplitsAre DEF SplitsBest, ErrorOf
<1>4. Setting(q).prescaler # NoTiming.prescaler
  BY <1>2 DEF Setting, NoTiming, Nominal, DataPhase
<1>5. q \in Nat \ {0} /\ Bs1(q) \in Int
  BY <1>1, <1>2
<1>. QED  BY <1>1, <1>2, <1>3, <1>4, <1>5 DEF Worst

(* What a turn of the loop finds is the best of what has been tried.        *)
LEMMA TimingStep == TimingInv /\ [TimingNext]_timingVars => TimingInv'
<1>. SUFFICES ASSUME TimingInv, [TimingNext]_timingVars PROVE TimingInv'
  OBVIOUS
<1>1. CASE UNCHANGED timingVars
  BY <1>1 DEF timingVars, TimingInv, Tried, Searched, Fits, Bs1, TicksPerBit, ErrorOf, Off, Setting
<1>2. CASE TryQuanta
  <2>. DEFINE q == quanta
  <2>1. /\ clock \in Nat /\ bitrate \in Nat /\ limits \in {Nominal, DataPhase} /\ best_error \in Nat
        /\ q \in limits.quanta_min..limits.quanta_max /\ limits.quanta_min \in Nat
        /\ limits.quanta_max \in Nat
    BY <1>2 DEF TimingInv, TryQuanta, Nominal, DataPhase
  <2>2. UNCHANGED <<clock, bitrate, limits>> /\ quanta' = q - 1 /\ Tried
    BY <1>2 DEF TryQuanta
  <2>3. /\ Tried' = Tried
        /\ \A r : Fits(r)' = Fits(r) /\ ErrorOf(r)' = ErrorOf(r) /\ Setting(r)' = Setting(r)
    BY <2>2 DEF Tried, TicksPerBit, Fits, Bs1, Off, ErrorOf, Setting
  <2>4. Searched' = Searched \cup {q} /\ \A r \in Searched : r > q
    BY <2>1, <2>2 DEF Searched
  <2>5. \A r \in Searched \cup {q} : r \in limits.quanta_min..limits.quanta_max
    BY <2>1 DEF Searched
  <2>6. quanta' \in (limits.quanta_min - 1)..limits.quanta_max
    BY <2>1, <2>2
  <2>7. \A r \in Searched \cup {q} : Fits(r) => ErrorOf(r) \in Nat /\ ErrorOf(r) < Worst
    BY <2>1, <2>5, FitsIs
  <2>8. CASE Fits(q) /\ ErrorOf(q) < best_error
    <3>1. best_error' = ErrorOf(q) /\ timing' = Setting(q)
      BY <1>2, <2>8 DEF TryQuanta, Better, Off, ErrorOf, Setting
    <3>2. timing' # NoTiming
      BY <2>1, <2>8, <3>1, FitsIs
    <3>3. ASSUME NEW r \in Searched', Fits(r)
          PROVE  ErrorOf(r) > ErrorOf(q) \/ (ErrorOf(r) = ErrorOf(q) /\ r <= q)
      <4>1. CASE r = q
        BY <2>1, <4>1
      <4>2. CASE r \in Searched
        <5>1. timing # NoTiming
          BY <3>3, <4>2 DEF TimingInv
        <5>2. ErrorOf(r) > best_error \/ ErrorOf(r) = best_error
          BY <3>3, <4>2, <5>1 DEF TimingInv
        <5>. QED  BY <2>1, <2>7, <2>8, <3>3, <4>2, <5>2
      <4>. QED  BY <2>4, <4>1, <4>2
    <3>4. q \in Searched' /\ best_error' \in Nat
      BY <2>4, <2>7, <2>8, <3>1
    <3>. QED  BY <2>1, <2>2, <2>3, <2>6, <2>8, <3>1, <3>2, <3>3, <3>4 DEF TimingInv
  <2>9. CASE ~(Fits(q) /\ ErrorOf(q) < best_error)
    <3>1. UNCHANGED <<best_error, timing>>
      BY <1>2, <2>9 DEF TryQuanta, Better, Off, ErrorOf
    <3>2. CASE timing = NoTiming
      <4>1. best_error = Worst /\ \A r \in Searched : ~Fits(r)
        BY <3>2 DEF TimingInv
      <4>2. ~Fits(q)
        BY <2>7, <2>9, <4>1
      <4>. QED  BY <2>1, <2>2, <2>3, <2>4, <2>6, <3>1, <3>2, <4>1, <4>2 DEF TimingInv
    <3>3. CASE timing # NoTiming
      <4>1. PICK p \in Searched :
                /\ Fits(p) /\ best_error = ErrorOf(p) /\ timing = Setting(p)
                /\ \A r \in Searched : Fits(r) =>
                      ErrorOf(r) > best_error \/ (ErrorOf(r) = best_error /\ r <= p)
        BY <3>3 DEF TimingInv
      <4>2. Fits(q) => ErrorOf(q) > best_error \/ (ErrorOf(q) = best_error /\ q <= p)
        BY <2>1, <2>4, <2>5, <2>7, <2>9, <4>1
      <4>3. \A r \in Searched' : Fits(r) =>
                ErrorOf(r) > best_error \/ (ErrorOf(r) = best_error /\ r <= p)
        BY <2>4, <4>1, <4>2
      <4>4. p \in Searched'
        BY <2>4
      <4>. QED  BY <2>1, <2>2, <2>3, <2>6, <3>1, <3>3, <4>1, <4>3, <4>4 DEF TimingInv
    <3>. QED  BY <3>2, <3>3
  <2>. QED  BY <2>8, <2>9
<1>. QED  BY <1>1, <1>2 DEF TimingNext

(* An exact setting has a number of quanta that is tried and fits, with an  *)
(* error that is not greater than its own.                                  *)
LEMMA ExactFits ==
    ASSUME TimingInv, Tried, NEW t \in Exact
    PROVE  LET q == 1 + t[1] + t[2] IN
           /\ q \in limits.quanta_min..limits.quanta_max /\ Fits(q)
           /\ Off(t[1], q) >= ErrorOf(q)
<1>. DEFINE q == 1 + t[1] + t[2]
<1>1. /\ t[1] \in 1..limits.bs1_max /\ t[2] \in 1..limits.bs2_max
      /\ q \in limits.quanta_min..limits.quanta_max
      /\ clock % (bitrate * q) = 0 /\ clock \div (bitrate * q) \in 1..limits.prescaler_max
  BY DEF Exact
<1>2. /\ limits \in {Nominal, DataPhase} /\ limits.quanta_min \in Nat \ {0}
      /\ limits.quanta_max \in Nat /\ limits.bs1_max \in Nat /\ limits.bs2_max \in Nat
  BY DEF TimingInv, Nominal, DataPhase
<1>3. q \in Nat \ {0} /\ q - 1 - t[1] = t[2]
  BY <1>1, <1>2
<1>4. TicksPerBit % q = 0 /\ TicksPerBit \div q \in 1..limits.prescaler_max
  <2>. HIDE DEF q
  <2>. QED  BY <1>1, <1>3, ExactDivides DEF TimingInv
<1>5. SplitsBest(q)
  BY <1>1, <1>2, SplitsAre
<1>. HIDE DEF q
<1>6. /\ Bs1(q) \in 1..limits.bs1_max /\ q - 1 - Bs1(q) <= limits.bs2_max
      /\ Off(t[1], q) >= Off(Bs1(q), q)
  BY <1>1, <1>3, <1>5 DEF SplitsBest
<1>. QED  BY <1>1, <1>4, <1>6 DEF Fits, ErrorOf, q

(* What is found in the end is the best of the exact settings.              *)
LEMMA FoundIsBest == TimingInv => TimingBest
<1>. SUFFICES ASSUME TimingInv, Tried, quanta < limits.quanta_min
              PROVE  IF timing = NoTiming THEN ~Tried \/ Exact = {}
                     ELSE LET mine == <<timing.bs1, timing.bs2>>
                              q == 1 + timing.bs1 + timing.bs2
                              Error(t) == Off(t[1], 1 + t[1] + t[2])
                          IN  /\ mine \in Exact /\ clock = bitrate * q * timing.prescaler
                              /\ timing.sjw \in 1..timing.bs2
                              /\ \A t \in Exact :
                                     \/ Error(t) > Error(mine)
                                     \/ Error(t) = Error(mine) /\ 1 + t[1] + t[2] <= q
  BY DEF TimingInv, TimingBest, Off
<1>1. /\ limits \in {Nominal, DataPhase} /\ clock \in Nat /\ bitrate \in Nat
      /\ limits.quanta_min \in Nat /\ limits.quanta_max \in Nat /\ limits.sjw_max \in Nat \ {0}
      /\ limits.bs1_max \in Nat /\ limits.bs2_max \in Nat
      /\ Searched = limits.quanta_min..limits.quanta_max
  BY DEF TimingInv, Nominal, DataPhase, Searched
<1>2. CASE timing = NoTiming
  BY <1>1, <1>2, ExactFits DEF TimingInv
<1>3. CASE timing # NoTiming
  <2>1. PICK p \in Searched :
            /\ Fits(p) /\ best_error = ErrorOf(p) /\ timing = Setting(p)
            /\ \A r \in Searched : Fits(r) =>
                  ErrorOf(r) > best_error \/ (ErrorOf(r) = best_error /\ r <= p)
    BY <1>3 DEF TimingInv
  <2>2. /\ p \in Nat \ {0} /\ ErrorOf(p) \in Nat
        /\ Bs1(p) \in 1..limits.bs1_max /\ p - 1 - Bs1(p) \in 1..limits.bs2_max
        /\ TicksPerBit % p = 0 /\ TicksPerBit \div p \in 1..limits.prescaler_max
    BY <1>1, <2>1, FitsIs
  <2>3. /\ timing.bs1 = Bs1(p) /\ timing.bs2 = p - 1 - Bs1(p)
        /\ timing.prescaler = TicksPerBit \div p
        /\ timing.sjw = Smaller(p - 1 - Bs1(p), limits.sjw_max)
    BY <2>1 DEF Setting
  <2>. DEFINE mine == <<timing.bs1, timing.bs2>>
              q == 1 + timing.bs1 + timing.bs2
  <2>4. q = p /\ mine \in (1..limits.bs1_max) \X (1..limits.bs2_max)
    BY <1>1, <2>2, <2>3
  <2>5. /\ clock % (bitrate * p) = 0 /\ clock \div (bitrate * p) = TicksPerBit \div p
        /\ clock = bitrate * p * (TicksPerBit \div p)
    BY <1>1, <2>2, ExactDivides
  <2>6. mine \in Exact
    BY <1>1, <2>1, <2>2, <2>4, <2>5 DEF Exact
  <2>7. timing.sjw \in 1..timing.bs2
    BY <1>1, <2>2, <2>3 DEF Smaller
  <2>8. Off(mine[1], 1 + mine[1] + mine[2]) = ErrorOf(p)
    BY <2>3, <2>4 DEF ErrorOf
  <2>9. ASSUME NEW t \in Exact
        PROVE  LET r == 1 + t[1] + t[2] IN
               Off(t[1], r) > ErrorOf(p) \/ (Off(t[1], r) = ErrorOf(p) /\ r <= q)
    <3>. DEFINE r == 1 + t[1] + t[2]
    <3>1. r \in Searched /\ Fits(r) /\ Off(t[1], r) >= ErrorOf(r)
      BY <1>1, ExactFits
    <3>2. Off(t[1], r) \in Int
      <4>1. t[1] \in Nat /\ r \in Nat \ {0} /\ limits.sample_point \in Nat
        <5>1. t[1] \in 1..limits.bs1_max /\ t[2] \in 1..limits.bs2_max
          BY DEF Exact
        <5>2. limits.sample_point \in Nat
          BY <1>1 DEF Nominal, DataPhase
        <5>. QED  BY <1>1, <5>1, <5>2
      <4>. HIDE DEF r
      <4>2. SamplePoint(t[1], r) \in Nat
        BY <4>1, Division DEF SamplePoint
      <4>. QED  BY <4>1, <4>2 DEF Off, Distance
    <3>3. ErrorOf(r) \in Nat
      BY <1>1, <3>1, FitsIs
    <3>. HIDE DEF r
    <3>4. ErrorOf(r) > ErrorOf(p) \/ (ErrorOf(r) = ErrorOf(p) /\ r <= p)
      BY <2>1, <3>1
    <3>5. Off(t[1], r) > ErrorOf(p) \/ (Off(t[1], r) = ErrorOf(p) /\ r <= p)
      BY <2>2, <3>1, <3>2, <3>3, <3>4
    <3>. QED  BY <2>4, <3>5 DEF r
  <2>. QED  BY <1>3, <2>3, <2>4, <2>5, <2>6, <2>7, <2>8, <2>9
<1>. QED  BY <1>2, <1>3

(* uni_hal_can_timing_calc finds a setting of exactly the bit rate when the *)
(* peripheral has one, and none is better: for every clock and bit rate.    *)
THEOREM TimingIsBest == TimingSpec => []TimingBest
<1>1. TimingInit => TimingInv
  BY TimingAssumption DEF TimingInit, TimingInv, Searched, Nominal, DataPhase, NoTiming, Worst
<1>. QED  BY <1>1, TimingStep, FoundIsBest, PTL DEF TimingSpec

--------------------------------------------------------------------------------
(***************************************************************************)
(* Gpio: the pins, and the external interrupt lines they share.            *)
(***************************************************************************)
(* The contexts that name a pin, and the edges a line can listen to. *)
Banked == {c \in PinContexts : HasBank(c)}
Edges == ItEdges \cup {{}}

(* The task is in a call about a context with a pin, *)
Registering == gpio_pc \in {"cookie", "owner", "route", "unmask", "trigger", "clear", "enable"}

(* or takes a registration back. *)
TakingBack == gpio_pc \in {"mask", "forget", "unset"}

(* The context of a call has a pin, and is initialised where the call needs it. *)
GpioArgOK ==
    /\ gpio_pc # "idle" => Ctx \in Banked
    /\ Registering \/ TakingBack \/ gpio_pc = "analog" => Ctx \in gpio_inited
    /\ gpio_pc \in {"latch", "config"} => Ctx \notin gpio_inited

(* The registers of a pin. *)
PinRegisters ==
    [mode : {"OUTPUT", "INPUT", "ALTERNATE", "ANALOG"}, output : {"OPENDRAIN", "PUSHPULL"},
     pull : {"DOWN", "UP", "NO"}, speed : {"LOW", "MEDIUM", "HIGH", "VERY_HIGH"}, af : 0..15]

(* A pin is an output only as its context says, with a level that was asked for. *)
PinInv ==
    /\ pins \in [Pins -> PinRegisters] /\ asked_level \in [Pins -> SUBSET BOOLEAN]
    /\ \A c \in Banked : Driving(PinOf(c)) =>
           /\ c \in gpio_inited /\ (PinOf(c) \in high) \in asked_level[PinOf(c)]
           /\ pins[PinOf(c)].speed = SpeedOf(c.gpio_speed)
    /\ \A c \in Banked \cap gpio_inited : pins[PinOf(c)].mode = ModeOf(c.gpio_type)
    /\ gpio_pc = "latch" => asked_level[PinOf(Ctx)] = {Ctx.gpio_init}
    /\ gpio_pc = "config" => (PinOf(Ctx) \in high) \in asked_level[PinOf(Ctx)]

(* A registration of a callback, and what it takes. *)
Registrations == [ctx : Banked, edge : Edges] \cup {NotReady}

(* The values of the variables of the lines. *)
LineTypes ==
    /\ fn \in [PinContexts -> {0, 1}] /\ cookie \in [PinContexts -> {0, 1}]
    /\ g_uni_hal_gpio_ctx \in [Lines -> Banked \cup {NoContext}]
    /\ routed \in [Lines -> PortBanks] /\ trigger \in [Lines -> Edges]
    /\ latched \in [Lines -> SUBSET PortBanks]
    /\ gpio_arg \in Registrations /\ ready \in [Lines -> Registrations]
    /\ unanswered \subseteq Banked /\ calling \in BOOLEAN

(* How far a registration has come: what it has written is there, and a line that is *)
(* being registered or taken back promises nothing.                                  *)
LineInv ==
    /\ \A l \in Lines :
          /\ g_uni_hal_gpio_ctx[l] # NoContext => g_uni_hal_gpio_ctx[l].gpio_pin = l
          /\ ready[l] # NotReady => ready[l].ctx.gpio_pin = l
    /\ calling => exti # <<>>
    /\ Registering \/ TakingBack => ready[Line] = NotReady
    /\ gpio_pc \in {"unset", "analog"} => g_uni_hal_gpio_ctx[Line] # Ctx
    /\ gpio_pc \in {"owner", "route", "unmask", "trigger", "clear", "enable"} =>
           cookie[Ctx] = fn[Ctx]
    /\ gpio_pc \in {"route", "unmask", "trigger", "clear", "enable"} =>
           g_uni_hal_gpio_ctx[Line] = Ctx
    /\ gpio_pc \in {"clear", "enable"} => trigger[Line] = gpio_arg.edge
    /\ gpio_pc = "enable" => latched[Line] \subseteq {routed[Line]}

(* The inductive invariant of the pins. *)
GpioInv == GpioArgOK /\ LineTypes /\ PinInv /\ LineInv /\ EdgesAnswered

(* A context with a pin is the only one of it. *)
LEMMA BankedFacts ==
    /\ Banked \subseteq PinContexts /\ NoContext \notin Banked
    /\ \A c \in Banked : /\ PinOf(c) \in Pins /\ c.gpio_pin \in Lines /\ c.gpio_bank \in PortBanks
                         /\ PinOf(c)[1] = c.gpio_bank /\ PinOf(c)[2] = c.gpio_pin
                         /\ c.gpio_init \in BOOLEAN /\ c.gpio_speed \in 0..3
    /\ \A c, d \in Banked : PinOf(c) = PinOf(d) => c = d
    /\ \A p \in Pins : p[1] \in PortBanks /\ p[2] \in Lines /\ \E c \in Banked : p = PinOf(c)
<1>1. Banked \subseteq PinContexts /\ NoContext \notin Banked
  BY DEF Banked, HasBank, NoContext, PortBanks
<1>2. Pins = {PinOf(c) : c \in Banked}
  BY DEF Pins, Banked
<1>3. ASSUME NEW c \in Banked
      PROVE  /\ PinOf(c) \in Pins /\ c.gpio_pin \in Lines /\ c.gpio_bank \in PortBanks
             /\ PinOf(c)[1] = c.gpio_bank /\ PinOf(c)[2] = c.gpio_pin
  <2>1. PinOf(c) \in Pins /\ c.gpio_bank \in PortBanks
    BY <1>2 DEF Banked, HasBank
  <2>2. PinOf(c)[1] = c.gpio_bank /\ PinOf(c)[2] = c.gpio_pin
    BY DEF PinOf
  <2>3. PinOf(c)[2] \in Lines
    BY <2>1 DEF Lines
  <2>. QED  BY <2>1, <2>2, <2>3
<1>4. \A p \in Pins : p[1] \in PortBanks /\ p[2] \in Lines /\ \E c \in Banked : p = PinOf(c)
  BY <1>2, <1>3
<1>5. \A c \in Banked : c.gpio_init \in BOOLEAN /\ c.gpio_speed \in 0..3
  BY <1>1, GpioAssumption
<1>6. \A c, d \in Banked : PinOf(c) = PinOf(d) => c = d
  BY <1>1, GpioAssumption
<1>. QED  BY <1>1, <1>3, <1>4, <1>5, <1>6

(* No registration is one without a context. *)
LEMMA RegistrationFacts ==
    /\ NotReady \in Registrations /\ {} \in Edges /\ NotReady.edge = {}
    /\ NotReady.ctx = NoContext
    /\ \A c \in Banked, e \in Edges : /\ [ctx |-> c, edge |-> e] \in Registrations
                                     /\ [ctx |-> c, edge |-> e].ctx = c
    /\ \A r \in Registrations : r # NotReady => r.ctx \in Banked /\ r.edge \in Edges
BY DEF NotReady, Edges, Registrations

(* Where the task is in its call, and the values of the variables. *)
LEMMA TypesStep ==
    ASSUME GpioArgOK, LineTypes, [GpioNext]_gpioVars
    PROVE  GpioArgOK' /\ LineTypes'
<1>. USE DEF GpioArgOK, LineTypes, pinVars, ctxVars, lineVars, pending, edgeVars, gpioCall,
         Registering, TakingBack, Ctx, Line
<1>1. ASSUME NEW c \in PinContexts, PinInitNone(c) PROVE GpioArgOK' /\ LineTypes'
  BY RegistrationFacts, <1>1 DEF PinInitNone, GpioCall, GpioTask
<1>2. ASSUME NEW c \in PinContexts, PinInit(c) PROVE GpioArgOK' /\ LineTypes'
  BY RegistrationFacts, <1>2 DEF PinInit, GpioCall, GpioTask, Banked
<1>3. ASSUME NEW c \in PinContexts, PinDeinitNone(c) PROVE GpioArgOK' /\ LineTypes'
  BY RegistrationFacts, <1>3 DEF PinDeinitNone, GpioCall, GpioTask
<1>4. ASSUME NEW c \in PinContexts, PinDeinit(c) PROVE GpioArgOK' /\ LineTypes'
  BY RegistrationFacts, <1>4, BankedFacts DEF PinDeinit, GpioCall, GpioTask, Banked
<1>5. ASSUME NEW c \in PinContexts, NEW val \in BOOLEAN, PinSet(c, val)
      PROVE  GpioArgOK' /\ LineTypes'
  BY RegistrationFacts, <1>5 DEF PinSet, GpioCall, GpioTask
<1>6. ASSUME NEW c \in PinContexts, NEW on \in ItEdges, NEW cb \in {0, 1},
             SetInterruptCallback(c, on, cb)
      PROVE  GpioArgOK' /\ LineTypes'
  BY RegistrationFacts, <1>6, BankedFacts
     DEF SetInterruptCallback, GpioCall, GpioTask, Banked, Edges
<1>7. CASE PinLatch \/ PinConfigure \/ PinMask \/ PinAnalog
  BY <1>7 DEF PinLatch, PinConfigure, PinMask, PinAnalog, GpioAt
<1>15. CASE SyscfgClock
  BY <1>15 DEF SyscfgClock
<1>8. CASE PinForget \/ PinUnset \/ SetCookie \/ SetOwner
  BY RegistrationFacts, <1>8, BankedFacts DEF PinForget, PinUnset, SetCookie, SetOwner, GpioAt
<1>9. CASE Route \/ Unmask \/ SetTrigger \/ ClearStale
  BY RegistrationFacts, <1>9, BankedFacts DEF Route, Unmask, SetTrigger, ClearStale, GpioAt
<1>14. CASE EnableLine
  BY RegistrationFacts, <1>14, BankedFacts DEF EnableLine, GpioAt
<1>10. ASSUME NEW p \in Pins, NEW direction \in {"rise", "fall"}, PinEdge(p, direction)
       PROVE  GpioArgOK' /\ LineTypes'
  BY RegistrationFacts, <1>10, BankedFacts DEF PinEdge
<1>11. ASSUME NEW line \in Lines, ExtiEnter(line) PROVE GpioArgOK' /\ LineTypes'
  BY <1>11 DEF ExtiEnter
<1>12. CASE ExtiClear \/ ExtiCall
  BY <1>12 DEF ExtiClear, ExtiCall
<1>13. CASE UNCHANGED gpioVars
  BY <1>13 DEF gpioVars
<1>. QED  BY <1>1, <1>2, <1>3, <1>4, <1>5, <1>6, <1>7, <1>8, <1>9, <1>10, <1>11, <1>12, <1>13,
             <1>14, <1>15 DEF GpioNext

(* A write of a level changes that pin alone. *)
LEMMA LevelFacts ==
    ASSUME NEW p, NEW val \in BOOLEAN
    PROVE  ((p \in Level(p, val)) <=> val) /\ \A q : q # p => (q \in Level(p, val) <=> q \in high)
BY DEF Level

(* A configured pin has the mode, the speed and the other registers of its context. *)
LEMMA RegistersFacts ==
    ASSUME NEW c \in Banked, NEW old \in PinRegisters
    PROVE  /\ Registers(c, old) \in PinRegisters /\ Registers(c, old).mode = ModeOf(c.gpio_type)
           /\ Registers(c, old).mode = "OUTPUT" => Registers(c, old).speed = SpeedOf(c.gpio_speed)
<1>1. /\ ModeOf(c.gpio_type) \in {"OUTPUT", "INPUT", "ALTERNATE", "ANALOG"}
      /\ OutputOf(c.gpio_type) \in {"OPENDRAIN", "PUSHPULL"}
      /\ SpeedOf(c.gpio_speed) \in {"LOW", "MEDIUM", "HIGH", "VERY_HIGH"}
      /\ PullOf(c.gpio_pull) \in {"DOWN", "UP", "NO"} /\ AlternateOf(c.alternate) \in 0..15
  BY BankedFacts DEF ModeOf, OutputOf, SpeedOf, PullOf, AlternateOf
<1>2. CASE ModeOf(c.gpio_type) = "OUTPUT"
  BY <1>1, <1>2 DEF Registers, PinRegisters
<1>3. CASE ModeOf(c.gpio_type) = "ALTERNATE"
  BY <1>1, <1>3 DEF Registers, PinRegisters
<1>4. CASE ModeOf(c.gpio_type) \in {"INPUT", "ANALOG"}
  BY <1>1, <1>4 DEF Registers, PinRegisters
<1>. QED  BY <1>1, <1>2, <1>3, <1>4

(* Every step keeps outputs as their contexts say. *)
LEMMA PinStep ==
    ASSUME GpioArgOK, LineTypes, PinInv, [GpioNext]_gpioVars
    PROVE  PinInv'
<1>. USE DEF GpioArgOK, PinInv, pinVars, ctxVars, lineVars, pending, edgeVars, gpioCall,
         Registering, TakingBack, Ctx, Driving
<1>1. ASSUME UNCHANGED <<pins, high, asked_level>>,
             gpio_inited' \cap Banked = gpio_inited \cap Banked,
             gpio_pc' \notin {"latch", "config"}
      PROVE  PinInv'
  BY <1>1
<1>2. ASSUME UNCHANGED <<gpio_inited, pins, high, asked_level, gpio_pc, gpio_arg>> PROVE PinInv'
  BY <1>2
<1>3. ASSUME NEW c \in PinContexts, PinInitNone(c) \/ PinDeinitNone(c) PROVE PinInv'
  BY <1>1, <1>3 DEF PinInitNone, PinDeinitNone, GpioCall, GpioTask, Banked
<1>4. ASSUME NEW c \in PinContexts, PinInit(c) PROVE PinInv'
  <2>1. c \in Banked /\ c \notin gpio_inited /\ gpio_arg'.ctx = c
    BY <1>4 DEF PinInit, Banked, GpioCall
  <2>2. ~Driving(PinOf(c))
    BY <2>1
  <2>. QED  BY <1>4, <2>1, <2>2, BankedFacts DEF PinInit, GpioCall, GpioTask
<1>5. ASSUME NEW c \in PinContexts, PinDeinit(c) PROVE PinInv'
  BY <1>1, <1>5 DEF PinDeinit, GpioCall, GpioTask
<1>6. ASSUME NEW c \in PinContexts, NEW val \in BOOLEAN, PinSet(c, val) PROVE PinInv'
  BY <1>6, BankedFacts, LevelFacts DEF PinSet, GpioCall, GpioTask, Banked
<1>7. ASSUME NEW c \in PinContexts, NEW on, NEW cb, SetInterruptCallback(c, on, cb)
      PROVE  PinInv'
  BY <1>1, <1>7 DEF SetInterruptCallback, GpioCall, GpioTask
<1>8. CASE PinLatch
  BY <1>8, BankedFacts, LevelFacts DEF PinLatch, GpioAt
<1>9. CASE PinConfigure
  BY <1>9, BankedFacts, RegistersFacts DEF PinConfigure, GpioAt
<1>10. CASE PinAnalog
  <2>1. Ctx \in Banked /\ PinOf(Ctx) \in Pins
    BY <1>10, BankedFacts DEF PinAnalog, GpioAt
  <2>2. /\ pins' \in [Pins -> PinRegisters] /\ pins'[PinOf(Ctx)].mode = "ANALOG"
        /\ \A q \in Pins : q # PinOf(Ctx) => pins'[q] = pins[q]
    <3>1. pins' = [pins EXCEPT ![PinOf(Ctx)] = [[@ EXCEPT !.mode = "ANALOG"] EXCEPT !.pull = "NO"]]
      BY <1>10, <2>1 DEF PinAnalog
    <3>2. ASSUME NEW r \in PinRegisters
          PROVE  LET a == [[r EXCEPT !.mode = "ANALOG"] EXCEPT !.pull = "NO"]
                 IN  a \in PinRegisters /\ a.mode = "ANALOG"
      BY DEF PinRegisters
    <3>. QED  BY <2>1, <3>1, <3>2
  <2>3. \A d \in Banked : d # Ctx => PinOf(d) \in Pins /\ PinOf(d) # PinOf(Ctx)
    BY <2>1, BankedFacts
  <2>4. /\ gpio_pc' = "idle" /\ gpio_inited' = gpio_inited \ {Ctx}
        /\ UNCHANGED <<high, asked_level, gpio_arg>>
    BY <1>10 DEF PinAnalog, GpioAt
  <2>. QED  BY <2>1, <2>2, <2>3, <2>4
<1>11. CASE PinMask \/ PinForget \/ PinUnset \/ SetCookie \/ SetOwner
  BY <1>1, <1>11 DEF PinMask, PinForget, PinUnset, SetCookie, SetOwner, GpioAt
<1>12. CASE Route \/ Unmask \/ SetTrigger \/ ClearStale \/ EnableLine
  BY <1>1, <1>12 DEF Route, Unmask, SetTrigger, ClearStale, EnableLine, GpioAt
<1>13. ASSUME NEW p \in Pins, NEW direction, PinEdge(p, direction) PROVE PinInv'
  BY <1>2, <1>13 DEF PinEdge
<1>14. ASSUME NEW line \in Lines, ExtiEnter(line) PROVE PinInv'
  BY <1>2, <1>14 DEF ExtiEnter
<1>15. CASE ExtiClear \/ ExtiCall
  BY <1>2, <1>15 DEF ExtiClear, ExtiCall
<1>16. CASE SyscfgClock \/ UNCHANGED gpioVars
  BY <1>2, <1>16 DEF gpioVars, SyscfgClock
<1>. QED  BY <1>3, <1>4, <1>5, <1>6, <1>7, <1>8, <1>9, <1>10, <1>11, <1>12, <1>13, <1>14, <1>15,
             <1>16 DEF GpioNext

(* A line that is ready has the context it answers on its books. *)
\* An edge of a line's context that is unanswered is on its way.
Answers(l) ==
    ready[l].ctx \in unanswered =>
        latched[l] # {} \/ (calling /\ exti # <<>> /\ Head(exti) = l)

(* A line that promises to answer edges does so for one context, and listens. *)
LEMMA ReadyFacts ==
    ASSUME LineTypes, LineInv, EdgesAnswered, NEW l \in Lines
    PROVE  /\ ready[l] \in Registrations /\ g_uni_hal_gpio_ctx[l] \in Banked \cup {NoContext}
           /\ ready[l] # NotReady =>
                  /\ ready[l].ctx \in Banked \cap gpio_inited /\ ready[l].ctx.gpio_pin = l
                  /\ Listens(l) /\ g_uni_hal_gpio_ctx[l] = ready[l].ctx
           /\ ready[l].ctx \in unanswered => ready[l] # NotReady
           /\ \A k \in Lines : ready[k] # NotReady /\ ready[k].ctx = ready[l].ctx => k = l
<1>1. ready[l] \in Registrations /\ g_uni_hal_gpio_ctx[l] \in Banked \cup {NoContext}
  BY DEF LineTypes
<1>2. ASSUME ready[l] # NotReady
      PROVE  /\ ready[l].ctx \in Banked \cap gpio_inited /\ ready[l].ctx.gpio_pin = l
             /\ Listens(l) /\ g_uni_hal_gpio_ctx[l] = ready[l].ctx
  BY <1>1, <1>2, RegistrationFacts, BankedFacts DEF LineInv, EdgesAnswered, Listens
<1>3. ready[l].ctx \in unanswered => ready[l] # NotReady
  BY RegistrationFacts, BankedFacts DEF LineTypes
<1>4. \A k \in Lines : ready[k] # NotReady /\ ready[k].ctx = ready[l].ctx => k = l
  <2> SUFFICES ASSUME NEW k \in Lines, ready[k] # NotReady, ready[k].ctx = ready[l].ctx
               PROVE  k = l
    OBVIOUS
  <2>1. ready[k].ctx.gpio_pin = k /\ ready[k] \in Registrations /\ ready[k].ctx \in Banked
    BY RegistrationFacts DEF LineInv, LineTypes
  <2>2. ready[l] # NotReady
    BY <2>1, RegistrationFacts, BankedFacts
  <2>. QED  BY <1>2, <2>1, <2>2
<1>. QED  BY <1>1, <1>2, <1>3, <1>4

(* What a step has to leave alone for a line to keep its registration. *)
LEMMA ListensKept ==
    ASSUME NEW l \in Lines, Listens(l), ready'[l] = ready[l],
           fn'[ready[l].ctx] = fn[ready[l].ctx], cookie'[ready[l].ctx] = cookie[ready[l].ctx],
           g_uni_hal_gpio_ctx'[l] = g_uni_hal_gpio_ctx[l], routed'[l] = routed[l],
           trigger'[l] = trigger[l], l \in it => l \in it', irqs \subseteq irqs',
           latched'[l] \subseteq latched[l] \cup {routed[l]}
    PROVE  Listens(l)'
BY DEF Listens

(* Every step keeps the lines, and the edges they have taken in. *)
LEMMA LineStep ==
    ASSUME GpioArgOK, LineTypes, PinInv, LineInv, EdgesAnswered, [GpioNext]_gpioVars
    PROVE  LineInv' /\ EdgesAnswered'
<1>. USE DEF GpioArgOK, pinVars, ctxVars, lineVars, pending, edgeVars, gpioCall,
         Registering, TakingBack, Ctx, Line
<1>. DEFINE Goal == LineInv' /\ EdgesAnswered'
<1>0. /\ GpioArgOK' /\ LineTypes'
  BY TypesStep
<1>1. ASSUME UNCHANGED <<fn, cookie, g_uni_hal_gpio_ctx, ready, routed, trigger, it, irqs, latched,
                         unanswered, exti, calling>>,
             \/ UNCHANGED <<gpio_pc, gpio_arg>> \/ gpio_pc' \in {"idle", "latch", "config"},
             gpio_inited \cap Banked \subseteq gpio_inited'
      PROVE  Goal
  BY <1>1, BankedFacts DEF LineInv, EdgesAnswered, Listens, LineTypes
<1>3. ASSUME NEW c \in PinContexts, PinInitNone(c) \/ PinDeinitNone(c) PROVE Goal
  BY <1>1, <1>3 DEF PinInitNone, PinDeinitNone, GpioCall, GpioTask, Banked
<1>4. ASSUME NEW c \in PinContexts, PinInit(c) PROVE Goal
  BY <1>1, <1>4 DEF PinInit, GpioCall, GpioTask
<1>5. ASSUME NEW c \in PinContexts, PinDeinit(c) PROVE Goal
  <2>1. /\ c \in Banked /\ gpio_arg'.ctx = c /\ gpio_pc' = IF OwnsLine(c) THEN "mask" ELSE "analog"
        /\ UNCHANGED <<gpio_inited, fn, cookie, g_uni_hal_gpio_ctx, routed, trigger, it, irqs>>
        /\ UNCHANGED <<latched, unanswered, exti, calling>>
        /\ ready' = IF ready[c.gpio_pin].ctx = c THEN [ready EXCEPT ![c.gpio_pin] = NotReady]
                    ELSE ready
    BY <1>5 DEF PinDeinit, GpioCall, Banked
  <2>2. ready'[c.gpio_pin] = NotReady \/ ~OwnsLine(c)
    BY <2>1, BankedFacts, ReadyFacts DEF OwnsLine, LineTypes
  <2>3. \A l \in Lines : ready'[l] = ready[l] \/ ready'[l] = NotReady
    BY <2>1, BankedFacts DEF LineTypes
  <2>4. LineInv'
    BY <2>1, <2>2, <2>3 DEF LineInv, OwnsLine
  <2>5. EdgesAnswered'
    BY <2>1, <2>3, RegistrationFacts, BankedFacts DEF EdgesAnswered, Listens, LineTypes
  <2>. QED  BY <2>4, <2>5
<1>6. ASSUME NEW c \in PinContexts, NEW val \in BOOLEAN, PinSet(c, val) PROVE Goal
  BY <1>1, <1>6 DEF PinSet, GpioCall, GpioTask
<1>7. ASSUME NEW c \in PinContexts, NEW on, NEW cb, SetInterruptCallback(c, on, cb)
      PROVE  Goal
  <2>1. /\ c \in Banked /\ gpio_arg'.ctx = c /\ gpio_pc' = "cookie"
        /\ UNCHANGED <<gpio_inited, cookie, g_uni_hal_gpio_ctx, routed, trigger, it, irqs, latched,
                       unanswered, exti, calling>>
        /\ fn' = [fn EXCEPT ![c] = cb] /\ ready' = [ready EXCEPT ![c.gpio_pin] = NotReady]
    BY <1>7 DEF SetInterruptCallback, GpioCall, Banked
  <2>2. /\ ready'[c.gpio_pin] = NotReady
        /\ \A l \in Lines : l # c.gpio_pin => ready'[l] = ready[l]
        /\ \A d \in Banked : d # c => fn'[d] = fn[d]
    BY <2>1, BankedFacts DEF LineTypes
  <2>3. LineInv'
    BY <2>1, <2>2 DEF LineInv
  <2>4. ASSUME NEW l \in Lines, ready'[l] # NotReady PROVE Listens(l)'
    <3>1. l # c.gpio_pin /\ ready'[l] = ready[l]
      BY <2>2, <2>4
    <3>2. ready[l].ctx \in Banked /\ ready[l].ctx # c /\ Listens(l)
      BY <2>4, <3>1, ReadyFacts
    <3>. QED  BY <2>1, <2>2, <3>1, <3>2, ListensKept
  <2>5. \A l \in Lines : Answers(l)'
    BY <2>1, <2>2, RegistrationFacts, BankedFacts DEF EdgesAnswered, Answers, LineTypes
  <2>. QED  BY <2>1, <2>3, <2>4, <2>5 DEF EdgesAnswered, Answers
<1>8. ASSUME Registering \/ TakingBack,
             UNCHANGED <<ready, unanswered, exti, calling, gpio_inited>>,
             \A l \in Lines \ {Line} :
                 /\ g_uni_hal_gpio_ctx'[l] = g_uni_hal_gpio_ctx[l] /\ routed'[l] = routed[l]
                 /\ trigger'[l] = trigger[l] /\ latched'[l] = latched[l]
                 /\ l \in it => l \in it',
             g_uni_hal_gpio_ctx'[Line] \in {g_uni_hal_gpio_ctx[Line], NoContext, Ctx},
             irqs \subseteq irqs',
             \A c \in Banked \ {Ctx} : fn'[c] = fn[c] /\ cookie'[c] = cookie[c]
      PROVE  EdgesAnswered'
  <2>1. ready[Line] = NotReady
    BY <1>8 DEF LineInv
  <2>2. ASSUME NEW l \in Lines, ready'[l] # NotReady PROVE Listens(l)'
    <3>1. l # Line /\ ready'[l] = ready[l]
      BY <1>8, <2>1, <2>2
    <3>2. ready[l].ctx \in Banked /\ ready[l].ctx # Ctx /\ Listens(l)
      BY <2>2, <3>1, ReadyFacts
    <3>3. l \in it => l \in it'
      BY <1>8, <3>1
    <3>. QED  BY <1>8, <3>1, <3>2, <3>3, ListensKept
  <2>3. \A l \in Lines : Answers(l)'
    BY <1>8, <2>1, RegistrationFacts, BankedFacts DEF EdgesAnswered, Answers, LineTypes
  <2>4. \A l \in Lines : g_uni_hal_gpio_ctx'[l] \in gpio_inited' \cup {NoContext}
    BY <1>8 DEF EdgesAnswered
  <2>. QED  BY <2>2, <2>3, <2>4 DEF EdgesAnswered, Answers
<1>9. CASE PinLatch
  BY <1>1, <1>9 DEF PinLatch, GpioAt
<1>10. CASE PinConfigure
  BY <1>1, <1>10 DEF PinConfigure, GpioAt
<1>11. CASE PinMask
  <2>1. LineInv'
    BY <1>11 DEF PinMask, GpioAt, LineInv
  <2>2. EdgesAnswered'
    BY <1>8, <1>11 DEF PinMask, GpioAt
  <2>. QED  BY <2>1, <2>2
<1>12. CASE PinForget
  <2>0. Ctx \in Banked /\ Line \in Lines
    BY <1>12, BankedFacts DEF PinForget, GpioAt
  <2>1. /\ g_uni_hal_gpio_ctx'[Line] = NoContext
        /\ \A l \in Lines \ {Line} : g_uni_hal_gpio_ctx'[l] = g_uni_hal_gpio_ctx[l]
    BY <1>12, <2>0 DEF PinForget, LineTypes
  <2>2. LineInv'
    BY <1>12, <2>0, <2>1, BankedFacts DEF PinForget, GpioAt, LineInv
  <2>3. EdgesAnswered'
    BY <1>8, <1>12, <2>1 DEF PinForget, GpioAt
  <2>. QED  BY <2>2, <2>3
<1>13. CASE PinUnset
  <2>1. \A c \in Banked \ {Ctx} : fn'[c] = fn[c] /\ cookie'[c] = cookie[c]
    BY <1>13, BankedFacts DEF PinUnset, LineTypes
  <2>2. LineInv'
    BY <1>13 DEF PinUnset, GpioAt, LineInv
  <2>3. EdgesAnswered'
    BY <1>8, <1>13, <2>1 DEF PinUnset, GpioAt
  <2>. QED  BY <2>2, <2>3
<1>14. CASE PinAnalog
  <2>1. /\ gpio_pc = "analog" /\ gpio_pc' = "idle" /\ gpio_inited' = gpio_inited \ {Ctx}
        /\ Ctx \in Banked /\ Line \in Lines
        /\ UNCHANGED <<fn, cookie, g_uni_hal_gpio_ctx, ready, routed, trigger, it, irqs, latched,
                       unanswered, exti, calling>>
    BY <1>14, BankedFacts DEF PinAnalog, GpioAt
  <2>2. LineInv'
    BY <2>1 DEF LineInv
  <2>3. \A l \in Lines : g_uni_hal_gpio_ctx[l] # Ctx
    BY <2>1, BankedFacts DEF LineInv
  <2>4. EdgesAnswered'
    BY <2>1, <2>3 DEF EdgesAnswered, Listens
  <2>. QED  BY <2>2, <2>4
<1>15. CASE SetCookie
  <2>0. Ctx \in PinContexts
    BY <1>15, BankedFacts DEF SetCookie, GpioAt
  <2>1. cookie'[Ctx] = fn[Ctx] /\ \A c \in Banked \ {Ctx} : cookie'[c] = cookie[c]
    BY <1>15, <2>0, BankedFacts DEF SetCookie, LineTypes
  <2>2. LineInv'
    BY <1>15, <2>1 DEF SetCookie, GpioAt, LineInv
  <2>3. EdgesAnswered'
    BY <1>8, <1>15, <2>1 DEF SetCookie, GpioAt
  <2>. QED  BY <2>2, <2>3
<1>16. CASE SetOwner
  <2>0. Ctx \in Banked /\ Line \in Lines /\ Ctx \in gpio_inited
    BY <1>16, BankedFacts DEF SetOwner, GpioAt
  <2>1. /\ g_uni_hal_gpio_ctx'[Line] = Ctx
        /\ \A l \in Lines \ {Line} : g_uni_hal_gpio_ctx'[l] = g_uni_hal_gpio_ctx[l]
    BY <1>16, <2>0 DEF SetOwner, LineTypes
  <2>2. LineInv'
    BY <1>16, <2>0, <2>1 DEF SetOwner, GpioAt, LineInv
  <2>3. EdgesAnswered'
    BY <1>8, <1>16, <2>1 DEF SetOwner, GpioAt
  <2>. QED  BY <2>2, <2>3
<1>17. CASE Route
  <2>0. Ctx \in Banked /\ Line \in Lines
    BY <1>17, BankedFacts DEF Route, GpioAt
  <2>1. \A l \in Lines \ {Line} : routed'[l] = routed[l]
    BY <1>17, <2>0 DEF Route, LineTypes
  <2>2. LineInv'
    BY <1>17, <2>1 DEF Route, GpioAt, LineInv
  <2>3. EdgesAnswered'
    BY <1>8, <1>17, <2>1 DEF Route, GpioAt
  <2>. QED  BY <2>2, <2>3
<1>18. CASE Unmask
  <2>1. LineInv'
    BY <1>18 DEF Unmask, GpioAt, LineInv
  <2>2. EdgesAnswered'
    BY <1>8, <1>18 DEF Unmask, GpioAt
  <2>. QED  BY <2>1, <2>2
<1>19. CASE SetTrigger
  <2>0. Ctx \in Banked /\ Line \in Lines
    BY <1>19, BankedFacts DEF SetTrigger, GpioAt
  <2>1. /\ trigger'[Line] = gpio_arg.edge /\ \A l \in Lines \ {Line} : trigger'[l] = trigger[l]
    BY <1>19, <2>0 DEF SetTrigger, LineTypes
  <2>2. LineInv'
    BY <1>19, <2>1 DEF SetTrigger, GpioAt, LineInv
  <2>3. EdgesAnswered'
    BY <1>8, <1>19, <2>1 DEF SetTrigger, GpioAt
  <2>. QED  BY <2>2, <2>3
<1>20. CASE ClearStale
  <2>0. Ctx \in Banked /\ Line \in Lines
    BY <1>20, BankedFacts DEF ClearStale, GpioAt
  <2>1. /\ latched'[Line] = {} /\ \A l \in Lines \ {Line} : latched'[l] = latched[l]
    BY <1>20, <2>0 DEF ClearStale, LineTypes
  <2>2. LineInv'
    BY <1>20, <2>1 DEF ClearStale, GpioAt, LineInv
  <2>3. EdgesAnswered'
    BY <1>8, <1>20, <2>1 DEF ClearStale, GpioAt
  <2>. QED  BY <2>2, <2>3
<1>21. CASE EnableLine
  <2>0. /\ Ctx \in Banked /\ Line \in Lines /\ gpio_pc = "enable" /\ gpio_pc' = "idle"
        /\ it' = it \cup {Line} /\ irqs' = irqs \cup {Irqn(Line)}
        /\ unanswered' = unanswered \ {Ctx}
        /\ UNCHANGED <<gpio_inited, fn, cookie, g_uni_hal_gpio_ctx, routed, trigger, latched, exti,
                       calling>>
    BY <1>21, BankedFacts DEF EnableLine, GpioAt
  <2>1. /\ \/ ready'[Line] = ready[Line]
           \/ fn[Ctx] # 0 /\ routed[Line] = Ctx.gpio_bank /\ ready'[Line] = gpio_arg
        /\ \A l \in Lines \ {Line} : ready'[l] = ready[l]
    BY <1>21, <2>0 DEF EnableLine, LineTypes
  <2>2. LineInv'
    BY <2>0, <2>1 DEF LineInv
  <2>3. ASSUME NEW l \in Lines, ready'[l] # NotReady PROVE Listens(l)'
    <3>1. CASE l = Line
      <4>1. ready'[l] = gpio_arg /\ fn[Ctx] # 0 /\ routed[Line] = Ctx.gpio_bank
        BY <2>0, <2>1, <2>3, <3>1 DEF LineInv
      <4>. QED  BY <2>0, <3>1, <4>1 DEF Listens, LineInv
    <3>2. CASE l # Line
      BY <2>0, <2>1, <2>3, <3>2, ReadyFacts, ListensKept
    <3>. QED  BY <3>1, <3>2
  <2>4. ASSUME NEW l \in Lines PROVE Answers(l)'
    <3>1. CASE ready'[l] = ready[l]
      BY <2>0, <3>1 DEF EdgesAnswered, Answers
    <3>2. CASE ready'[l] # ready[l]
      BY <2>0, <2>1, <3>2 DEF Answers
    <3>. QED  BY <3>1, <3>2
  <2>5. \A l \in Lines : g_uni_hal_gpio_ctx'[l] \in gpio_inited' \cup {NoContext}
    BY <2>0 DEF EdgesAnswered
  <2>. QED  BY <2>2, <2>3, <2>4, <2>5 DEF EdgesAnswered, Answers
<1>22. ASSUME NEW p \in Pins, NEW direction, PinEdge(p, direction) PROVE Goal
  <2> DEFINE line == p[2]
             heard == routed[line] = p[1] /\ direction \in trigger[line] /\ pins[p].mode # "ANALOG"
             asks == /\ direction \in ready[line].edge /\ PinOf(ready[line].ctx) = p
                     /\ ModeOf(ready[line].ctx.gpio_type) # "ANALOG"
  <2>0. line \in Lines
    BY BankedFacts
  <2>1. /\ UNCHANGED <<gpio_inited, fn, cookie, g_uni_hal_gpio_ctx, routed, trigger, it, irqs>>
        /\ UNCHANGED <<ready, exti, calling, gpio_pc, gpio_arg>>
        /\ unanswered' = IF asks THEN unanswered \cup {ready[line].ctx} ELSE unanswered
        /\ \/ heard /\ latched' = [latched EXCEPT ![line] = @ \cup {p[1]}]
           \/ ~(heard /\ line \in it) /\ latched' = latched
    BY <1>22 DEF PinEdge
  <2>2. \A l \in Lines :
            /\ latched[l] \subseteq latched'[l]
            /\ latched'[l] \subseteq latched[l] \cup {routed[l]}
    BY <2>0, <2>1 DEF LineTypes
  <2>3. LineInv'
    <3>1. gpio_pc = "enable" => Line \in Lines
      BY BankedFacts
    <3>. QED  BY <2>1, <2>2, <3>1 DEF LineInv
  <2>4. asks => ready[line] # NotReady /\ heard /\ line \in it
    <3> SUFFICES ASSUME asks PROVE ready[line] # NotReady /\ heard /\ line \in it
      OBVIOUS
    <3>1. ready[line] # NotReady
      BY RegistrationFacts
    <3>2. ready[line].ctx \in Banked \cap gpio_inited /\ Listens(line)
      BY <2>0, <3>1, ReadyFacts
    <3>3. pins[p].mode # "ANALOG"
      BY <3>2 DEF PinInv
    <3>4. routed[line] = p[1]
      BY <3>2, BankedFacts DEF Listens
    <3>. QED  BY <3>1, <3>2, <3>3, <3>4 DEF Listens
  <2>5. asks => latched'[line] # {}
    <3>1. heard /\ line \in it => latched' = [latched EXCEPT ![line] = latched[line] \cup {p[1]}]
      BY <2>1
    <3>2. latched' = [latched EXCEPT ![line] = latched[line] \cup {p[1]}] => p[1] \in latched'[line]
      BY <2>0 DEF LineTypes
    <3>. QED  BY <2>4, <3>1, <3>2
  <2>6. ASSUME NEW l \in Lines, ready'[l] # NotReady PROVE Listens(l)'
    BY <2>1, <2>2, <2>6, ReadyFacts, ListensKept
  <2> HIDE DEF asks, heard
  <2>7. ASSUME NEW l \in Lines PROVE Answers(l)'
    <3>1. CASE ready[l].ctx \in unanswered
      BY <2>1, <2>2, <3>1 DEF EdgesAnswered, Answers
    <3>2. CASE asks /\ ready[l].ctx = ready[line].ctx
      <4>1. l = line
        BY <2>0, <2>4, <3>2, ReadyFacts
      <4>. QED  BY <2>5, <3>2, <4>1 DEF Answers
    <3>. QED  BY <2>1, <3>1, <3>2 DEF Answers
  <2>8. \A l \in Lines : g_uni_hal_gpio_ctx'[l] \in gpio_inited' \cup {NoContext}
    BY <2>1 DEF EdgesAnswered
  <2>. QED  BY <2>3, <2>6, <2>7, <2>8 DEF EdgesAnswered, Answers
<1>23. ASSUME NEW line \in Lines, ExtiEnter(line) PROVE Goal
  <2>1. /\ UNCHANGED <<gpio_inited, fn, cookie, g_uni_hal_gpio_ctx, routed, trigger, it, irqs>>
        /\ UNCHANGED <<ready, latched, unanswered, calling, gpio_pc, gpio_arg>>
        /\ exti = <<>>
    BY <1>23 DEF ExtiEnter
  <2>2. LineInv'
    BY <2>1 DEF LineInv
  <2>3. \A l \in Lines : (Listens(l) => Listens(l)') /\ (Answers(l) => Answers(l)')
    BY <2>1 DEF Listens, Answers, LineInv
  <2>. QED  BY <2>1, <2>2, <2>3 DEF EdgesAnswered, Answers
<1>24. CASE ExtiClear
  <2>1. /\ UNCHANGED <<gpio_inited, fn, cookie, g_uni_hal_gpio_ctx, routed, trigger, it, irqs>>
        /\ UNCHANGED <<ready, unanswered, gpio_pc, gpio_arg>>
        /\ exti # <<>> /\ ~calling
        /\ \/ ~calling' /\ latched' = latched
           \/ calling' = TRUE /\ exti' = exti /\ latched' = [latched EXCEPT ![Head(exti)] = {}]
    BY <1>24 DEF ExtiClear
  <2>2. \A l \in Lines :
            /\ latched'[l] \subseteq latched[l]
            /\ latched'[l] = latched[l] \/ (calling' /\ exti' # <<>> /\ Head(exti') = l)
    BY <2>1 DEF LineTypes
  <2>3. LineInv'
    <3>1. gpio_pc = "enable" => Line \in Lines
      BY BankedFacts
    <3>. QED  BY <2>1, <2>2, <3>1 DEF LineInv
  <2>4. ASSUME NEW l \in Lines, ready'[l] # NotReady PROVE Listens(l)'
    <3>1. latched'[l] \subseteq latched[l] \cup {routed[l]}
      BY <2>2
    <3>. QED  BY <2>1, <2>4, <3>1, ReadyFacts, ListensKept
  <2>5. ASSUME NEW l \in Lines PROVE Answers(l)'
    BY <2>1, <2>2 DEF EdgesAnswered, Answers
  <2>6. \A l \in Lines : g_uni_hal_gpio_ctx'[l] \in gpio_inited' \cup {NoContext}
    BY <2>1 DEF EdgesAnswered
  <2>. QED  BY <2>3, <2>4, <2>5, <2>6 DEF EdgesAnswered, Answers
<1>25. CASE ExtiCall
  <2> DEFINE c == g_uni_hal_gpio_ctx[Head(exti)]
  <2>1. /\ UNCHANGED <<gpio_inited, fn, cookie, g_uni_hal_gpio_ctx, routed, trigger, it, irqs>>
        /\ UNCHANGED <<ready, latched, gpio_pc, gpio_arg>>
        /\ calling /\ calling' = FALSE
        /\ unanswered' = IF c # NoContext /\ fn[c] # 0 THEN unanswered \ {c} ELSE unanswered
    BY <1>25 DEF ExtiCall
  <2>2. LineInv'
    BY <2>1 DEF LineInv
  <2>3. ASSUME NEW l \in Lines PROVE Answers(l)'
    <3>1. CASE Head(exti) = l /\ ready[l].ctx \in unanswered
      <4>1. ready[l] # NotReady /\ Listens(l) /\ c = ready[l].ctx /\ c \in Banked
        BY <3>1, ReadyFacts
      <4>2. fn[c] # 0 /\ c # NoContext
        BY <4>1, BankedFacts DEF Listens
      <4>. QED  BY <2>1, <4>1, <4>2 DEF Answers
    <3>2. CASE Head(exti) # l /\ ready[l].ctx \in unanswered
      BY <2>1, <3>2 DEF EdgesAnswered, Answers
    <3>. QED  BY <2>1, <3>1, <3>2 DEF Answers
  <2>4. ASSUME NEW l \in Lines PROVE Listens(l) => Listens(l)'
    BY <2>1 DEF Listens
  <2>. QED  BY <2>1, <2>2, <2>3, <2>4 DEF EdgesAnswered, Answers
<1>26. CASE SyscfgClock \/ UNCHANGED gpioVars
  BY <1>1, <1>26 DEF gpioVars, SyscfgClock
<1>. QED  BY <1>3, <1>4, <1>5, <1>6, <1>7, <1>9, <1>10, <1>11, <1>12, <1>13, <1>14, <1>15, <1>16,
             <1>17, <1>18, <1>19, <1>20, <1>21, <1>22, <1>23, <1>24, <1>25, <1>26 DEF GpioNext

(* Outputs drive what was asked for, and no edge of a complete registration is forgotten. *)
THEOREM PinsAreServed == GpioSpec => []PinsServed
<1>1. GpioInit => GpioInv
  <2> SUFFICES ASSUME GpioInit PROVE GpioInv
    OBVIOUS
  <2>1. GpioArgOK
    BY DEF GpioInit, GpioArgOK, Registering, TakingBack
  <2>2. LineTypes
    BY RegistrationFacts DEF GpioInit, LineTypes, PortBanks
  <2>3. PinInv
    BY BankedFacts DEF GpioInit, PinInv, PinRegisters, ResetPin, Driving
  <2>4. LineInv
    BY DEF GpioInit, LineInv, Registering, TakingBack
  <2>5. EdgesAnswered
    BY DEF GpioInit, EdgesAnswered
  <2>. QED  BY <2>1, <2>2, <2>3, <2>4, <2>5 DEF GpioInv
<1>2. GpioInv => PinsServed
  <2> SUFFICES ASSUME GpioInv, NEW c \in Banked, Driving(PinOf(c))
               PROVE  PinGet(c) \in asked_level[PinOf(c)] /\ SpeedGet(c) = c.gpio_speed
    BY DEF GpioInv, PinsServed, PinsDriven, Banked
  <2>1. HasBank(c) /\ c.gpio_speed \in 0..3
    BY BankedFacts DEF Banked
  <2>2. PinGet(c) = (PinOf(c) \in high)
    BY <2>1 DEF PinGet
  <2>3. /\ pins[PinOf(c)].speed = SpeedOf(c.gpio_speed)
        /\ (PinOf(c) \in high) \in asked_level[PinOf(c)]
    BY DEF GpioInv, PinInv
  <2>4. \A m, n \in 0..3 : SpeedOf(m) = SpeedOf(n) => m = n
    BY DEF SpeedOf
  <2>5. SpeedGet(c) = c.gpio_speed
    BY <2>1, <2>3, <2>4 DEF SpeedGet
  <2>. QED  BY <2>2, <2>3, <2>5
<1>3. GpioInv /\ [GpioNext]_gpioVars => GpioInv'
  BY TypesStep, PinStep, LineStep DEF GpioInv
<1>. QED  BY <1>1, <1>2, <1>3, PTL DEF GpioSpec

--------------------------------------------------------------------------------
(***************************************************************************)
(* Flash: the sectors and words a call erases and writes.                  *)
(***************************************************************************)
(* The specification of the flash. *)
FlashSpec == FlashInit /\ [][FlashNext]_flashVars

(* The word is of a sector that the call still has to erase. *)
ToErase(w) ==
    \/ flash_step # "lock" /\ w \in SectorWords(target)
    \/ \E n \in left : w \in SectorWords(<<target[1], n>>)

(* Only words that a call or an erase it left behind may change do change. *)
BoundsInv ==
    /\ flash_step \in {"idle", "clear", "start", "wait", "lock"}
    /\ operation \in FlashSectors \cup {NoSector} /\ (hal_busy <=> operation # NoSector)
    /\ operation # NoSector => SectorWords(operation) \subseteq may_change
    /\ flash_step # "idle" =>
           /\ target \in FlashSectors /\ left \subseteq 0..SectorTotal - 1
           /\ SectorWords(target) \subseteq may_change
           /\ \A n \in left : SectorWords(<<target[1], n>>) \subseteq may_change
    /\ \A w \in FlashWords \ may_change : content[w] = before_call[w]

(* While no erase has failed, timed out or raced, what is done stays done. *)
Counted == ~raced /\ all_erased

(* An erase by interrupt erases what it has left of what it will tell. *)
EraseInv ==
    /\ flash_step # "idle" => claim.are = "erased" /\ claim.words \subseteq FlashWords
    /\ flash_step # "idle" /\ Counted =>
           \A w \in claim.words : content[w] = "erased" \/ ToErase(w)
    /\ flash_step \in {"clear", "start"} /\ Counted /\ operation # NoSector =>
           \A w \in claim.words : ToErase(w)
    /\ flash_step = "start" /\ ~raced => ~flash_op_done /\ ~flash_op_failed
    /\ flash_step = "wait" /\ Counted =>
           \/ operation = target /\ ~flash_op_done /\ ~flash_op_failed
           \/ /\ operation = NoSector
              /\ flash_op_failed \/ \A w \in SectorWords(target) : content[w] = "erased"
    /\ flash_step = "lock" /\ Counted => operation = NoSector
    /\ flash_step = "idle" /\ claim.told /\ ~raced =>
           /\ claim.words = {} \/ operation = NoSector
           /\ \A w \in claim.words : content[w] = claim.are

(* What a call claims, and the values of the variables. *)
ClaimTypes == [words : SUBSET FlashWords, are : {"erased", "data"}, told : BOOLEAN]

(* The values of the variables. *)
FlashTypes ==
    /\ claim \in ClaimTypes
    /\ flash_ready \in BOOLEAN /\ all_erased \in BOOLEAN /\ raced \in BOOLEAN
    /\ flash_op_done \in BOOLEAN /\ flash_op_failed \in BOOLEAN /\ hal_busy \in BOOLEAN

(* The inductive invariant of the flash. *)
FlashInv == FlashTypes /\ BoundsInv /\ EraseInv

(* The words and the units of the flash, in numbers of sectors. *)
LEMMA FlashIs ==
    /\ SectorTotal \in Nat \ {0} /\ BankSize = 4 * SectorTotal
    /\ FlashWords = 0..4 * SectorTotal - 1 /\ FlashEnd = 8 * SectorTotal - 1
    /\ BankBase(0) = 0 /\ BankBase(1) = 4 * SectorTotal
<1>1. SectorTotal \in Nat \ {0} /\ BankSize = 4 * SectorTotal
  BY FlashAssumption DEF BankSize, SectorSize
<1>2. (2 * (4 * SectorTotal)) \div 2 = 4 * SectorTotal
  BY <1>1
<1>. QED  BY <1>1, <1>2 DEF FlashWords, FlashEnd, BankBase, WordSize

(* A unit is in a sector if its word is: a sector is made of whole words. *)
LEMMA UnitOfSector ==
    ASSUME NEW b \in Banks2, NEW n \in 0..SectorTotal - 1, NEW u \in Int
    PROVE  u \div 2 \in SectorWords(<<b, n>>)
               <=> BankBase(b) + 4 * n <= u /\ u <= BankBase(b) + 4 * n + 3
<1>1. PICK k \in Int : BankBase(b) = 4 * k
  <2>1. b = 0 \/ b = 1
    BY DEF Banks2
  <2>. QED  BY <2>1, FlashIs
<1>2. SectorWords(<<b, n>>) = {v \div 2 : v \in (4 * k + 4 * n)..(4 * k + 4 * n + 3)}
  BY <1>1, FlashIs DEF SectorWords, WordsOf, SectorSize, WordSize
<1>3. ASSUME NEW v \in (4 * k + 4 * n)..(4 * k + 4 * n + 3), v \div 2 = u \div 2
      PROVE  4 * k + 4 * n <= u /\ u <= 4 * k + 4 * n + 3
  BY <1>3, FlashIs
<1>. QED  BY <1>1, <1>2, <1>3, FlashIs

(* The words of a sector are words of the flash, and a word is the word of a unit. *)
LEMMA SectorInFlash == \A s \in FlashSectors : SectorWords(s) \subseteq FlashWords
<1> SUFFICES ASSUME NEW b \in Banks2, NEW n \in 0..SectorTotal - 1, NEW w \in SectorWords(<<b, n>>)
             PROVE  w \in FlashWords
  BY DEF FlashSectors
<1>1. b = 0 \/ b = 1
  BY DEF Banks2
<1>2. PICK u \in (BankBase(b) + n * 4)..(BankBase(b) + n * 4 + 3) : w = u \div 2
  BY FlashIs DEF SectorWords, WordsOf, SectorSize, WordSize
<1>3. BankBase(b) \in {0, 4 * SectorTotal}
  BY <1>1, FlashIs
<1>4. u \in Int /\ 0 <= u /\ u < 8 * SectorTotal
  BY <1>2, <1>3, FlashIs
<1>. QED  BY <1>2, <1>4, FlashIs

(* The sectors that a range of a bank, of size units at offset, goes through. *)
LEMMA SectorNumbers ==
    ASSUME NEW t \in Nat, NEW offset \in Nat, NEW size \in Nat, size >= 1, offset + size <= 4 * t,
           NEW first, first = offset \div 4,
           NEW count, count = (offset + size - 1) \div 4 - offset \div 4 + 1
    PROVE  /\ first \in Nat /\ count \in Nat
           /\ \A i \in 0..count - 1 : first + i \in 0..t - 1
           /\ \A v \in offset..(offset + size - 1), n \in 0..t - 1 :
                  4 * n <= v /\ v <= 4 * n + 3 =>
                      n - first \in 0..count - 1 /\ first + (n - first) = n
<1>1. PICK a \in Nat, b \in 0..3 : offset = 4 * a + b /\ first = a
  <2>1. offset \div 4 \in Nat /\ offset % 4 \in 0..3
    OBVIOUS
  <2>. QED  BY <2>1
<1>2. PICK c \in Nat, d \in 0..3 : offset + size - 1 = 4 * c + d /\ c = (offset + size - 1) \div 4
  <2>1. (offset + size - 1) \div 4 \in Nat /\ (offset + size - 1) % 4 \in 0..3
    OBVIOUS
  <2>. QED  BY <2>1
<1>3. count = c - a + 1 /\ a <= c /\ c < t
  BY <1>1, <1>2
<1>. QED  BY <1>1, <1>2, <1>3

(* The sectors an accepted erase goes through are of the flash, and are those it touches. *)
LEMMA SectorsOfRange ==
    ASSUME NEW addr \in Nat, NEW size \in Nat, EraseAccepted(addr, size),
           NEW bank, bank = IF addr < BankSize THEN 0 ELSE 1,
           NEW first, first = EraseOffset(addr) \div SectorSize,
           NEW count, count = EraseCount(EraseOffset(addr), size)
    PROVE  /\ bank \in Banks2 /\ first \in Nat /\ count \in Nat
           /\ \A i \in 0..count - 1 :
                  /\ <<bank, first + i>> \in FlashSectors
                  /\ SectorWords(<<bank, first + i>>) \subseteq Touched(addr, size)
           /\ \A w \in Touched(addr, size) :
                  \E i \in 0..count - 1 : w \in SectorWords(<<bank, first + i>>)
<1>. DEFINE offset == EraseOffset(addr)
<1>1. /\ bank \in Banks2 /\ offset \in Nat /\ BankBase(bank) \in Nat
      /\ addr = BankBase(bank) + offset
      /\ size >= 1 /\ offset + size <= 4 * SectorTotal
      /\ BankBase(bank) \in {0, 4 * SectorTotal}
  BY FlashIs DEF EraseAccepted, EraseOffset, Banks2
<1>2. /\ first = offset \div 4 /\ count = (offset + size - 1) \div 4 - offset \div 4 + 1
  BY <1>1 DEF EraseCount, SectorSize
<1>. HIDE DEF offset
<1>8. /\ first \in Nat /\ count \in Nat
      /\ \A i \in 0..count - 1 : first + i \in 0..SectorTotal - 1
      /\ \A v \in offset..(offset + size - 1), n \in 0..SectorTotal - 1 :
             4 * n <= v /\ v <= 4 * n + 3 =>
                      n - first \in 0..count - 1 /\ first + (n - first) = n
  <2>1. SectorTotal \in Nat
    BY FlashIs
  <2>. QED  BY <1>1, <1>2, <2>1, SectorNumbers
<1>3. ASSUME NEW i \in 0..count - 1
      PROVE  /\ <<bank, first + i>> \in FlashSectors
             /\ SectorWords(<<bank, first + i>>) \subseteq Touched(addr, size)
  <2>1. first + i \in 0..SectorTotal - 1
    BY <1>8
  <2>2. PICK u \in addr..(addr + size - 1) :
            BankBase(bank) + 4 * (first + i) <= u /\ u <= BankBase(bank) + 4 * (first + i) + 3
    <3>1. CASE i = 0
      <4>1. addr \in addr..(addr + size - 1)
        BY <1>1
      <4>2. /\ BankBase(bank) + 4 * (first + i) <= addr
            /\ addr <= BankBase(bank) + 4 * (first + i) + 3
        BY <1>1, <1>2, <1>8, <3>1
      <4>. QED  BY <4>1, <4>2
    <3>2. CASE i # 0
      <4>. DEFINE u == BankBase(bank) + 4 * (first + i)
      <4>1. u \in addr..(addr + size - 1)
        BY <1>1, <1>2, <1>8, <3>2
      <4>. QED  BY <4>1, <1>1, <1>8
    <3>. QED  BY <3>1, <3>2
  <2>3. u \div 2 \in SectorWords(<<bank, first + i>>)
    BY <1>1, <2>1, <2>2, UnitOfSector
  <2>4. u \div 2 \in WordsOf(addr..(addr + size - 1))
    BY <2>2 DEF WordsOf, WordSize
  <2>. QED  BY <1>1, <2>1, <2>3, <2>4, SectorInFlash DEF Touched, FlashSectors
<1>4. ASSUME NEW w \in Touched(addr, size)
      PROVE  \E i \in 0..count - 1 : w \in SectorWords(<<bank, first + i>>)
  <2>1. PICK b \in Banks2, n \in 0..SectorTotal - 1 :
            /\ w \in SectorWords(<<b, n>>)
            /\ SectorWords(<<b, n>>) \cap WordsOf(addr..(addr + size - 1)) # {}
    BY DEF Touched, FlashSectors
  <2>2. PICK u \in addr..(addr + size - 1) : u \div 2 \in SectorWords(<<b, n>>)
    BY <2>1 DEF WordsOf, WordSize
  <2>3. BankBase(b) + 4 * n <= u /\ u <= BankBase(b) + 4 * n + 3
    BY <2>2, UnitOfSector
  <2>4. b = bank
    <3>1. b \in {0, 1} /\ bank \in {0, 1}
      BY <1>1 DEF Banks2
    <3>2. BankBase(bank) <= u /\ u < BankBase(bank) + 4 * SectorTotal
      BY <1>1, <2>2, FlashIs, SMTT(30)
    <3>3. BankBase(b) <= u /\ u < BankBase(b) + 4 * SectorTotal
      <4>1. BankBase(b) \in {0, 4 * SectorTotal}
        BY <3>1, FlashIs
      <4>2. BankBase(b) \in Int /\ n \in Int /\ u \in Int /\ 0 <= n /\ n <= SectorTotal - 1
        BY <1>1, <4>1, FlashIs
      <4>. QED  BY <2>3, <4>2, FlashIs
    <3>4. u \in Int /\ SectorTotal \in Nat /\ BankBase(0) = 0 /\ BankBase(1) = 4 * SectorTotal
      BY <1>1, FlashIs
    <3>5. CASE b = 0
      BY <3>1, <3>2, <3>3, <3>4, <3>5
    <3>6. CASE b = 1
      BY <3>1, <3>2, <3>3, <3>4, <3>6
    <3>. QED  BY <3>1, <3>5, <3>6
  <2>5. n - first \in 0..count - 1 /\ first + (n - first) = n
    <3>1. u - BankBase(bank) \in offset..(offset + size - 1)
      BY <1>1, <2>2
    <3>2. 4 * n <= u - BankBase(bank) /\ u - BankBase(bank) <= 4 * n + 3
      <4>1. BankBase(bank) \in Int /\ n \in Int /\ u \in Int
        BY <1>1, FlashIs
      <4>. QED  BY <2>3, <2>4, <4>1
    <3>. QED  BY <1>8, <3>1, <3>2
  <2>. QED  BY <2>1, <2>4, <2>5
<1>. QED  BY <1>1, <1>8, <1>3, <1>4

(* The words an accepted write programs are those of its bytes. *)
LEMMA WordsOfRange ==
    ASSUME NEW addr \in Nat, NEW size \in Nat, WriteAccepted(addr, size),
           NEW n \in 0..(size \div WordSize)
    PROVE  /\ size \div WordSize \in Nat /\ addr \div WordSize \in Nat
           /\ WordsOf(addr..(addr + n * WordSize - 1))
                  = (addr \div WordSize)..((addr \div WordSize) + n - 1)
           /\ WordsOf(addr..(addr + n * WordSize - 1)) \subseteq FlashWords
<1>1. PICK k \in Nat, m \in Nat : addr = 2 * k /\ size = 2 * m
  BY DEF WriteAccepted, WordSize
<1>2. /\ addr \div WordSize = k /\ size \div WordSize = m
      /\ n \in 0..m /\ n * WordSize = 2 * n
  BY <1>1 DEF WordSize
<1>3. k + m <= 4 * SectorTotal
  BY <1>1, FlashIs DEF WriteAccepted
<1>4. ASSUME NEW w
      PROVE  w \in WordsOf((2 * k)..(2 * k + 2 * n - 1)) <=> w \in k..(k + n - 1)
  <2>1. ASSUME NEW u \in (2 * k)..(2 * k + 2 * n - 1), w = u \div 2
        PROVE  w \in k..(k + n - 1)
    BY <2>1, <1>2
  <2>2. ASSUME w \in k..(k + n - 1)
        PROVE  2 * w \in (2 * k)..(2 * k + 2 * n - 1) /\ w = (2 * w) \div 2
    BY <2>2, <1>2
  <2>. QED  BY <2>1, <2>2 DEF WordsOf, WordSize
<1>5. WordsOf(addr..(addr + n * WordSize - 1)) = k..(k + n - 1)
  BY <1>1, <1>2, <1>4
<1>6. k..(k + n - 1) \subseteq FlashWords
  BY <1>2, <1>3, FlashIs
<1>. QED  BY <1>1, <1>2, <1>5, <1>6

(* The words of a write that stopped are words of the whole write. *)
LEMMA WrittenInRange ==
    ASSUME NEW addr \in Nat, NEW size \in Nat, WriteAccepted(addr, size),
           NEW n \in 0..(size \div WordSize)
    PROVE  \A w : w \in (addr \div WordSize)..((addr \div WordSize) + n - 1)
               \/ (n < size \div WordSize /\ w = addr \div WordSize + n)
                   => w \in WordsOf(addr..(addr + size - 1))
<1>1. size \div WordSize \in 0..(size \div WordSize) /\ size = (size \div WordSize) * WordSize
  BY DEF WriteAccepted, WordSize
<1>2. WordsOf(addr..(addr + size - 1))
          = (addr \div WordSize)..((addr \div WordSize) + size \div WordSize - 1)
  BY <1>1, WordsOfRange
<1>3. addr \div WordSize \in Nat /\ size \div WordSize \in Nat
  BY <1>1, WordsOfRange
<1>. HIDE DEF WordSize
<1>. QED  BY <1>2, <1>3

(* What a finished call claims of the words it changes. *)
Claimed(words) ==
    /\ claim' \in ClaimTypes
    /\ \A w \in FlashWords \ words : content'[w] = content[w]
    /\ claim'.told => /\ claim'.words = {} \/ operation = NoSector
                      /\ \A w \in claim'.words : content'[w] = claim'.are

(* A range erase changes the words it touches, and erases them all if it tells so. *)
LEMMA RangeErased ==
    ASSUME NEW addr \in Nat, NEW size \in Nat, hal_busy <=> operation # NoSector,
           EraseRange(addr, size)
    PROVE  Claimed(Touched(addr, size))
<1>. DEFINE bank == IF addr < BankSize THEN 0 ELSE 1
            first == EraseOffset(addr) \div SectorSize
            count == EraseCount(EraseOffset(addr), size)
<1>1. PICK n \in 0..count, torn \in BOOLEAN :
           /\ EraseAccepted(addr, size) \/ (n = 0 /\ ~torn)
           /\ torn => n < count
           /\ content' = [w \in FlashWords |->
                  IF \E i \in 0..n - 1 : w \in SectorWords(<<bank, first + i>>) THEN "erased"
                  ELSE IF torn /\ w \in SectorWords(<<bank, first + n>>) THEN "torn"
                  ELSE content[w]]
           /\ claim' = Erased(Touched(addr, size), EraseAccepted(addr, size) /\ n = count)
  BY DEF EraseRange
<1>2. EraseAccepted(addr, size) =>
          /\ count \in Nat
          /\ \A i \in 0..count - 1 : SectorWords(<<bank, first + i>>) \subseteq Touched(addr, size)
          /\ \A w \in Touched(addr, size) :
                 \E i \in 0..count - 1 : w \in SectorWords(<<bank, first + i>>)
  BY SectorsOfRange, SMTT(30)
<1>. HIDE DEF bank, first, count
<1>3. /\ Touched(addr, size) \subseteq FlashWords
      /\ EraseAccepted(addr, size) \in BOOLEAN
  BY DEF Touched, EraseAccepted
<1>4. /\ claim'.words = Touched(addr, size) /\ claim'.are = "erased"
      /\ claim'.told <=> EraseAccepted(addr, size) /\ n = count
      /\ claim' \in ClaimTypes
  BY <1>1, <1>3 DEF Erased, ClaimTypes
<1>5. ASSUME NEW w \in FlashWords \ Touched(addr, size) PROVE content'[w] = content[w]
  <2>1. CASE EraseAccepted(addr, size)
    <3>1. n \in Int /\ 0 <= n /\ n <= count /\ count \in Nat
      BY <1>1, <1>2, <2>1
    <3>2. \A i \in 0..n - 1 : w \notin SectorWords(<<bank, first + i>>)
      BY <1>2, <1>5, <2>1, <3>1
    <3>3. torn => w \notin SectorWords(<<bank, first + n>>)
      BY <1>1, <1>2, <1>5, <2>1, <3>1
    <3>. QED  BY <1>1, <3>2, <3>3
  <2>2. CASE ~EraseAccepted(addr, size)
    <3>1. n = 0 /\ ~torn /\ 0..n - 1 = {}
      BY <1>1, <2>2
    <3>. QED  BY <1>1, <3>1
  <2>. QED  BY <2>1, <2>2
<1>6. ASSUME claim'.told, NEW w \in claim'.words PROVE content'[w] = "erased"
  BY <1>1, <1>2, <1>3, <1>4, <1>6
<1>7. EraseAccepted(addr, size) => operation = NoSector
  BY DEF EraseAccepted
<1>. QED  BY <1>4, <1>5, <1>6, <1>7 DEF Claimed

(* A write changes words of its range only, and the ones it counts hold its data. *)
LEMMA RangeWritten ==
    ASSUME NEW addr \in Nat, NEW size \in Nat, hal_busy <=> operation # NoSector,
           FlashWrite(addr, size)
    PROVE  Claimed(WordsOf(addr..(addr + size - 1)))
<1>. DEFINE first == addr \div WordSize
            many == size \div WordSize
<1>1. PICK n \in 0..many, torn \in BOOLEAN :
           /\ WriteAccepted(addr, size) \/ (n = 0 /\ ~torn)
           /\ torn => n < many
           /\ content' = [w \in FlashWords |->
                  IF w \in first..(first + n - 1) THEN "data"
                  ELSE IF torn /\ w = first + n THEN "torn" ELSE content[w]]
           /\ claim' = [words |-> WordsOf(addr..(addr + n * WordSize - 1)), are |-> "data",
                        told |-> TRUE]
  BY DEF FlashWrite
<1>2. WriteAccepted(addr, size) =>
          /\ many \in Nat /\ first \in Nat
          /\ WordsOf(addr..(addr + n * WordSize - 1)) = first..(first + n - 1)
          /\ WordsOf(addr..(addr + n * WordSize - 1)) \subseteq FlashWords
  BY WordsOfRange
<1>5. WriteAccepted(addr, size) =>
          \A w : w \in first..(first + n - 1) \/ (n < many /\ w = first + n)
                    => w \in WordsOf(addr..(addr + size - 1))
  BY WrittenInRange
<1>3. CASE WriteAccepted(addr, size)
  <2>. HIDE DEF first, many
  <2>1. claim' \in ClaimTypes
    BY <1>1, <1>2, <1>3 DEF ClaimTypes
  <2>2. ASSUME NEW w \in FlashWords \ WordsOf(addr..(addr + size - 1))
        PROVE  content'[w] = content[w]
    <3>1. w \notin first..(first + n - 1)
      BY <1>3, <1>5, <2>2
    <3>2. ~(torn /\ w = first + n)
      BY <1>1, <1>3, <1>5, <2>2
    <3>. QED  BY <1>1, <2>2, <3>1, <3>2
  <2>3. \A w \in claim'.words : content'[w] = claim'.are
    BY <1>1, <1>2, <1>3
  <2>4. operation = NoSector
    BY <1>3 DEF WriteAccepted
  <2>. QED  BY <2>1, <2>2, <2>3, <2>4 DEF Claimed
<1>4. CASE ~WriteAccepted(addr, size)
  <2>1. n = 0 /\ ~torn
    BY <1>1, <1>4
  <2>2. addr..(addr + n * WordSize - 1) = {}
    BY <2>1 DEF WordSize
  <2>3. claim'.words = {} /\ claim' \in ClaimTypes
    BY <1>1, <2>2 DEF WordsOf, ClaimTypes
  <2>4. first..(first + n - 1) = {}
    BY <2>1 DEF WordSize
  <2>. HIDE DEF first, many
  <2>5. \A w \in FlashWords : content'[w] = content[w]
    BY <1>1, <2>1, <2>4
  <2>. QED  BY <2>3, <2>5 DEF Claimed
<1>. QED  BY <1>3, <1>4

(* A call that is over when it is made: no sector is being erased for a caller. *)
LEMMA CallReturns ==
    ASSUME FlashInv, NEW words, FlashCall(words), Claimed(words),
           UNCHANGED <<flash_step, eraseVars, hal_busy, operation>>,
           {flash_ready', flash_op_done', flash_op_failed'} \subseteq BOOLEAN
    PROVE  FlashInv'
<1>1. flash_step = "idle" /\ flash_step' = "idle" /\ ~raced'
  BY DEF FlashCall
<1>2. FlashTypes'
  BY DEF FlashInv, FlashTypes, FlashCall, Claimed, eraseVars
<1>3. BoundsInv'
  <2>1. operation # NoSector => SectorWords(operation) \subseteq may_change'
    BY DEF FlashInv, BoundsInv, FlashCall
  <2>2. words \subseteq may_change' /\ before_call' = content
    BY DEF FlashCall
  <2>. QED  BY <1>1, <2>1, <2>2 DEF FlashInv, BoundsInv, Claimed
<1>4. EraseInv'
  BY <1>1 DEF EraseInv, Claimed
<1>. QED  BY <1>2, <1>3, <1>4 DEF FlashInv

(* uni_hal_flash_init changes no word. *)
LEMMA InitFlashStep == FlashInv /\ InitFlash => FlashInv'
<1> SUFFICES ASSUME FlashInv, InitFlash PROVE FlashInv'
  OBVIOUS
<1>1. Claimed({})
  BY DEF InitFlash, Claimed, Nothing, Erased, ClaimTypes
<1>2. {flash_ready', flash_op_done', flash_op_failed'} \subseteq BOOLEAN
  BY DEF InitFlash, FlashInv, FlashTypes
<1>. QED  BY <1>1, <1>2, CallReturns DEF InitFlash

(* An erase or a write of a range changes words of that range alone. *)
LEMMA RangeStep ==
    ASSUME FlashInv, NEW r \in Ranges, EraseRange(r[1], r[2]) \/ FlashWrite(r[1], r[2])
    PROVE  FlashInv'
<1>1. r[1] \in Nat /\ r[2] \in Nat
  BY FlashAssumption
<1>2. hal_busy <=> operation # NoSector
  BY DEF FlashInv, BoundsInv
<1>3. {flash_ready', flash_op_done', flash_op_failed'} \subseteq BOOLEAN
  BY DEF EraseRange, FlashWrite, FlashInv, FlashTypes, signalVars
<1>4. CASE EraseRange(r[1], r[2])
  BY <1>1, <1>2, <1>3, <1>4, RangeErased, CallReturns DEF EraseRange
<1>5. CASE FlashWrite(r[1], r[2])
  BY <1>1, <1>2, <1>3, <1>5, RangeWritten, CallReturns DEF FlashWrite
<1>. QED  BY <1>4, <1>5

(* A swap of the banks claims nothing of the words. *)
LEMMA SwapStep == FlashInv /\ SwapBanks => FlashInv'
<1> SUFFICES ASSUME FlashInv, SwapBanks PROVE FlashInv'
  OBVIOUS
<1>1. Claimed(FlashWords)
  BY DEF SwapBanks, Claimed, Nothing, Erased, ClaimTypes
<1>2. {flash_ready', flash_op_done', flash_op_failed'} \subseteq BOOLEAN
  BY DEF SwapBanks, FlashInv, FlashTypes, signalVars
<1>. QED  BY <1>1, <1>2, CallReturns DEF SwapBanks

(* A reset ends every erase. *)
LEMMA ResetStep == FlashInv /\ FlashReset => FlashInv'
<1> SUFFICES ASSUME FlashInv, FlashReset PROVE FlashInv'
  OBVIOUS
<1>. USE DEF FlashReset, Restarted
<1>1. claim' = Nothing /\ Nothing \in ClaimTypes /\ Nothing.words = {} /\ Nothing.told = FALSE
  BY DEF Nothing, Erased, ClaimTypes
<1>2. FlashTypes'
  BY <1>1 DEF FlashTypes
<1>3. BoundsInv'
  BY DEF BoundsInv
<1>4. EraseInv'
  BY <1>1 DEF EraseInv
<1>. QED  BY <1>2, <1>3, <1>4 DEF FlashInv

(* A call to erase sectors of a bank: all that it claims are to be erased. *)
LEMMA EraseSectorsStep ==
    ASSUME FlashInv, NEW bank \in Banks2, NEW numbers \in SUBSET (0..SectorTotal - 1),
           EraseSectors(bank, numbers)
    PROVE  FlashInv'
<1>. DEFINE words == UNION {SectorWords(<<bank, n>>) : n \in numbers}
<1>1. /\ FlashCall(words) /\ claim' = Erased(words, FALSE)
      /\ UNCHANGED <<content, flash_ready, signalVars, hal_busy, operation>>
  BY DEF EraseSectors
<1>2. \A n \in numbers : <<bank, n>> \in FlashSectors /\ SectorWords(<<bank, n>>) \subseteq words
  BY DEF FlashSectors
<1>3. words \subseteq FlashWords
  BY <1>2, SectorInFlash
<1>4. /\ claim' \in ClaimTypes /\ claim'.words = words /\ claim'.are = "erased"
      /\ claim'.told = FALSE
  BY <1>1, <1>3 DEF Erased, ClaimTypes
<1>5. CASE flash_ready
  <2>1. PICK n \in numbers : target' = <<bank, n>> /\ left' = numbers \ {n}
    BY <1>5 DEF EraseSectors
  <2>2. flash_step' = "clear" /\ all_erased' = TRUE /\ ~raced'
    BY <1>1, <1>5 DEF EraseSectors, FlashCall
  <2>3. FlashTypes'
    BY <1>1, <1>4, <2>2 DEF FlashInv, FlashTypes, FlashCall, signalVars
  <2>4. BoundsInv'
    <3>1. words \subseteq may_change' /\ before_call' = content
      BY <1>1 DEF FlashCall
    <3>2. operation # NoSector => SectorWords(operation) \subseteq may_change'
      BY <1>1 DEF FlashInv, BoundsInv, FlashCall
    <3>3. /\ target' \in FlashSectors /\ left' \subseteq 0..SectorTotal - 1
          /\ SectorWords(target') \subseteq may_change'
          /\ \A m \in left' : SectorWords(<<target'[1], m>>) \subseteq may_change'
      BY <1>2, <2>1, <3>1
    <3>. QED  BY <1>1, <2>2, <3>1, <3>2, <3>3 DEF FlashInv, BoundsInv
  <2>5. \A w \in words : ToErase(w)'
    <3>1. target'[1] = bank
      BY <2>1
    <3>2. ASSUME NEW m \in numbers, NEW w \in SectorWords(<<bank, m>>) PROVE ToErase(w)'
      BY <2>1, <2>2, <3>1, <3>2 DEF ToErase
    <3>. QED  BY <3>2
  <2>. HIDE DEF words
  <2>6. EraseInv'
    BY <1>3, <1>4, <2>2, <2>5 DEF EraseInv
  <2>. QED  BY <2>3, <2>4, <2>6 DEF FlashInv
<1>6. CASE ~flash_ready
  <2>1. Claimed(words)
    BY <1>1, <1>4 DEF Claimed
  <2>2. {flash_ready', flash_op_done', flash_op_failed'} \subseteq BOOLEAN
    BY <1>1 DEF FlashInv, FlashTypes, signalVars
  <2>3. UNCHANGED <<flash_step, eraseVars, hal_busy, operation>>
    BY <1>1, <1>6 DEF EraseSectors
  <2>. QED  BY <1>1, <2>1, <2>2, <2>3, CallReturns
<1>. QED  BY <1>5, <1>6 DEF FlashInv, FlashTypes

(* The signals are cleared before the erase begins. *)
LEMMA EraseClearStep == FlashInv /\ EraseClear => FlashInv'
<1> SUFFICES ASSUME FlashInv, EraseClear PROVE FlashInv'
  OBVIOUS
<1>. USE DEF EraseClear, DoneClear, eraseVars, callVars
<1>1. FlashTypes'
  BY DEF FlashInv, FlashTypes
<1>2. BoundsInv'
  BY DEF FlashInv, BoundsInv
<1>3. EraseInv'
  BY DEF FlashInv, EraseInv, Counted, ToErase
<1>. QED  BY <1>1, <1>2, <1>3 DEF FlashInv

(* It begins when the hardware is free. *)
LEMMA EraseStartStep == FlashInv /\ EraseStart => FlashInv'
<1> SUFFICES ASSUME FlashInv, EraseStart PROVE FlashInv'
  OBVIOUS
<1>. USE DEF EraseStart, signalVars, callVars
<1>1. FlashTypes'
  BY DEF FlashInv, FlashTypes
<1>2. BoundsInv'
  <2>1. target \in FlashSectors
    BY DEF FlashInv, BoundsInv
  <2>2. target # NoSector
    BY <2>1 DEF FlashSectors, NoSector, Banks2
  <2>. QED  BY <2>1, <2>2 DEF FlashInv, BoundsInv
<1>3. EraseInv'
  BY DEF FlashInv, EraseInv, Counted, ToErase
<1>. QED  BY <1>1, <1>2, <1>3 DEF FlashInv

(* Its end is seen. *)
LEMMA EraseDoneStep == FlashInv /\ EraseDone => FlashInv'
<1> SUFFICES ASSUME FlashInv, EraseDone PROVE FlashInv'
  OBVIOUS
<1>. USE DEF EraseDone, callVars
<1>1. FlashTypes'
  BY DEF FlashInv, FlashTypes
<1>2. BoundsInv'
  BY DEF FlashInv, BoundsInv
<1>3. EraseInv'
  BY DEF FlashInv, EraseInv, Counted, ToErase
<1>. QED  BY <1>1, <1>2, <1>3 DEF FlashInv

(* It is given up. *)
LEMMA EraseTimeoutStep == FlashInv /\ EraseTimeout => FlashInv'
<1> SUFFICES ASSUME FlashInv, EraseTimeout PROVE FlashInv'
  OBVIOUS
<1>. USE DEF EraseTimeout, signalVars, callVars
<1>1. FlashTypes'
  BY DEF FlashInv, FlashTypes
<1>2. BoundsInv'
  BY DEF FlashInv, BoundsInv
<1>3. EraseInv'
  BY DEF FlashInv, EraseInv, Counted
<1>. QED  BY <1>1, <1>2, <1>3 DEF FlashInv

(* erase_bank goes on to the next sector. *)
LEMMA EraseNextStep == FlashInv /\ EraseNext => FlashInv'
<1> SUFFICES ASSUME FlashInv, EraseNext PROVE FlashInv'
  OBVIOUS
<1>. USE DEF EraseNext, signalVars, callVars
<1>1. FlashTypes'
  BY DEF FlashInv, FlashTypes
<1>2. PICK n \in left : target' = <<target[1], n>> /\ left' = left \ {n}
  OBVIOUS
<1>3. BoundsInv'
  <2>1. /\ target \in FlashSectors /\ left \subseteq 0..SectorTotal - 1
        /\ \A m \in left : SectorWords(<<target[1], m>>) \subseteq may_change
    BY DEF FlashInv, BoundsInv
  <2>2. target' \in FlashSectors /\ target'[1] = target[1] /\ left' \subseteq left
    BY <1>2, <2>1 DEF FlashSectors
  <2>3. SectorWords(target') \subseteq may_change
    BY <1>2, <2>1
  <2>4. /\ left' \subseteq 0..SectorTotal - 1
        /\ \A m \in left' : SectorWords(<<target'[1], m>>) \subseteq may_change'
    BY <2>1, <2>2
  <2>5. may_change' = may_change /\ flash_step' = "clear"
    OBVIOUS
  <2>. QED  BY <2>2, <2>3, <2>4, <2>5 DEF FlashInv, BoundsInv
<1>4. \A w : ToErase(w) => ToErase(w)'
  BY <1>2 DEF ToErase
<1>5. EraseInv'
  BY <1>4 DEF FlashInv, EraseInv, Counted
<1>. QED  BY <1>1, <1>3, <1>5 DEF FlashInv

(* The last sector is done: what the call tells is so. *)
LEMMA EraseReturnStep == FlashInv /\ EraseReturn => FlashInv'
<1> SUFFICES ASSUME FlashInv, EraseReturn PROVE FlashInv'
  OBVIOUS
<1>. USE DEF EraseReturn, signalVars, callVars, eraseVars
<1>1. /\ claim' \in ClaimTypes /\ claim'.words = claim.words /\ claim'.are = claim.are
      /\ claim'.told = all_erased
  BY DEF FlashInv, FlashTypes, ClaimTypes
<1>2. FlashTypes'
  BY <1>1 DEF FlashInv, FlashTypes
<1>3. BoundsInv'
  BY DEF FlashInv, BoundsInv
<1>4. EraseInv'
  BY <1>1 DEF FlashInv, EraseInv, Counted, ToErase
<1>. QED  BY <1>2, <1>3, <1>4 DEF FlashInv

(* The end of an erase, in time or late: what it changes is of its own sector. *)
LEMMA OperationEndsStep ==
    ASSUME FlashInv, NEW failed \in BOOLEAN, OperationEnds(failed)
    PROVE  FlashInv'
<1>. USE DEF OperationEnds, eraseVars, callVars
<1>1. FlashTypes'
  BY DEF FlashInv, FlashTypes
<1>2. /\ operation \in FlashSectors /\ SectorWords(operation) \subseteq FlashWords
      /\ SectorWords(operation) \subseteq may_change
  BY SectorInFlash DEF FlashInv, BoundsInv
<1>3. \A w \in FlashWords \ SectorWords(operation) : content'[w] = content[w]
  OBVIOUS
<1>4. ~failed => \A w \in SectorWords(operation) : content'[w] = "erased"
  BY <1>2
<1>5. BoundsInv'
  BY <1>2, <1>3 DEF FlashInv, BoundsInv
<1>6. \A w : ToErase(w)' = ToErase(w)
  BY DEF ToErase
<1>7. EraseInv'
  <2>1. CASE flash_step = "idle"
    BY <2>1 DEF FlashInv, EraseInv
  <2>2. CASE flash_step = "clear"
    BY <1>3, <1>6, <2>2 DEF FlashInv, EraseInv, Counted, FlashTypes
  <2>3. CASE flash_step = "start"
    BY <2>3 DEF FlashInv, EraseInv, Counted, FlashTypes
  <2>4. CASE flash_step = "wait"
    <3>1. Counted' => operation = target
      BY <2>4 DEF FlashInv, EraseInv, Counted, FlashTypes
    <3>2. Counted' => \A w \in claim'.words : content'[w] = "erased" \/ ToErase(w)'
      <4>1. \A w \in SectorWords(target) : ToErase(w)'
        BY <2>4, <1>6 DEF ToErase
      <4>. QED  BY <1>3, <1>6, <2>4, <3>1, <4>1 DEF FlashInv, EraseInv, Counted, FlashTypes
    <3>3. Counted' => flash_op_failed' \/ \A w \in SectorWords(target') : content'[w] = "erased"
      BY <1>4, <3>1
    <3>. QED  BY <2>4, <3>2, <3>3 DEF FlashInv, EraseInv
  <2>5. CASE flash_step = "lock"
    BY <2>5 DEF FlashInv, EraseInv, Counted, FlashTypes
  <2>. QED  BY <2>1, <2>2, <2>3, <2>4, <2>5 DEF FlashInv, BoundsInv
<1>. QED  BY <1>1, <1>5, <1>7 DEF FlashInv

(* The flash is as the last call told. *)
THEOREM FlashIsAsTold == FlashSpec => []FlashTold
<1>1. FlashInit => FlashInv
  <2> SUFFICES ASSUME FlashInit PROVE FlashInv
    OBVIOUS
  <2>1. claim \in ClaimTypes /\ claim.words = {} /\ claim.told = FALSE
    BY DEF FlashInit, Nothing, Erased, ClaimTypes
  <2>2. NoSector \notin FlashSectors
    BY DEF NoSector, FlashSectors, Banks2
  <2>. QED  BY <2>1, <2>2 DEF FlashInit, FlashInv, FlashTypes, BoundsInv, EraseInv
<1>2. FlashInv => FlashTold
  BY DEF FlashInv, FlashTypes, BoundsInv, EraseInv, FlashTold
<1>3. FlashInv /\ [FlashNext]_flashVars => FlashInv'
  <2> SUFFICES ASSUME FlashInv, [FlashNext]_flashVars PROVE FlashInv'
    OBVIOUS
  <2>1. ASSUME NEW s \in FlashSectors, EraseSector(s) PROVE FlashInv'
    BY <2>1, EraseSectorsStep DEF EraseSector, FlashSectors
  <2>2. ASSUME NEW bank \in Banks2, EraseBank(bank) PROVE FlashInv'
    BY <2>2, EraseSectorsStep DEF EraseBank
  <2>3. CASE UNCHANGED flashVars
    BY <2>3 DEF flashVars, eraseVars, signalVars, callVars, FlashInv, FlashTypes, BoundsInv,
       EraseInv, Counted, ToErase
  <2>. QED  BY <2>1, <2>2, <2>3, InitFlashStep, EraseClearStep, EraseStartStep, EraseDoneStep,
               EraseTimeoutStep, EraseNextStep, EraseReturnStep, OperationEndsStep, RangeStep,
               ResetStep, SwapStep DEF FlashNext
<1>. QED  BY <1>1, <1>2, <1>3, PTL DEF FlashSpec

--------------------------------------------------------------------------------
(***************************************************************************)
(* Adc: the sequences, the streams and the samples in the arrays.          *)
(***************************************************************************)
(* Where an initialisation can be.                                          *)
InitSteps == {"idle", "dma", "common", "configure", "powerup", "calibration", "ready", "return"}

(* The channels an ADC may have preselected.                                *)
Preselections == SUBSET Nat

(* The registers of an ADC and of its stream.                               *)
Converters == [calibrating : BOOLEAN, aden : BOOLEAN, adrdy : BOOLEAN, adstart : BOOLEAN,
               sequence : Seq(Nat), pcsel : Preselections, next : Nat, ovr : BOOLEAN]
Streams == [inited : BOOLEAN, length : Nat, en : BOOLEAN, next : Nat, te : BOOLEAN]

(* The values of the variables.                                             *)
AdcTypes ==
    /\ chip \in {"h7", "l4"} /\ config \in AdcConfigs
    /\ init_of \in Adcs \cup {0} /\ init_step \in InitSteps /\ init_result \in BOOLEAN
    /\ init_of = 0 <=> init_step = "idle"
    /\ initialized \in [Adcs -> BOOLEAN]
    /\ converter \in [Adcs -> Converters]
    /\ dma \in [Adcs -> Streams]
    /\ paths \in [{12, 3} -> SUBSET {"REFINT", "TEMPSENSOR", "VBAT", "pin"}]
    /\ skipped \subseteq Adcs /\ shifted \subseteq Adcs

(* The channels of an ADC, and the internal ones among them.                *)
ChannelsOf(a) == config[a].channels
Internals(a) == {Channel(ch) : ch \in ToSet(ChannelsOf(a))} \ {"pin"}

(* The call has succeeded so far, at one of these steps.                    *)
Passed(a, steps) == init_of = a /\ init_step \in steps /\ init_result

(* An ADC that converts has been set up with its sequence, on the STM32H7   *)
(* with its first channel preselected; it is enabled from the end of the    *)
(* calibration on.                                                          *)
SetUp(a) ==
    /\ initialized[a] => converter[a].adstart
    /\ converter[a].adstart => converter[a].aden
    /\ init_of = a /\ init_step = "ready" => init_result /\ converter[a].aden
    /\ Passed(a, {"return"}) => converter[a].aden
    /\ converter[a].adstart \/ Passed(a, {"powerup", "calibration", "ready", "return"}) =>
           /\ converter[a].sequence = ChannelsOf(a)
           /\ chip = "h7" => ChannelsOf(a)[1] \in converter[a].pcsel

(* The internal channels of an ADC that found its block free are connected  *)
(* from then on: nobody else finds it free once the ADC is enabled.         *)
Connected(a) ==
    a \notin skipped /\ (\/ converter[a].aden
                         \/ Passed(a, {"configure", "powerup", "calibration", "ready"}))
        => paths[Block(a)] = Internals(a)

(* The stream writes sample and rank of the same number, as long as no      *)
(* sample has been lost and the stream was not started again.               *)
Aligned(a) ==
    /\ dma[a].en => dma[a].length = Len(ChannelsOf(a))
    /\ ~converter[a].adstart => converter[a].next = 1 /\ (dma[a].en => dma[a].next = 1)
    /\ converter[a].adstart => converter[a].next \in 1..Len(ChannelsOf(a))
    /\ a \notin shifted => ~converter[a].ovr /\ (dma[a].en => dma[a].next = converter[a].next)

(* A sample of this channel, connected if it is one that is served.         *)
SampleOf(a, ch) == {<<ch, w>> : w \in {v \in BOOLEAN : Served(a, ch) => v}}

(* The array has samples of the channels it is read for.                    *)
Filled(a) ==
    /\ data[a] \in [DOMAIN ChannelsOf(a) -> {Unset} \cup (ToSet(ChannelsOf(a)) \X BOOLEAN)]
    /\ ~converter[a].adstart => \A r \in DOMAIN ChannelsOf(a) : data[a][r] = Unset
    /\ a \notin shifted => \A r \in DOMAIN ChannelsOf(a) :
           data[a][r] \in {Unset} \cup SampleOf(a, ChannelsOf(a)[r])

(* What is said of each ADC.                                                *)
AdcHolds(a) == SetUp(a) /\ Connected(a) /\ Aligned(a) /\ Filled(a)

(* The inductive invariant of the ADCs.                                     *)
AdcInv ==
    /\ AdcTypes /\ DOMAIN data = Adcs
    /\ \A a \in Adcs : AdcHolds(a)

(* A set of numbers has a least one.                                        *)
LEMMA LeastExists ==
    ASSUME NEW S \in SUBSET Nat, S # {}
    PROVE  \E x \in S : \A y \in S : x <= y
<1>. DEFINE less == {p \in Nat \X Nat : p[1] < p[2]}
<1>1. IsWellFoundedOn(less, Nat)
   BY NatLessThanWellFounded DEF OpToRel
<1>2. PICK x \in S : \A y \in S : ~(<<y, x>> \in less)
  BY <1>1, WFMin
<1>3. ASSUME NEW y \in S PROVE x <= y
  <2>1. <<y, x>> \in Nat \X Nat /\ <<y, x>>[1] = y /\ <<y, x>>[2] = x
    OBVIOUS
  <2>2. ~(<<y, x>>[1] < <<y, x>>[2])
    BY <1>2, <2>1
  <2>3. ~(y < x)
    BY <2>1, <2>2
  <2>. QED  BY <2>3
<1>. QED  BY <1>3

(* It is the one Min picks.                                                 *)
LEMMA LeastIn ==
    ASSUME NEW S \in SUBSET Nat, S # {}
    PROVE  Min(S) \in S
BY LeastExists DEF Min

(* What the assumption on the configurations says of the one in use.        *)
LEMMA ChannelsAre ==
    ASSUME config \in AdcConfigs, NEW a \in Adcs
    PROVE  ChannelsOf(a) \in Seq(Nat) /\ Len(ChannelsOf(a)) \in 1..16
BY AdcAssumption DEF ChannelsOf

(* The sequence an ADC is set up with is that of its channels.              *)
LEMMA SequenceIs ==
    ASSUME config \in AdcConfigs, NEW a \in Adcs
    PROVE  [i \in 1..ScanLength(Len(ChannelsOf(a))) |-> ChannelsOf(a)[Rank(i)]] = ChannelsOf(a)
<1>. DEFINE s == ChannelsOf(a)
<1>1. s \in Seq(Nat) /\ Len(s) \in 1..16
  BY ChannelsAre
<1>. HIDE DEF s
<1>2. ScanLength(Len(s)) = Len(s)
  <2>1. Len(s) = 1 \/ Len(s) \in 2..16
    BY <1>1
  <2>. QED  BY <2>1 DEF ScanLength
<1>3. \A i \in 1..Len(s) : Rank(i) = i
  <2>. DEFINE n == Len(s)
  <2>1. n \in 1..16
    BY <1>1
  <2>. HIDE DEF n
  <2>2. \A i \in 1..n : i \in 1..16
    BY <2>1
  <2>. QED  BY <2>2 DEF Rank, n
<1>4. [i \in 1..Len(s) |-> s[Rank(i)]] = [i \in 1..Len(s) |-> s[i]]
  BY <1>3
<1>5. [i \in 1..Len(s) |-> s[i]] = s
  BY <1>1
<1>. QED  BY <1>2, <1>4, <1>5 DEF s

(* What _uni_hal_adc_configure leaves in the ADC.                           *)
LEMMA ConfigureSets ==
    ASSUME config \in AdcConfigs, init_of \in Adcs, Configure
    PROVE  \/ converter' = converter /\ ~HasSettings(config[init_of])
           \/ converter' = [converter EXCEPT
                 ![init_of].sequence = ChannelsOf(init_of),
                 ![init_of].pcsel = converter[init_of].pcsel \cup Preselected(config[init_of])]
BY SequenceIs DEF Configure, ChannelsOf

(* Chip and configuration stay.                                             *)
LEMMA SettingsStay ==
    ASSUME [AdcNext]_adcVars
    PROVE  /\ UNCHANGED <<chip, config>>
           /\ \A ch : Channel(ch)' = Channel(ch)
           /\ \A a : Block(a)' = Block(a)
           /\ \A a : ChannelsOf(a)' = ChannelsOf(a)
           /\ \A a : Internals(a)' = Internals(a)
<1>1. UNCHANGED <<chip, config>>
  BY DEF AdcNext, adcVars, fixed, InitDma, DmaH7, DmaL4, ConfigureCommon, Configure, Powerup,
         Enable, Timeout, Ready, Return, InitCall, Calibrated, BecomesReady, Convert, Overrun,
         AdcIrq, TransferError, DmaIrq, hwUnchanged, Goto
<1>2. \A ch : Channel(ch)' = Channel(ch)
  BY <1>1 DEF Channel, ChannelH7, ChannelL4
<1>. QED  BY <1>1, <1>2 DEF Block, ChannelsOf, Internals

(* The registers of a stream that are written when it is set up.            *)
LEMMA StreamLength ==
    ASSUME NEW c \in Streams, NEW n \in Nat
    PROVE  /\ [c EXCEPT !.length = n, !.next = 1] \in Streams
           /\ [c EXCEPT !.length = n, !.next = 1].length = n
           /\ [c EXCEPT !.length = n, !.next = 1].next = 1
BY DEF Streams

(* Those that are written when it is switched on.                           *)
LEMMA StreamOn ==
    ASSUME NEW c \in Streams, NEW v \in BOOLEAN, NEW w \in BOOLEAN
    PROVE  /\ [c EXCEPT !.inited = v, !.en = w] \in Streams
           /\ [c EXCEPT !.inited = v, !.en = w].length = c.length
           /\ [c EXCEPT !.inited = v, !.en = w].next = c.next
BY DEF Streams

(* The initialisation sets up the stream of its ADC, unless it runs.        *)
LEMMA StreamSetUp ==
    ASSUME AdcTypes, InitDma
    PROVE  /\ dma' \in [Adcs -> Streams]
           /\ \A a \in Adcs :
                 \/ dma'[a].en = dma[a].en /\ dma'[a].length = dma[a].length
                      /\ dma'[a].next = dma[a].next
                 \/ /\ a = init_of /\ ~dma[a].en
                    /\ dma'[a].length = Len(ChannelsOf(a)) /\ dma'[a].next = 1
                 \/ a = init_of /\ dma'[a].length = dma[a].length /\ dma[a].en
                      /\ dma'[a].next = dma[a].next
<1>1. config \in AdcConfigs /\ dma \in [Adcs -> Streams] /\ init_of \in Adcs
  BY DEF AdcTypes, InitDma, At
<1>. DEFINE d == dma[init_of]
            e == Configured(d)
<1>2. d \in Streams /\ Len(ChannelsOf(init_of)) \in Nat
  BY <1>1, ChannelsAre
<1>3. e = IF d.en THEN d ELSE [d EXCEPT !.length = Len(ChannelsOf(init_of)), !.next = 1]
  BY DEF Configured, ChannelsOf
<1>4. /\ e \in Streams
      /\ \/ e.length = d.length /\ e.next = d.next /\ d.en
         \/ e.length = Len(ChannelsOf(init_of)) /\ e.next = 1 /\ ~d.en
  <2>1. CASE d.en
    BY <1>2, <1>3, <2>1
  <2>2. CASE ~d.en
    <3>. DEFINE n == Len(ChannelsOf(init_of))
    <3>1. e = [d EXCEPT !.length = n, !.next = 1]
      BY <1>3, <2>2
    <3>2. n \in Nat /\ d \in Streams
      BY <1>2
    <3>. HIDE DEF n, d, e
    <3>3. e \in Streams /\ e.length = n /\ e.next = 1
      BY <3>1, <3>2, StreamLength
    <3>. QED  BY <2>2, <3>3 DEF n
  <2>. QED  BY <2>1, <2>2
<1>. HIDE DEF e
<1>5. ASSUME NEW v \in BOOLEAN, NEW w \in BOOLEAN
      PROVE  /\ [e EXCEPT !.inited = v, !.en = w] \in Streams
             /\ [e EXCEPT !.inited = v, !.en = w].length = e.length
             /\ [e EXCEPT !.inited = v, !.en = w].next = e.next
  BY <1>4, StreamOn
<1>6. dma' = dma \/ \E v, w \in BOOLEAN :
                        dma' = [dma EXCEPT ![init_of] = [e EXCEPT !.inited = v, !.en = w]]
  <2>1. PICK ok \in BOOLEAN : IF config[init_of].dma
                              THEN IF chip = "h7" THEN DmaH7(ok) ELSE DmaL4(ok)
                              ELSE UNCHANGED dma
    BY DEF InitDma
  <2>2. CASE config[init_of].dma /\ chip = "h7"
    <3>. DEFINE v == d.inited \/ ok
                x == [e EXCEPT !.inited = v]
    <3>1. v \in BOOLEAN
      BY <1>2 DEF Streams
    <3>2. dma' = [dma EXCEPT ![init_of] = [x EXCEPT !.en = x.en \/ x.inited]]
      BY <2>1, <2>2 DEF DmaH7, DmaInited, e
    <3>3. [x EXCEPT !.en = x.en \/ x.inited] = [e EXCEPT !.inited = v, !.en = e.en \/ v]
      BY <1>4, <3>1 DEF Streams
    <3>4. (e.en \/ v) \in BOOLEAN
      BY <1>4, <3>1 DEF Streams
    <3>. QED  BY <3>1, <3>2, <3>3, <3>4
  <2>3. CASE config[init_of].dma /\ chip # "h7"
    BY <2>1, <2>3 DEF DmaL4, e
  <2>. QED  BY <2>1, <2>2, <2>3
<1>7. CASE dma' = dma
  BY <1>1, <1>7
<1>8. ASSUME NEW v \in BOOLEAN, NEW w \in BOOLEAN,
             dma' = [dma EXCEPT ![init_of] = [e EXCEPT !.inited = v, !.en = w]]
      PROVE  dma' \in [Adcs -> Streams] /\ dma'[init_of].length = e.length
             /\ dma'[init_of].next = e.next /\ \A a \in Adcs \ {init_of} : dma'[a] = dma[a]
  BY <1>1, <1>5, <1>8
<1>. QED  BY <1>1, <1>4, <1>6, <1>7, <1>8

(* A converter or a stream goes on to the next of its ranks.                *)
LEMMA FollowingIs ==
    ASSUME NEW n \in Nat, NEW i \in Nat
    PROVE  Following(i, n) \in Nat /\ (n # 0 /\ i \in 1..n => Following(i, n) \in 1..n)
BY DEF Following

(* The registers have values of their types.                                *)
LEMMA RegistersAre ==
    ASSUME AdcTypes, NEW a \in Adcs
    PROVE  /\ converter[a].next \in Nat /\ Len(converter[a].sequence) \in Nat
           /\ converter[a].aden \in BOOLEAN /\ converter[a].adstart \in BOOLEAN
           /\ dma[a].next \in Nat /\ dma[a].length \in Nat
<1>1. converter[a] \in Converters /\ dma[a] \in Streams
  BY DEF AdcTypes
<1>. QED  BY <1>1 DEF Converters, Streams

(* Every step keeps the types.                                              *)
LEMMA AdcTypesStep ==
    ASSUME AdcTypes, [AdcNext]_adcVars
    PROVE  AdcTypes'
<1>1. UNCHANGED <<chip, config>> /\ config \in AdcConfigs
  BY SettingsStay DEF AdcTypes
<1>0. /\ converter \in [Adcs -> Converters] /\ dma \in [Adcs -> Streams]
      /\ init_result \in BOOLEAN
  BY DEF AdcTypes
<1>2. CASE InitDma
  <2>1. dma' \in [Adcs -> Streams]
    BY <1>2, StreamSetUp
  <2>2. /\ init_step' = "common" /\ init_result' \in BOOLEAN /\ init_step = "dma"
        /\ UNCHANGED <<init_of, initialized, converter, paths, skipped>>
        /\ shifted' \subseteq shifted \cup {init_of} /\ init_of # 0
    <3>1. PICK ok \in BOOLEAN : IF config[init_of].dma
                                THEN IF chip = "h7" THEN DmaH7(ok) ELSE DmaL4(ok)
                                ELSE Goto("common", init_result)
      BY <1>2 DEF InitDma
    <3>2. \E r \in BOOLEAN : Goto("common", r)
      BY <1>0, <3>1 DEF DmaH7, DmaL4
    <3>. QED  BY <1>2, <3>2 DEF InitDma, Goto, At, AdcTypes
  <2>3. shifted' \subseteq Adcs
    BY <2>2 DEF AdcTypes
  <2>. QED  BY <1>1, <2>1, <2>2, <2>3 DEF AdcTypes, InitSteps
<1>3. CASE ConfigureCommon
  <2>1. paths' \in [{12, 3} -> SUBSET {"REFINT", "TEMPSENSOR", "VBAT", "pin"}]
    <3>1. \A ch : Channel(ch) \in {"REFINT", "TEMPSENSOR", "VBAT", "pin"}
      BY DEF Channel, ChannelH7, ChannelL4
    <3>2. paths' = paths \/ \E b : \E w \in SUBSET {"REFINT", "TEMPSENSOR", "VBAT", "pin"} :
                                 paths' = [paths EXCEPT ![b] = w]
      BY <1>3, <3>1 DEF ConfigureCommon
    <3>. QED  BY <3>2 DEF AdcTypes
  <2>2. /\ init_step' = "configure" /\ init_step = "common"
        /\ init_result' = (HasClock(config[init_of]) /\ init_result)
        /\ skipped' \subseteq skipped \cup {init_of}
        /\ UNCHANGED <<init_of, initialized, converter, dma, shifted>>
    BY <1>3 DEF ConfigureCommon, Goto, At
  <2>. QED  BY <1>1, <2>1, <2>2 DEF Adcs, AdcTypes, InitSteps
<1>4. CASE Configure
  <2>1. init_of \in Adcs /\ init_step = "configure"
    BY <1>1, <1>4 DEF Configure, At, AdcTypes, InitSteps
  <2>2. converter' \in [Adcs -> Converters]
    <3>1. converter' = converter
          \/ converter' = [converter EXCEPT
                 ![init_of].sequence = ChannelsOf(init_of),
                 ![init_of].pcsel = converter[init_of].pcsel \cup Preselected(config[init_of])]
      BY <1>1, <1>4, <2>1, ConfigureSets
    <3>. DEFINE picked == converter[init_of].pcsel \cup Preselected(config[init_of])
    <3>2. ChannelsOf(init_of) \in Seq(Nat) /\ Preselected(config[init_of]) \in SUBSET Nat
      BY <1>1, <2>1, ChannelsAre DEF Preselected, ChannelsOf
    <3>3. converter[init_of].pcsel \in Preselections
      BY <1>0, <2>1 DEF Converters
    <3>4. picked \in Preselections
      BY <3>2, <3>3 DEF Preselections
    <3>. HIDE DEF picked
    <3>5. \/ converter' = converter
          \/ converter' = [converter EXCEPT ![init_of].sequence = ChannelsOf(init_of),
                                            ![init_of].pcsel = picked]
      BY <3>1 DEF picked
    <3>6. converter[init_of] \in Converters
      BY <1>0, <2>1
    <3>7. [converter[init_of] EXCEPT !.sequence = ChannelsOf(init_of), !.pcsel = picked]
              \in Converters
      BY <3>2, <3>4, <3>6 DEF Converters
    <3>. HIDE DEF Converters
    <3>. QED  BY <1>0, <2>1, <3>5, <3>7
  <2>. QED  BY <1>1, <1>4, <2>1, <2>2 DEF Configure, Goto, AdcTypes, InitSteps
<1>5. CASE Powerup
  <2>1. init_of \in Adcs /\ init_step = "powerup"
    BY <1>1, <1>5 DEF Powerup, At, AdcTypes, InitSteps
  <2>2. converter' \in [Adcs -> Converters]
    <3>. DEFINE down == ~converter[init_of].aden
    <3>1. down \in BOOLEAN
      OBVIOUS
    <3>2. converter' = [converter EXCEPT ![init_of].calibrating = down]
      BY <1>5 DEF Powerup
    <3>. HIDE DEF down
    <3>. QED  BY <1>0, <2>1, <3>1, <3>2 DEF Converters
  <2>. QED  BY <1>1, <1>5, <2>1, <2>2 DEF Powerup, Goto, AdcTypes, InitSteps
<1>6. CASE Enable
  <2>1. init_of \in Adcs /\ init_step = "calibration"
    BY <1>1, <1>6 DEF Enable, At, AdcTypes, InitSteps
  <2>2. converter' = [converter EXCEPT ![init_of].aden = converter[init_of].aden \/ init_result]
    BY <1>0, <1>6 DEF Enable
  <2>3. (converter[init_of].aden \/ init_result) \in BOOLEAN
    OBVIOUS
  <2>4. converter' \in [Adcs -> Converters]
    BY <1>0, <2>1, <2>2, <2>3 DEF Converters
  <2>. QED  BY <1>1, <1>6, <2>1, <2>4 DEF Enable, Goto, AdcTypes, InitSteps
<1>7. CASE Timeout
  BY <1>1, <1>7 DEF Timeout, Goto, At, AdcTypes, InitSteps
<1>8. CASE Ready
  BY <1>1, <1>8 DEF Ready, Goto, At, AdcTypes, InitSteps
<1>9. CASE Return
  <2>1. init_of \in Adcs /\ init_step = "return"
    BY <1>1, <1>9 DEF Return, At, AdcTypes, InitSteps
  <2>2. converter' = [converter EXCEPT ![init_of].adstart =
                          converter[init_of].adstart \/ init_result]
    BY <1>0, <1>9 DEF Return
  <2>3. (converter[init_of].adstart \/ init_result) \in BOOLEAN
    OBVIOUS
  <2>4. converter' \in [Adcs -> Converters]
    BY <1>0, <2>1, <2>2, <2>3 DEF Converters
  <2>. QED  BY <1>1, <1>9, <2>1, <2>4 DEF Return, AdcTypes, InitSteps
<1>10. ASSUME NEW a \in Adcs, InitCall(a) PROVE AdcTypes'
  BY <1>1, <1>10 DEF InitCall, Adcs, AdcTypes, InitSteps
<1>11. ASSUME NEW a \in Adcs, Calibrated(a) PROVE AdcTypes'
  <2>1. converter' \in [Adcs -> Converters]
    BY <1>0, <1>11 DEF Calibrated, Converters, Streams
  <2>. QED  BY <1>1, <1>11, <2>1 DEF Calibrated, hwUnchanged, initVars, AdcTypes, InitSteps
<1>12. ASSUME NEW a \in Adcs, BecomesReady(a) PROVE AdcTypes'
  <2>1. converter' \in [Adcs -> Converters]
    BY <1>0, <1>12 DEF BecomesReady, Converters, Streams
  <2>. QED  BY <1>1, <1>12, <2>1 DEF BecomesReady, hwUnchanged, initVars, AdcTypes, InitSteps
<1>13. ASSUME NEW a \in Adcs, Convert(a) PROVE AdcTypes'
  <2>1. /\ Following(converter[a].next, Len(converter[a].sequence)) \in Nat
        /\ Following(dma[a].next, dma[a].length) \in Nat
    BY RegistersAre, FollowingIs
  <2>2. converter' \in [Adcs -> Converters]
    BY <1>0, <1>13, <2>1 DEF Convert, Converters, Streams
  <2>3. dma' \in [Adcs -> Streams]
    <3>1. dma' = dma \/ dma' = [dma EXCEPT ![a].next = Following(dma[a].next, dma[a].length)]
      BY <1>13 DEF Convert
    <3>. QED  BY <1>0, <2>1, <3>1 DEF Streams
  <2>. QED  BY <1>1, <1>13, <2>2, <2>3 DEF Convert, hwUnchanged, initVars, AdcTypes, InitSteps
<1>14. ASSUME NEW a \in Adcs, Overrun(a) PROVE AdcTypes'
  <2>1. Following(converter[a].next, Len(converter[a].sequence)) \in Nat
    BY RegistersAre, FollowingIs
  <2>2. converter' \in [Adcs -> Converters]
    BY <1>0, <1>14, <2>1 DEF Overrun, Converters, Streams
  <2>. QED  BY <1>1, <1>14, <2>2 DEF Overrun, hwUnchanged, initVars, AdcTypes, InitSteps
<1>15. ASSUME NEW a \in Adcs, AdcIrq(a) PROVE AdcTypes'
  <2>1. converter' \in [Adcs -> Converters]
    BY <1>0, <1>15 DEF AdcIrq, Converters, Streams
  <2>. QED  BY <1>1, <1>15, <2>1 DEF AdcIrq, hwUnchanged, initVars, AdcTypes, InitSteps
<1>16. ASSUME NEW a \in Adcs, TransferError(a) PROVE AdcTypes'
  <2>1. dma' \in [Adcs -> Streams]
    BY <1>0, <1>16 DEF TransferError, Converters, Streams
  <2>. QED  BY <1>1, <1>16, <2>1 DEF TransferError, hwUnchanged, initVars, AdcTypes, InitSteps
<1>17. ASSUME NEW a \in Adcs, DmaIrq(a) PROVE AdcTypes'
  <2>1. dma' \in [Adcs -> Streams]
    BY <1>0, <1>17 DEF DmaIrq, Converters, Streams
  <2>. QED  BY <1>1, <1>17, <2>1 DEF DmaIrq, hwUnchanged, initVars, AdcTypes, InitSteps
<1>18. CASE UNCHANGED adcVars
  BY <1>1, <1>18 DEF adcVars, AdcTypes, InitSteps
<1>. QED  BY <1>2, <1>3, <1>4, <1>5, <1>6, <1>7, <1>8, <1>9, <1>10, <1>11, <1>12, <1>13, <1>14,
             <1>15, <1>16, <1>17, <1>18 DEF AdcNext

(* The samples that count stay the same while the block of an ADC does.     *)
LEMMA SamplesStay ==
    ASSUME NEW a \in Adcs, [AdcNext]_adcVars, a \in skipped' <=> a \in skipped
    PROVE  \A ch : SampleOf(a, ch)' = SampleOf(a, ch)
<1>1. UNCHANGED <<chip, config>> /\ \A ch : Channel(ch)' = Channel(ch)
  BY SettingsStay
<1>2. \A ch : Served(a, ch)' <=> Served(a, ch)
  BY <1>1 DEF Served
<1>. QED  BY <1>2 DEF SampleOf

(* So does what is said of an array that is not written.                    *)
LEMMA FilledStays ==
    ASSUME NEW a \in Adcs, Filled(a), [AdcNext]_adcVars, a \in skipped' <=> a \in skipped,
           data'[a] = data[a], converter[a].adstart => converter'[a].adstart,
           a \notin shifted' => a \notin shifted
    PROVE  Filled(a)'
<1>1. ChannelsOf(a)' = ChannelsOf(a) /\ \A ch : SampleOf(a, ch)' = SampleOf(a, ch)
  BY SettingsStay, SamplesStay
<1>. HIDE DEF SampleOf, ChannelsOf
<1>. QED  BY <1>1 DEF Filled

(* It stays so where nothing of it changes but flags and the end of a       *)
(* stream.                                                                  *)
LEMMA AdcUnmoved ==
    ASSUME NEW a \in Adcs, AdcHolds(a), [AdcNext]_adcVars,
           UNCHANGED <<init_of, init_step, init_result, initialized, paths, data, skipped>>,
           UNCHANGED shifted,
           converter'[a].aden = converter[a].aden, converter'[a].adstart = converter[a].adstart,
           converter'[a].sequence = converter[a].sequence, converter'[a].next = converter[a].next,
           converter'[a].pcsel = converter[a].pcsel,
           converter'[a].ovr => converter[a].ovr, dma'[a].en => dma[a].en,
           dma'[a].length = dma[a].length, dma'[a].next = dma[a].next
    PROVE  AdcHolds(a)'
<1>1. SetUp(a)'
  BY SettingsStay DEF AdcHolds, SetUp, Passed
<1>2. Connected(a)'
  BY SettingsStay DEF AdcHolds, Connected, Passed
<1>3. Aligned(a)'
  BY SettingsStay DEF AdcHolds, Aligned
<1>4. Filled(a)'
  BY FilledStays DEF AdcHolds
<1>. QED  BY <1>1, <1>2, <1>3, <1>4 DEF AdcHolds

(* Every step keeps what is said of each ADC.                               *)
LEMMA AdcStep ==
    ASSUME AdcInv, [AdcNext]_adcVars, NEW a \in Adcs
    PROVE  AdcHolds(a)'
<1>1. AdcTypes /\ AdcHolds(a) /\ DOMAIN data = Adcs
  BY DEF AdcInv
<1>2. /\ \A ch : Channel(ch)' = Channel(ch)
      /\ Block(a)' = Block(a) /\ ChannelsOf(a)' = ChannelsOf(a)
      /\ Internals(a)' = Internals(a) /\ chip' = chip
  BY SettingsStay
<1>3. ChannelsOf(a) \in Seq(Nat) /\ Len(ChannelsOf(a)) \in 1..16
  BY <1>1, ChannelsAre DEF AdcTypes
<1>4. /\ converter \in [Adcs -> Converters] /\ dma \in [Adcs -> Streams]
      /\ init_of = 0 <=> init_step = "idle"
      /\ initialized \in [Adcs -> BOOLEAN] /\ init_result \in BOOLEAN
  BY <1>1 DEF AdcTypes
<1>5. CASE InitDma
  <2>1. \E r \in BOOLEAN : Goto("common", r)
    BY <1>4, <1>5 DEF InitDma, DmaH7, DmaL4
  <2>2. /\ init_step = "dma" /\ init_step' = "common" /\ init_of # 0
        /\ UNCHANGED <<converter, paths, data, skipped, init_of, initialized>>
        /\ shifted' = shifted \cup {b \in {init_of} : Restarts}
    BY <1>4, <1>5, <2>1 DEF InitDma, Goto, At
  <2>3. SetUp(a)'
    BY <1>1, <1>2, <2>2 DEF AdcHolds, SetUp, Passed
  <2>4. Connected(a)'
    BY <1>1, <1>2, <2>2 DEF AdcHolds, Connected, Passed
  <2>5. Aligned(a)'
    <3>1. a \notin shifted' => /\ a \notin shifted
                               /\ (a = init_of /\ converter[a].adstart /\ dma'[a].en) => dma[a].en
      BY <2>2 DEF Restarts
    <3>. QED  BY <1>1, <1>2, <1>4, <1>5, <2>2, <3>1, StreamSetUp DEF AdcHolds, Aligned
  <2>6. Filled(a)'
    BY <1>1, <1>2, <2>2, FilledStays DEF AdcHolds
  <2>. QED  BY <2>3, <2>4, <2>5, <2>6 DEF AdcHolds
<1>6. CASE ConfigureCommon
  <2>1. /\ init_step = "common" /\ init_step' = "configure" /\ init_of # 0
        /\ init_result' => init_result
        /\ UNCHANGED <<converter, data, dma, shifted, init_of, initialized>>
    BY <1>4, <1>6 DEF ConfigureCommon, Goto, At
  <2>2. SetUp(a)'
    BY <1>1, <1>2, <2>1 DEF AdcHolds, SetUp, Passed
  <2>3. Connected(a)'
    <3>1. CASE HasClock(config[init_of]) /\ BlockFree(Block(init_of))
      <4>1. paths' = [paths EXCEPT ![Block(init_of)] = Internals(init_of)]
        BY <1>6, <3>1 DEF ConfigureCommon, Internals, ChannelsOf
      <4>2. DOMAIN paths = {12, 3} /\ Block(init_of) \in {12, 3}
        BY <1>1 DEF AdcTypes, Block
      <4>3. CASE a = init_of
        BY <1>2, <4>1, <4>2, <4>3 DEF Connected
      <4>4. CASE a # init_of
        <5>1. Block(a) = Block(init_of) => ~converter[a].aden
          BY <3>1 DEF BlockFree
        <5>2. a \notin skipped' => a \notin skipped
          BY <1>6, <3>1, <4>4 DEF ConfigureCommon
        <5>. QED  BY <1>1, <1>2, <2>1, <4>1, <4>4, <5>1, <5>2 DEF AdcHolds, Connected, Passed
      <4>. QED  BY <4>3, <4>4
    <3>2. CASE ~(HasClock(config[init_of]) /\ BlockFree(Block(init_of)))
      <4>1. /\ paths' = paths /\ skipped \subseteq skipped'
            /\ init_result' => init_of \in skipped' \/ converter[init_of].aden
        BY <1>6, <3>2 DEF ConfigureCommon, Goto
      <4>. QED  BY <1>1, <1>2, <2>1, <4>1 DEF AdcHolds, Connected, Passed
    <3>. QED  BY <3>1, <3>2
  <2>4. Aligned(a)'
    BY <1>1, <1>2, <2>1 DEF AdcHolds, Aligned
  <2>5. Filled(a)'
    <3>1. converter[a].adstart => converter[a].aden
      BY <1>1 DEF AdcHolds, SetUp
    <3>2. converter[a].adstart => (a \in skipped <=> a \in skipped')
      BY <1>4, <1>6, <2>1, <3>1 DEF ConfigureCommon, BlockFree
    <3>3. CASE converter[a].adstart
      BY <1>1, <1>2, <2>1, <3>2, <3>3, FilledStays DEF AdcHolds
    <3>4. CASE ~converter[a].adstart
      BY <1>1, <1>2, <2>1, <3>4 DEF AdcHolds, Filled
    <3>. QED  BY <3>3, <3>4
  <2>. QED  BY <2>2, <2>3, <2>4, <2>5 DEF AdcHolds
<1>7. CASE Configure
  <2>1. /\ init_step = "configure" /\ init_step' = "powerup" /\ init_of \in Adcs
        /\ init_result' = (HasSettings(config[init_of]) /\ init_result)
        /\ UNCHANGED <<paths, data, dma, skipped, shifted, init_of, initialized>>
    BY <1>1, <1>4, <1>7 DEF Configure, Goto, At, AdcTypes
  <2>2. \/ converter' = converter /\ ~HasSettings(config[init_of])
        \/ converter' = [converter EXCEPT
              ![init_of].sequence = ChannelsOf(init_of),
              ![init_of].pcsel = converter[init_of].pcsel \cup Preselected(config[init_of])]
    BY <1>1, <1>7, <2>1, ConfigureSets DEF AdcTypes
  <2>3. /\ converter'[a].aden = converter[a].aden /\ converter'[a].adstart = converter[a].adstart
        /\ converter'[a].next = converter[a].next /\ converter'[a].ovr = converter[a].ovr
        /\ a # init_of => /\ converter'[a].sequence = converter[a].sequence
                          /\ converter'[a].pcsel = converter[a].pcsel
        /\ a = init_of => \/ converter' = converter /\ ~init_result'
                          \/ /\ converter'[a].sequence = ChannelsOf(a)
                             /\ chip = "h7" => ChannelsOf(a)[1] \in converter'[a].pcsel
    <3>. DEFINE picked == converter[init_of].pcsel \cup Preselected(config[init_of])
    <3>1. chip = "h7" => ChannelsOf(init_of)[1] \in picked
      BY DEF Preselected, ChannelsOf
    <3>. HIDE DEF picked
    <3>2. \/ converter' = converter /\ ~HasSettings(config[init_of])
          \/ converter' = [converter EXCEPT ![init_of].sequence = ChannelsOf(init_of),
                                            ![init_of].pcsel = picked]
      BY <2>2 DEF picked
    <3>3. CASE converter' = converter /\ ~HasSettings(config[init_of])
      BY <2>1, <3>3
    <3>4. CASE converter' = [converter EXCEPT ![init_of].sequence = ChannelsOf(init_of),
                                              ![init_of].pcsel = picked]
      BY <1>4, <2>1, <3>1, <3>4 DEF Converters
    <3>. QED  BY <3>2, <3>3, <3>4
  <2>4. SetUp(a)'
    BY <1>1, <1>2, <1>4, <2>1, <2>3 DEF AdcHolds, SetUp, Passed
  <2>5. Connected(a)'
    BY <1>1, <1>2, <2>1, <2>3 DEF AdcHolds, Connected, Passed
  <2>6. Aligned(a)'
    BY <1>1, <1>2, <2>1, <2>3 DEF AdcHolds, Aligned
  <2>7. Filled(a)'
    BY <1>1, <1>2, <2>1, <2>3, FilledStays DEF AdcHolds
  <2>. QED  BY <2>4, <2>5, <2>6, <2>7 DEF AdcHolds
<1>8. CASE Powerup
  <2>1. /\ init_step = "powerup" /\ init_step' = "calibration"
        /\ UNCHANGED <<paths, data, dma, skipped, shifted, init_of, initialized, init_result>>
    BY <1>8 DEF Powerup, Goto, At
  <2>2. /\ converter'[a].aden = converter[a].aden /\ converter'[a].adstart = converter[a].adstart
        /\ converter'[a].next = converter[a].next /\ converter'[a].ovr = converter[a].ovr
        /\ converter'[a].sequence = converter[a].sequence
        /\ converter'[a].pcsel = converter[a].pcsel
    BY <1>4, <1>8 DEF Powerup, Converters
  <2>3. SetUp(a)'
    BY <1>1, <1>2, <2>1, <2>2 DEF AdcHolds, SetUp, Passed
  <2>4. Connected(a)'
    BY <1>1, <1>2, <2>1, <2>2 DEF AdcHolds, Connected, Passed
  <2>5. Aligned(a)'
    BY <1>1, <1>2, <2>1, <2>2 DEF AdcHolds, Aligned
  <2>6. Filled(a)'
    BY <1>1, <1>2, <2>1, <2>2, FilledStays DEF AdcHolds
  <2>. QED  BY <2>3, <2>4, <2>5, <2>6 DEF AdcHolds
<1>9. CASE Enable
  <2>1. /\ init_step = "calibration" /\ init_step' = IF init_result THEN "ready" ELSE "return"
        /\ UNCHANGED <<paths, data, dma, skipped, shifted, init_of, initialized, init_result>>
    BY <1>9 DEF Enable, Goto, At
  <2>2. /\ converter'[a].aden = (converter[a].aden \/ (a = init_of /\ init_result))
        /\ converter'[a].adstart = converter[a].adstart
        /\ converter'[a].next = converter[a].next /\ converter'[a].ovr = converter[a].ovr
        /\ converter'[a].sequence = converter[a].sequence
        /\ converter'[a].pcsel = converter[a].pcsel
    BY <1>4, <1>9 DEF Enable, Converters
  <2>3. SetUp(a)'
    BY <1>1, <1>2, <2>1, <2>2 DEF AdcHolds, SetUp, Passed
  <2>4. Connected(a)'
    BY <1>1, <1>2, <2>1, <2>2 DEF AdcHolds, Connected, Passed
  <2>5. Aligned(a)'
    BY <1>1, <1>2, <2>1, <2>2 DEF AdcHolds, Aligned
  <2>6. Filled(a)'
    BY <1>1, <1>2, <2>1, <2>2, FilledStays DEF AdcHolds
  <2>. QED  BY <2>3, <2>4, <2>5, <2>6 DEF AdcHolds
<1>10. CASE Timeout \/ Ready
  <2>1. /\ init_step' = "return" /\ init_step \in {"calibration", "ready"}
        /\ init_result' => init_step = "ready"
        /\ UNCHANGED <<paths, data, dma, converter, skipped, shifted, init_of, initialized>>
    BY <1>10 DEF Timeout, Ready, Goto, At
  <2>2. SetUp(a)'
    BY <1>1, <1>2, <2>1 DEF AdcHolds, SetUp, Passed
  <2>3. Connected(a)'
    BY <1>1, <1>2, <2>1 DEF AdcHolds, Connected, Passed
  <2>4. Aligned(a)' /\ Filled(a)'
    BY <1>1, <1>2, <2>1, FilledStays DEF AdcHolds, Aligned
  <2>. QED  BY <2>2, <2>3, <2>4 DEF AdcHolds
<1>11. CASE Return
  <2>1. /\ init_step = "return" /\ init_of' = 0 /\ init_step' = "idle" /\ init_of # 0
        /\ initialized' = [initialized EXCEPT ![init_of] = init_result]
        /\ UNCHANGED <<paths, data, dma, skipped, shifted, init_result>>
    BY <1>4, <1>11 DEF Return, At
  <2>2. /\ converter'[a].adstart = (converter[a].adstart \/ (a = init_of /\ init_result))
        /\ converter'[a].aden = converter[a].aden
        /\ converter'[a].next = converter[a].next /\ converter'[a].ovr = converter[a].ovr
        /\ converter'[a].sequence = converter[a].sequence
        /\ converter'[a].pcsel = converter[a].pcsel
    BY <1>4, <1>11 DEF Return, Converters
  <2>3. initialized'[a] = IF a = init_of THEN init_result ELSE initialized[a]
    BY <1>4, <2>1
  <2>4. SetUp(a)'
    BY <1>1, <1>2, <1>4, <2>1, <2>2, <2>3 DEF AdcHolds, SetUp, Passed, Adcs
  <2>5. Connected(a)'
    BY <1>1, <1>2, <2>1, <2>2 DEF AdcHolds, Connected, Passed, Adcs
  <2>6. Aligned(a)'
    <3>1. Aligned(a)
      BY <1>1 DEF AdcHolds
    <3>. DEFINE n == Len(ChannelsOf(a))
    <3>3. n \in 1..16
      BY <1>3
    <3>. HIDE DEF n
    <3>4. converter[a].next \in 1..n
      <4>1. CASE converter[a].adstart
        BY <3>1, <4>1 DEF Aligned, n
      <4>2. CASE ~converter[a].adstart
        BY <3>1, <3>3, <4>2 DEF Aligned
      <4>. QED  BY <4>1, <4>2
    <3>5. (dma'[a].en => dma'[a].length = n) /\ (ChannelsOf(a))' = ChannelsOf(a) /\ n' = n
      BY <1>2, <2>1, <3>1 DEF Aligned, n
    <3>6. ~converter'[a].adstart => converter'[a].next = 1 /\ (dma'[a].en => dma'[a].next = 1)
      BY <2>1, <2>2, <3>1 DEF Aligned
    <3>7. a \notin shifted' =>
              ~converter'[a].ovr /\ (dma'[a].en => dma'[a].next = converter'[a].next)
      BY <2>1, <2>2, <3>1 DEF Aligned
    <3>. QED  BY <2>2, <3>4, <3>5, <3>6, <3>7 DEF Aligned, n
  <2>7. Filled(a)'
    BY <1>1, <1>2, <2>1, <2>2, FilledStays DEF AdcHolds
  <2>. QED  BY <2>4, <2>5, <2>6, <2>7 DEF AdcHolds
<1>12. ASSUME NEW b \in Adcs, InitCall(b) PROVE AdcHolds(a)'
  <2>1. /\ init_of = 0 /\ init_of' = b /\ init_step' = "dma"
        /\ UNCHANGED <<paths, data, dma, converter, skipped, shifted, initialized>>
    BY <1>12 DEF InitCall
  <2>2. SetUp(a)'
    BY <1>1, <1>2, <2>1 DEF AdcHolds, SetUp, Passed
  <2>3. Connected(a)'
    BY <1>1, <1>2, <2>1 DEF AdcHolds, Connected, Passed
  <2>4. Aligned(a)' /\ Filled(a)'
    BY <1>1, <1>2, <2>1, FilledStays DEF AdcHolds, Aligned
  <2>. QED  BY <2>2, <2>3, <2>4 DEF AdcHolds
<1>13. ASSUME NEW b \in Adcs, Calibrated(b) \/ BecomesReady(b) \/ AdcIrq(b) PROVE AdcHolds(a)'
  <2>1. UNCHANGED <<init_of, init_step, init_result, initialized, paths, data, dma, skipped,
                     shifted>>
    BY <1>13 DEF Calibrated, BecomesReady, AdcIrq, hwUnchanged, initVars
  <2>2. /\ converter'[a].adstart = converter[a].adstart /\ converter'[a].aden = converter[a].aden
        /\ converter'[a].next = converter[a].next /\ (converter'[a].ovr => converter[a].ovr)
        /\ converter'[a].sequence = converter[a].sequence
        /\ converter'[a].pcsel = converter[a].pcsel
    <3>1. CASE Calibrated(b)
      BY <1>4, <3>1 DEF Calibrated, Converters
    <3>2. CASE BecomesReady(b)
      BY <1>4, <3>2 DEF BecomesReady, Converters
    <3>3. CASE AdcIrq(b)
      BY <1>4, <3>3 DEF AdcIrq, Converters
    <3>. QED  BY <1>13, <3>1, <3>2, <3>3
  <2>. QED  BY <1>1, <2>1, <2>2, AdcUnmoved
<1>14. ASSUME NEW b \in Adcs, TransferError(b) \/ DmaIrq(b) PROVE AdcHolds(a)'
  <2>1. /\ UNCHANGED <<init_of, init_step, init_result, initialized, paths, data, skipped, shifted>>
        /\ UNCHANGED converter
    BY <1>14 DEF TransferError, DmaIrq, hwUnchanged, initVars
  <2>2. /\ dma'[a].en => dma[a].en
        /\ dma'[a].length = dma[a].length /\ dma'[a].next = dma[a].next
    BY <1>4, <1>14 DEF TransferError, DmaIrq, Streams
  <2>. QED  BY <1>1, <2>1, <2>2, AdcUnmoved
<1>15. ASSUME NEW b \in Adcs, Convert(b) PROVE AdcHolds(a)'
  <2>1. UNCHANGED <<init_of, init_step, init_result, initialized, paths, skipped, shifted>>
    BY <1>15 DEF Convert, hwUnchanged, initVars
  <2>. DEFINE n == Following(converter[a].next, Len(converter[a].sequence))
              k == Following(dma[a].next, dma[a].length)
  <2>2. /\ converter'[a].adstart = converter[a].adstart /\ converter'[a].aden = converter[a].aden
        /\ converter'[a].sequence = converter[a].sequence
        /\ converter'[a].pcsel = converter[a].pcsel
        /\ converter'[a].ovr = converter[a].ovr
        /\ converter'[a].next = IF a = b THEN n ELSE converter[a].next
    <3>. HIDE DEF Following
    <3>. QED  BY <1>4, <1>15 DEF Convert, Converters
  <2>3. /\ dma'[a].en = dma[a].en /\ dma'[a].length = dma[a].length
        /\ dma'[a].next = IF a = b /\ dma[a].en /\ ~converter[a].ovr THEN k ELSE dma[a].next
    BY <1>4, <1>15 DEF Convert, Streams
  <2>4. SetUp(a)' /\ Connected(a)'
    BY <1>1, <1>2, <2>1, <2>2 DEF AdcHolds, SetUp, Connected, Passed
  <2>5. CASE a # b
    <3>1. Aligned(a)'
      BY <1>1, <1>2, <2>1, <2>2, <2>3, <2>5 DEF AdcHolds, Aligned
    <3>2. data'[a] = data[a]
      BY <1>1, <1>15, <2>5 DEF Convert
    <3>3. Filled(a)'
      BY <1>1, <1>2, <2>1, <2>2, <3>2, FilledStays DEF AdcHolds
    <3>. QED  BY <2>4, <3>1, <3>3 DEF AdcHolds
  <2>6. CASE a = b
    <3>1. /\ converter[a].adstart /\ converter[a].sequence = ChannelsOf(a)
          /\ converter[a].next \in 1..Len(ChannelsOf(a)) /\ converter[a].aden
          /\ chip = "h7" => ChannelsOf(a)[1] \in converter[a].pcsel
      BY <1>1, <1>15, <2>6 DEF Convert, AdcHolds, SetUp, Aligned
    <3>2. n \in 1..Len(ChannelsOf(a))
      <4>. DEFINE m == Len(ChannelsOf(a))
                  x == converter[a].next
      <4>1. m \in 1..16 /\ x \in 1..m /\ n = Following(x, m)
        BY <1>3, <3>1
      <4>. HIDE DEF m, x, n
      <4>2. n \in 1..m
        BY <4>1 DEF Following
      <4>. QED  BY <4>2 DEF m
    <3>3. Aligned(a)'
      BY <1>1, <1>2, <2>1, <2>2, <2>3, <2>6, <3>1, <3>2 DEF AdcHolds, Aligned
    <3>. DEFINE i == converter[a].next
                j == dma[a].next
    <3>4. data' = data \/ /\ dma[a].en /\ ~converter[a].ovr
                          /\ data' = [data EXCEPT ![a][j] = Sample(a)]
      BY <1>15, <2>6 DEF Convert
    <3>5. ChannelsOf(a)[i] \in ToSet(ChannelsOf(a))
      BY <1>3, <3>1 DEF ToSet
    <3>. DEFINE c == ChannelsOf(a)[i]
    <3>6. \E w \in BOOLEAN : /\ Sample(a) = <<c, w>>
                             /\ w <=> /\ chip = "h7" => c \in converter[a].pcsel
                                      /\ Channel(c) \in paths[Block(a)] \cup {"pin"}
      <4>. DEFINE w == /\ chip = "h7" => c \in converter[a].pcsel
                       /\ Channel(c) \in paths[Block(a)] \cup {"pin"}
      <4>1. Sample(a) = <<c, w>>
        BY <3>1 DEF Sample
      <4>2. w \in BOOLEAN
        OBVIOUS
      <4>. HIDE DEF w
      <4>3. \E v \in BOOLEAN : Sample(a) = <<c, v>> /\ (v <=> w)
        BY <4>1, <4>2, Zenon
      <4>. QED  BY <4>3, Zenon DEF w
    <3>7. data'[a] = data[a] \/ /\ dma[a].en /\ ~converter[a].ovr
                                /\ data'[a] = [data[a] EXCEPT ![j] = Sample(a)]
      BY <1>1, <3>4
    <3>8. Filled(a)'
      <4>1. CASE data'[a] = data[a]
        BY <1>1, <1>2, <2>1, <2>2, <3>1, <4>1, FilledStays DEF AdcHolds
      <4>2. CASE data'[a] # data[a]
        <5>1. dma[a].en /\ data'[a] = [data[a] EXCEPT ![j] = Sample(a)]
          BY <3>7, <4>2
        <5>2. data[a] \in [DOMAIN ChannelsOf(a) -> {Unset} \cup (ToSet(ChannelsOf(a)) \X BOOLEAN)]
          BY <1>1 DEF AdcHolds, Filled
        <5>3. Sample(a) \in ToSet(ChannelsOf(a)) \X BOOLEAN
          BY <3>5, <3>6
        <5>4. data'[a] \in [DOMAIN ChannelsOf(a) -> {Unset} \cup (ToSet(ChannelsOf(a)) \X BOOLEAN)]
          BY <5>1, <5>2, <5>3
        <5>5. a \notin shifted => j = i
          BY <1>1, <5>1 DEF AdcHolds, Aligned
        <5>6. a \notin skipped => Channel(c) \in paths[Block(a)] \cup {"pin"}
          <6>1. a \notin skipped => paths[Block(a)] = Internals(a)
            BY <1>1, <3>1 DEF AdcHolds, Connected
          <6>. QED  BY <3>5, <6>1 DEF Internals
        <5>7. Sample(a) \in SampleOf(a, c)
          <6>1. PICK w \in BOOLEAN : /\ Sample(a) = <<c, w>>
                                     /\ w <=> /\ chip = "h7" => c \in converter[a].pcsel
                                              /\ Channel(c) \in paths[Block(a)] \cup {"pin"}
            BY <3>6
          <6>2. Served(a, c) => w
            <7>1. SUFFICES ASSUME Served(a, c) PROVE w
              OBVIOUS
            <7>2. chip = "h7" => c \in converter[a].pcsel
              BY <3>1, <7>1 DEF Served, ChannelsOf
            <7>3. Channel(c) \in paths[Block(a)] \cup {"pin"}
              BY <5>6, <7>1 DEF Served
            <7>. QED  BY <6>1, <7>2, <7>3
          <6>. HIDE DEF c
          <6>. QED  BY <6>1, <6>2 DEF SampleOf
        <5>8. \A r \in DOMAIN ChannelsOf(a) : data'[a][r] = IF r = j THEN Sample(a) ELSE data[a][r]
          BY <5>1, <5>2
        <5>9. a \notin shifted => \A r \in DOMAIN ChannelsOf(a) :
                  data'[a][r] \in {Unset} \cup SampleOf(a, ChannelsOf(a)[r])
          BY <1>1, <5>5, <5>7, <5>8 DEF AdcHolds, Filled
        <5>. QED  BY <1>2, <2>1, <2>2, <3>1, <5>4, <5>9, SamplesStay DEF Filled
      <4>. QED  BY <4>1, <4>2
    <3>. QED  BY <2>4, <3>3, <3>8 DEF AdcHolds
  <2>. QED  BY <2>5, <2>6
<1>16. ASSUME NEW b \in Adcs, Overrun(b) PROVE AdcHolds(a)'
  <2>1. /\ UNCHANGED <<init_of, init_step, init_result, initialized, paths, skipped, dma, data>>
        /\ shifted' = shifted \cup {b}
    BY <1>16 DEF Overrun, hwUnchanged, initVars
  <2>. DEFINE n == Following(converter[a].next, Len(converter[a].sequence))
  <2>2. /\ converter'[a].adstart = converter[a].adstart /\ converter'[a].aden = converter[a].aden
        /\ converter'[a].sequence = converter[a].sequence
        /\ converter'[a].next = IF a = b THEN n ELSE converter[a].next
        /\ converter'[a].pcsel = converter[a].pcsel
        /\ a # b => converter'[a].ovr = converter[a].ovr
    BY <1>4, <1>16 DEF Overrun, Converters
  <2>3. SetUp(a)' /\ Connected(a)'
    BY <1>1, <1>2, <2>1, <2>2 DEF AdcHolds, SetUp, Connected, Passed
  <2>4. Filled(a)'
    BY <1>1, <1>2, <2>1, <2>2, FilledStays DEF AdcHolds
  <2>5. Aligned(a)'
    <3>1. a = b => converter[a].adstart /\ n \in 1..Len(ChannelsOf(a))
      BY <1>1, <1>3, <1>16, FollowingIs DEF Overrun, AdcHolds, SetUp, Aligned
    <3>. QED  BY <1>1, <1>2, <2>1, <2>2, <3>1 DEF AdcHolds, Aligned
  <2>. QED  BY <2>3, <2>4, <2>5 DEF AdcHolds
<1>17. CASE UNCHANGED adcVars
  BY <1>1, <1>17, AdcUnmoved DEF adcVars
<1>. QED  BY <1>5, <1>6, <1>7, <1>8, <1>9, <1>10, <1>11, <1>12, <1>13, <1>14, <1>15, <1>16, <1>17
          DEF AdcNext

(* The arrays stay those of the two ADCs.                                   *)
LEMMA ArraysStay ==
    ASSUME AdcInv, [AdcNext]_adcVars
    PROVE  DOMAIN data' = Adcs
<1>1. data' = data \/ \E a \in Adcs : \E x : data' = [data EXCEPT ![a] = x]
  <2>1. ASSUME NEW a \in Adcs, Convert(a)
        PROVE  data' = data \/ \E x : data' = [data EXCEPT ![a] = x]
    BY <2>1 DEF Convert
  <2>. QED  BY <2>1 DEF AdcNext, adcVars, InitDma, ConfigureCommon, Configure, Powerup, Enable,
         Timeout, Ready, Return, InitCall, Calibrated, BecomesReady, Overrun, AdcIrq,
         TransferError, DmaIrq
<1>. QED  BY <1>1 DEF AdcInv

(* What the getters return for a channel is a sample of that channel.       *)
LEMMA AdcServes == AdcInv => ChannelTrue
<1>. SUFFICES ASSUME AdcInv, NEW a \in Adcs \ shifted, NEW ch \in ToSet(config[a].channels),
                     initialized[a]
              PROVE  OwnSample(a, ch)
  BY DEF ChannelTrue
<1>. DEFINE s == config[a].channels
            ranks == {r \in DOMAIN s : s[r] = ch}
<1>1. s \in Seq(Nat)
  BY ChannelsAre DEF AdcInv, AdcTypes, ChannelsOf
<1>2. ranks \in SUBSET Nat /\ ranks # {}
  BY <1>1 DEF ToSet
<1>3. Min(ranks) \in DOMAIN s /\ s[Min(ranks)] = ch
  BY <1>2, LeastIn
<1>4. data[a][Min(ranks)] \in {Unset} \cup SampleOf(a, ch)
  <2>1. Filled(a) /\ a \notin shifted
    BY DEF AdcInv, AdcHolds
  <2>. QED  BY <1>3, <2>1 DEF Filled, ChannelsOf
<1>5. GetChannelRaw(a, ch) = data[a][Min(ranks)]
  BY DEF GetChannelRaw, HasChannel
<1>6. ASSUME data[a][Min(ranks)] # Unset
      PROVE  /\ data[a][Min(ranks)][1] = ch
             /\ Served(a, ch) => data[a][Min(ranks)][2]
  BY <1>4, <1>6 DEF SampleOf
<1>. QED  BY <1>5, <1>6 DEF OwnSample

(* uni_hal_adc_get_channel_raw returns a sample of the channel it is asked  *)
(* for, taken while that was connected if the initialisation connects it,   *)
(* whatever initialisations of this ADC, also while it converts, and of one *)
(* that shares its block came before, unless a sample was lost to an        *)
(* overrun or the stream started again under the sequence.                  *)
THEOREM ChannelsAreTrue == AdcSpec => []ChannelTrue
<1>1. AdcInit => AdcInv
  <2>. SUFFICES ASSUME AdcInit PROVE AdcInv
    OBVIOUS
  <2>1. AdcTypes
    <3>1. /\ converter \in [Adcs -> Converters] /\ dma \in [Adcs -> Streams]
          /\ paths \in [{12, 3} -> SUBSET {"REFINT", "TEMPSENSOR", "VBAT", "pin"}]
      <4>1. [calibrating |-> FALSE, aden |-> FALSE, adrdy |-> FALSE, adstart |-> FALSE,
             sequence |-> <<>>, pcsel |-> {}, next |-> 1, ovr |-> FALSE] \in Converters
        BY DEF Converters, Preselections
      <4>2. [inited |-> FALSE, length |-> 0, en |-> FALSE, next |-> 1, te |-> FALSE] \in Streams
        BY DEF Streams
      <4>. QED  BY <4>1, <4>2 DEF AdcInit
    <3>2. /\ chip \in {"h7", "l4"} /\ config \in AdcConfigs
          /\ init_of = 0 /\ init_step = "idle" /\ init_result \in BOOLEAN
          /\ initialized \in [Adcs -> BOOLEAN] /\ skipped = {} /\ shifted = {}
      BY DEF AdcInit
    <3>. QED  BY <3>1, <3>2 DEF AdcTypes, InitSteps
  <2>2. DOMAIN data = Adcs
    BY DEF AdcInit
  <2>3. ASSUME NEW a \in Adcs PROVE AdcHolds(a)
    <3>1. /\ ~initialized[a] /\ init_of # a /\ ~converter[a].aden /\ ~converter[a].adstart
          /\ converter[a].next = 1 /\ ~converter[a].ovr /\ ~dma[a].en
      BY DEF AdcInit, Adcs
    <3>2. data[a] = [r \in DOMAIN ChannelsOf(a) |-> Unset]
      BY DEF AdcInit, ChannelsOf
    <3>3. SetUp(a) /\ Connected(a) /\ Aligned(a)
      BY <3>1 DEF SetUp, Connected, Aligned, Passed
    <3>4. Filled(a)
      BY <3>2 DEF Filled
    <3>. QED  BY <3>3, <3>4 DEF AdcHolds
  <2>. QED  BY <2>1, <2>2, <2>3 DEF AdcInv
<1>2. AdcInv /\ [AdcNext]_adcVars => AdcInv'
  <2>. SUFFICES ASSUME AdcInv, [AdcNext]_adcVars PROVE AdcInv'
    OBVIOUS
  <2>1. AdcTypes'
    BY AdcTypesStep DEF AdcInv
  <2>. QED  BY <2>1, AdcStep, ArraysStay DEF AdcInv
<1>. QED  BY <1>1, <1>2, AdcServes, PTL DEF AdcSpec

--------------------------------------------------------------------------------
(***************************************************************************)
(* Tim: the edges, the laps of the counter and the captured periods.       *)
(***************************************************************************)
(* The specification of input capture.                                      *)
TimSpec == TimInit /\ [][TimNext]_timVars

(* The edge whose capture was read last.                                    *)
LastRead == IF ccif THEN before ELSE edge

(* The times edges can have, the state of a channel, and the values of the  *)
(* variables.                                                               *)
EdgeTimes == Nat \cup {Never, Early}
CaptureChannels == [seen : BOOLEAN, valid : BOOLEAN,
                    counter : Nat, overflow_count : Nat, period : Nat]
TimTypes ==
    /\ mode \in {"stopped", "armed", "run", "again", "halted"} /\ now \in Nat
    /\ uif \in BOOLEAN /\ ccif \in BOOLEAN /\ ccof \in BOOLEAN
    /\ overflow_count \in Nat /\ chan \in CaptureChannels
    /\ cc_irq \in {"idle", "value", "counter", "delta"}
    /\ value \in Nat /\ counter_seen \in Nat /\ cc_at \in Nat /\ irq_at \in Nat
    /\ edge \in EdgeTimes /\ before \in EdgeTimes /\ served \in Nat \cup {Early}

(* Edges come one after the other, those before the counter runs first.     *)
EdgesInOrder ==
    /\ before \in Nat => edge \in Nat /\ before < edge
    /\ edge \in Nat => mode \in {"run", "again", "halted"} /\ (Counting => edge <= now)
    /\ ccif => edge # Never
    /\ cc_irq = "value" => ccif

(* A counter that does not run is 0, and an armed one has nothing pending.  *)
AtRest ==
    /\ ~Counting => now = 0
    /\ mode = "armed" => ~uif /\ overflow_count = 0
    /\ mode = "stopped" => cc_irq = "idle"
    /\ overflow_count < CountSize

(* The run has not reached the lap in which overflow_count wraps.           *)
InCount == now < CountSize * Period

(* The update interrupt keeps up with the laps of the counter.              *)
LapsCounted ==
    mode = "run" =>
        /\ uif => Counter <= Latency
        /\ InCount => overflow_count + (IF uif THEN 1 ELSE 0) = now \div Period

(* No capture is lost: the interrupt works on the edge that asked for it,   *)
(* and in time.                                                             *)
InService ==
    mode = "run" /\ ~ccof =>
        /\ ccif => edge \in Nat /\ cc_at = edge /\ now - edge <= Latency
        /\ cc_irq = "value" => irq_at = edge
        /\ cc_irq \in {"counter", "delta"} =>
              /\ LastRead \in Nat /\ irq_at = LastRead
              /\ now - LastRead <= Latency /\ value = LastRead % Period
        /\ cc_irq = "delta" /\ ~uif =>
              /\ counter_seen <= Counter
              /\ LastRead \div Period = now \div Period => value <= counter_seen

(* The channel holds lap and count of this time.                            *)
HoldsTime(t) == chan.counter = t % Period /\ chan.overflow_count = t \div Period

(* What the channel holds is of the edge read last, and in the middle of    *)
(* the interrupt of the edge before it.                                     *)
ChannelHolds ==
    mode \in {"armed", "run"} /\ ~ccof /\ chan.seen /\ InCount =>
        /\ cc_irq \in {"idle", "value"} =>
              LastRead # Never /\ (LastRead \in Nat => HoldsTime(LastRead))
        /\ cc_irq \in {"counter", "delta"} =>
              served = Early \/ (served \in 1..LastRead /\ HoldsTime(LastRead - served))

(* What the interrupt works on is an edge.                                  *)
ReadIsEdge ==
    mode \in {"armed", "run"} /\ ~ccof /\ cc_irq \in {"counter", "delta"} => LastRead # Never

(* A period that is valid is the distance of the edges, also before the     *)
(* counter runs.                                                            *)
PeriodTold ==
    /\ chan.valid => chan.seen
    /\ /\ mode \in {"armed", "run"} /\ ~ccof /\ InCount
       /\ chan.valid /\ cc_irq \in {"idle", "value"}
       => served = Early \/ chan.period = served

(* The inductive invariant of input capture.                                *)
TimInv ==
    /\ TimTypes /\ EdgesInOrder /\ AtRest /\ LapsCounted
    /\ InService /\ ChannelHolds /\ ReadIsEdge /\ PeriodTold

(* The constants are numbers.                                               *)
LEMMA SizesAre ==
    /\ Period \in Nat \ {0} /\ Latency \in Nat \ {0} /\ CountSize \in Nat \ {0}
    /\ 2 * Latency + 2 <= Period /\ HalfPeriod \in Nat
    /\ Latency < HalfPeriod /\ 2 * HalfPeriod \in {Period - 1, Period}
BY TimAssumption DEF HalfPeriod

(* Lap and count of a time.                                                 *)
LEMMA LapAndCount ==
    ASSUME NEW t \in Nat
    PROVE  /\ t \div Period \in Nat /\ t % Period \in Nat /\ t % Period < Period
           /\ t = (Period * (t \div Period)) + (t % Period)
BY SizesAre, Division

(* EdgeTimes less than a lap apart are in one lap or in neighbouring ones.      *)
LEMMA NearTimes ==
    ASSUME NEW s \in Nat, NEW t \in Nat, s <= t, t - s < Period
    PROVE  \/ t \div Period = s \div Period /\ t % Period = (s % Period) + (t - s)
           \/ t \div Period = s \div Period + 1 /\ (t % Period) + Period = (s % Period) + (t - s)
<1>. DEFINE a == s \div Period
            b == t \div Period
            x == s % Period
            y == t % Period
<1>1. a \in Nat /\ b \in Nat /\ x \in Nat /\ y \in Nat /\ x < Period /\ y < Period
      /\ s = Period * a + x /\ t = Period * b + y
  BY LapAndCount
<1>0. Period \in Nat \ {0}
  BY SizesAre
<1>. HIDE DEF a, b, x, y
<1>. DEFINE k == b - a
<1>2. k \in Int /\ Period * b = Period * a + Period * k
  BY <1>0, <1>1
<1>. HIDE DEF k
<1>3. CASE k < 0
  <2>1. Period * k <= -Period
    BY <1>0, <1>2, <1>3
  <2>. QED  BY <1>0, <1>1, <1>2, <2>1
<1>4. CASE k = 0
  <2>1. a = b
    BY <1>1, <1>4 DEF k
  <2>2. y = x + (t - s)
    BY <1>0, <1>1, <2>1
  <2>. QED  BY <2>1, <2>2 DEF a, b, x, y
<1>5. CASE k = 1
  BY <1>0, <1>1, <1>2, <1>5 DEF a, b, x, y, k
<1>6. CASE k > 1
  <2>1. Period * k >= 2 * Period
    BY <1>0, <1>2, <1>6
  <2>. QED  BY <1>0, <1>1, <1>2, <2>1
<1>. QED  BY <1>2, <1>3, <1>4, <1>5, <1>6

(* Laps do not go back.                                                     *)
LEMMA LapsGrow ==
    ASSUME NEW s \in Nat, NEW t \in Nat, s <= t
    PROVE  s \div Period <= t \div Period
<1>. DEFINE a == s \div Period
            b == t \div Period
<1>1. a \in Nat /\ b \in Nat /\ s % Period \in Nat /\ t % Period < Period /\ t % Period \in Nat
      /\ s = Period * a + (s % Period) /\ t = Period * b + (t % Period)
  BY LapAndCount
<1>0. Period \in Nat \ {0}
  BY SizesAre
<1>. HIDE DEF a, b
<1>2. ASSUME b < a PROVE FALSE
  <2>. DEFINE k == a - b
  <2>1. k \in Nat \ {0} /\ Period * a = Period * b + Period * k
    BY <1>0, <1>1, <1>2
  <2>. HIDE DEF k
  <2>2. Period * k >= Period
    BY <1>0, <2>1
  <2>. QED  BY <1>0, <1>1, <2>1, <2>2
<1>. QED  BY <1>1, <1>2 DEF a, b

(* A run that is not counted out is in a lap that overflow_count can hold.  *)
LEMMA LapsFit ==
    ASSUME NEW t \in Nat, t < CountSize * Period
    PROVE  t \div Period \in 0..(CountSize - 1)
<1>. DEFINE a == t \div Period
<1>1. a \in Nat /\ t % Period \in Nat /\ t = Period * a + (t % Period)
  BY LapAndCount
<1>0. Period \in Nat \ {0} /\ CountSize \in Nat \ {0}
  BY SizesAre
<1>. HIDE DEF a
<1>2. ASSUME a >= CountSize PROVE FALSE
  <2>. DEFINE k == a - CountSize
  <2>1. k \in Nat /\ Period * a = CountSize * Period + Period * k
    BY <1>0, <1>1, <1>2
  <2>. HIDE DEF k
  <2>2. Period * k >= 0
    BY <1>0, <2>1
  <2>3. t >= CountSize * Period
    BY <1>0, <1>1, <2>1, <2>2
  <2>. QED  BY <1>0, <2>3
<1>. QED  BY <1>0, <1>1, <1>2 DEF a

(* A count below its size is its own remainder.                             *)
LEMMA SmallCount ==
    ASSUME NEW n \in 0..(CountSize - 1)
    PROVE  n % CountSize = n
<1>. DEFINE q == n \div CountSize
            r == n % CountSize
<1>1. CountSize \in Nat \ {0}
  BY SizesAre
<1>2. q \in Nat /\ r \in Nat /\ r < CountSize /\ n = CountSize * q + r
  BY <1>1, Division
<1>. HIDE DEF q, r
<1>3. CASE q >= 1
  <2>1. CountSize * q >= CountSize
    BY <1>1, <1>2, <1>3
  <2>. QED  BY <1>1, <1>2, <2>1
<1>4. CASE q = 0
  BY <1>1, <1>2, <1>4 DEF r
<1>. QED  BY <1>2, <1>3, <1>4

(* _uni_hal_tim_get_capture_delta: laps and counts of two times give their  *)
(* distance.                                                                *)
LEMMA DeltaIs ==
    ASSUME NEW s \in Nat, NEW t \in Nat, s < t, HoldsTime(s), value = t % Period
    PROVE  Delta(t \div Period - chan.overflow_count) = t - s
<1>. DEFINE a == s \div Period
            b == t \div Period
            x == s % Period
            y == t % Period
            k == b - a
<1>1. a \in Nat /\ b \in Nat /\ x \in Nat /\ y \in Nat /\ x < Period /\ y < Period
      /\ s = Period * a + x /\ t = Period * b + y
  BY LapAndCount
<1>0. Period \in Nat \ {0}
  BY SizesAre
<1>2. a <= b
  BY LapsGrow
<1>3. chan.counter = x /\ chan.overflow_count = a /\ value = y
  BY DEF HoldsTime
<1>. HIDE DEF a, b, x, y
<1>4. k \in Nat /\ Period * b = Period * a + k * Period
  BY <1>0, <1>1, <1>2
<1>. HIDE DEF k
<1>5. t - s = k * Period + y - x
  BY <1>0, <1>1, <1>4
<1>6. (k - 1) * Period = k * Period - Period
  BY <1>0, <1>4
<1>7. k = 0 => k * Period = 0
  BY <1>0
<1>8. k * Period \in Nat
  BY <1>0, <1>4
<1>9. Delta(k) = t - s
  <2>1. CASE y >= x
    BY <1>3, <1>5, <2>1 DEF Delta
  <2>2. CASE y < x
    <3>1. k # 0
      BY <1>1, <1>5, <1>7, <2>2
    <3>2. (k - 1) * Period + (Period - x) + y = t - s
      BY <1>0, <1>1, <1>5, <1>6, <1>8
    <3>. QED  BY <1>1, <1>3, <1>4, <2>2, <3>1, <3>2 DEF Delta
  <2>. QED  BY <1>1, <2>1, <2>2
<1>. QED  BY <1>3, <1>9 DEF k, b

(* The time that a start of a running timer leaves: the lap is the count of *)
(* overflows, and the counter goes on.                                      *)
LEMMA TimeGoesOn ==
    ASSUME TimTypes, StartFlags
    PROVE  /\ now' \in Nat /\ now' \div Period = overflow_count
           /\ now' % Period = Counter /\ Counter \in Nat
<1>. DEFINE a == now' \div Period
            x == now' % Period
            k == a - overflow_count
<1>0. Period \in Nat \ {0}
  BY SizesAre
<1>1. Counter \in Nat /\ Counter < Period /\ overflow_count \in Nat
  BY LapAndCount DEF TimTypes, Counter
<1>2. now' = overflow_count * Period + Counter
  BY DEF StartFlags
<1>3. now' \in Nat
  BY <1>0, <1>1, <1>2
<1>4. a \in Nat /\ x \in Nat /\ x < Period /\ now' = (Period * a) + x
  BY <1>3, LapAndCount
<1>. HIDE DEF a, x
<1>5. k \in Int /\ Period * a = overflow_count * Period + Period * k
  BY <1>0, <1>1, <1>4
<1>6. Period * k = Counter - x
  BY <1>0, <1>1, <1>2, <1>4, <1>5
<1>. HIDE DEF k
<1>7. CASE k < 0
  <2>1. Period * k <= -Period
    BY <1>0, <1>5, <1>7
  <2>. QED  BY <1>0, <1>1, <1>4, <1>6, <2>1
<1>8. CASE k > 0
  <2>1. Period * k >= Period
    BY <1>0, <1>5, <1>8
  <2>. QED  BY <1>0, <1>1, <1>4, <1>6, <2>1
<1>9. CASE k = 0
  <2>1. a = overflow_count
    BY <1>1, <1>4, <1>9 DEF k
  <2>2. x = Counter
    BY <1>0, <1>1, <1>4, <1>6, <1>9
  <2>. QED  BY <1>1, <1>3, <2>1, <2>2 DEF a, x
<1>. QED  BY <1>5, <1>7, <1>8, <1>9

(* Every step keeps the types.                                              *)
LEMMA TimTypesStep ==
    ASSUME TimTypes, EdgesInOrder, [TimNext]_timVars
    PROVE  TimTypes'
<1>1. CASE Tick
  BY <1>1 DEF Tick, Counting, TimTypes, CaptureChannels, EdgeTimes, irq, past
<1>2. CASE Edge
  BY <1>2 DEF Edge, TimTypes, CaptureChannels, EdgeTimes, irq, past
<1>3. CASE IrqUpdate
  <2>1. overflow_count' \in Nat
    BY <1>3, SizesAre, Division DEF IrqUpdate, TimTypes
  <2>. QED  BY <1>3, <2>1 DEF IrqUpdate, TimTypes, CaptureChannels, irq, past
<1>4. CASE IrqCapture
  <2>1. chan' \in CaptureChannels
    BY <1>4 DEF IrqCapture, TimTypes, CaptureChannels
  <2>2. /\ ccif' \in BOOLEAN /\ ccof' \in BOOLEAN /\ cc_at' \in Nat /\ irq_at' \in Nat
        /\ cc_irq' \in {"idle", "value", "counter", "delta"}
    <3>1. CASE ccof
      <4>1. ccif' = FALSE /\ ccof' = FALSE /\ cc_at' = 0 /\ UNCHANGED <<cc_irq, irq_at>>
        BY <1>4, <3>1 DEF IrqCapture
      <4>. QED  BY <4>1 DEF TimTypes
    <3>2. CASE ~ccof
      BY <1>4, <3>2 DEF IrqCapture, TimTypes
    <3>. QED  BY <3>1, <3>2
  <2>. QED  BY <1>4, <2>1, <2>2 DEF IrqCapture, TimTypes, past
<1>5. CASE IrqValue
  <2>1. value' \in Nat
    <3>1. edge % Period \in Nat
      BY SizesAre DEF TimTypes, EdgeTimes, Never, Early
    <3>. QED  BY <1>5, <3>1 DEF IrqValue, Capture
  <2>2. served' \in Nat \cup {Early}
    <3>1. CASE before \in Nat
      BY <1>5, <3>1 DEF IrqValue, EdgesInOrder, Never, Early
    <3>2. CASE before \in {Never, Early}
      BY <1>5, <3>2 DEF IrqValue, Never, Early
    <3>. QED  BY <3>1, <3>2 DEF TimTypes, EdgeTimes
  <2>. QED  BY <1>5, <2>1, <2>2 DEF IrqValue, TimTypes
<1>6. CASE IrqCounter
  <2>1. Counter \in Nat
    BY LapAndCount DEF TimTypes, Counter
  <2>. QED  BY <1>6, <2>1 DEF IrqCounter, TimTypes, flags, past
<1>7. CASE IrqDelta
  <2>. DEFINE captured == CapturedOverflow(uif) % CountSize
              laps == (captured - chan.overflow_count) % CountSize
              delta == Delta(laps)
  <2>1. chan \in CaptureChannels /\ overflow_count \in Nat /\ value \in Nat
    BY DEF TimTypes
  <2>2. CapturedOverflow(uif) \in Nat
    BY <2>1 DEF CapturedOverflow
  <2>3. captured \in Nat
    BY <2>2, SizesAre, Division
  <2>4. laps \in Int
    BY <2>1, <2>3, SizesAre DEF CaptureChannels
  <2>5. delta \in Int
    <3>. HIDE DEF captured, laps
    <3>1. laps * Period \in Int /\ (laps - 1) * Period \in Int
      BY <2>4, SizesAre
    <3>. QED  BY <2>1, <2>4, <3>1, SizesAre DEF Delta, CaptureChannels
  <2>6. chan' = [seen |-> TRUE, counter |-> value, overflow_count |-> captured,
                 valid |-> IF chan.seen THEN delta > 0 ELSE chan.valid,
                 period |-> IF chan.seen /\ delta > 0 THEN delta ELSE chan.period]
    BY <1>7 DEF IrqDelta
  <2>. HIDE DEF captured, laps, delta
  <2>7. chan' \in CaptureChannels
    <3>1. (IF chan.seen THEN delta > 0 ELSE chan.valid) \in BOOLEAN
      <4>1. (delta > 0) \in BOOLEAN
        BY <2>5
      <4>2. chan.valid \in BOOLEAN
        BY <2>1 DEF CaptureChannels
      <4>. QED  BY <4>1, <4>2, Zenon
    <3>2. (IF chan.seen /\ delta > 0 THEN delta ELSE chan.period) \in Nat
      BY <2>1, <2>5 DEF CaptureChannels
    <3>. QED  BY <2>1, <2>3, <2>6, <3>1, <3>2 DEF CaptureChannels
  <2>. QED  BY <1>7, <2>7 DEF IrqDelta, TimTypes, flags, past
<1>8. CASE StartArm \/ Clear \/ StopRest
  <2>1. Cleared /\ UNCHANGED irq /\ mode' \in {"stopped", "armed", "run", "halted"} /\ now' \in Nat
    BY <1>8 DEF StartArm, Clear, StopRest, TimTypes
  <2>2. NoChan \in CaptureChannels
    BY DEF NoChan, CaptureChannels
  <2>. QED  BY <2>1, <2>2 DEF Cleared, TimTypes, irq, EdgeTimes
<1>9. CASE StartCounter \/ StopCounter
  BY <1>9 DEF StartCounter, StopCounter, TimTypes, flags, irq, past
<1>10. CASE UNCHANGED timVars
  BY <1>10 DEF timVars, TimTypes
<1>11. CASE StartAgain
  <2>1. NoChan \in CaptureChannels
    BY DEF NoChan, CaptureChannels
  <2>. QED  BY <1>11, <2>1 DEF StartAgain, TimTypes, flags, irq, past
<1>12. CASE StartFlags
  <2>1. now' \in Nat
    BY <1>12, TimeGoesOn
  <2>. QED  BY <1>12, <2>1 DEF StartFlags, TimTypes, irq, EdgeTimes
<1>. QED  BY <1>1, <1>2, <1>3, <1>4, <1>5, <1>6, <1>7, <1>8, <1>9, <1>10, <1>11, <1>12
          DEF TimNext

(* Every step keeps the edges in order, and the counter at rest.            *)
LEMMA OrderStep ==
    ASSUME TimTypes, EdgesInOrder, AtRest, [TimNext]_timVars
    PROVE  EdgesInOrder' /\ AtRest'
<1>1. CASE Tick
  BY <1>1 DEF Tick, Counting, TimTypes, EdgesInOrder, AtRest, irq, past
<1>2. CASE Edge
  <2>1. EdgesInOrder'
    BY <1>2 DEF Edge, Counting, TimTypes, EdgesInOrder, AtRest, irq, EdgeTimes, Never, Early
  <2>2. AtRest'
    BY <1>2 DEF Edge, Counting, AtRest, irq
  <2>. QED  BY <2>1, <2>2
<1>3. CASE IrqUpdate
  <2>1. overflow_count' < CountSize
    BY <1>3, SizesAre, Division DEF IrqUpdate, TimTypes
  <2>. QED  BY <1>3, <2>1 DEF IrqUpdate, Counting, EdgesInOrder, AtRest, irq, past
<1>4. CASE IrqCapture
  BY <1>4 DEF IrqCapture, Counting, EdgesInOrder, AtRest, past
<1>5. CASE IrqValue
  BY <1>5 DEF IrqValue, Counting, EdgesInOrder, AtRest
<1>6. CASE IrqCounter \/ IrqDelta
  BY <1>6 DEF IrqCounter, IrqDelta, Counting, EdgesInOrder, AtRest, flags, past
<1>7. CASE StartArm \/ Clear \/ StopRest
  <2>1. 0 < CountSize
    BY SizesAre
  <2>. QED  BY <1>7, <2>1 DEF StartArm, Clear, StopRest, Cleared, TimCall, Counting,
            EdgesInOrder, AtRest, irq, Never
<1>8. CASE StartCounter \/ StopCounter
  BY <1>8 DEF StartCounter, StopCounter, TimCall, Counting, EdgesInOrder, AtRest, flags, irq, past
<1>9. CASE UNCHANGED timVars
  BY <1>9 DEF timVars, Counting, EdgesInOrder, AtRest
<1>10. CASE StartAgain
  <2>1. 0 < CountSize
    BY SizesAre
  <2>. QED  BY <1>10, <2>1 DEF StartAgain, TimCall, Counting, EdgesInOrder, AtRest, flags, irq, past
<1>11. CASE StartFlags
  BY <1>11 DEF StartFlags, Counting, EdgesInOrder, AtRest, irq, Never, Early
<1>. QED  BY <1>1, <1>2, <1>3, <1>4, <1>5, <1>6, <1>7, <1>8, <1>9, <1>10, <1>11 DEF TimNext

(* A tick goes on in the lap, or begins the next one.                       *)
LEMMA TickIs ==
    ASSUME TimTypes, Tick
    PROVE  /\ now' = now + 1 /\ Counting /\ Counter \in Nat
           /\ \/ Counter' = Counter + 1 /\ now' \div Period = now \div Period /\ uif' = uif
              \/ Counter' = 0 /\ now' \div Period = now \div Period + 1 /\ uif'
                 /\ Counter = Period - 1
           /\ InCount' => InCount
<1>1. now \in Nat /\ now' = now + 1 /\ now' \in Nat /\ Counting
  BY DEF TimTypes, Tick
<1>2. \/ now' \div Period = now \div Period /\ now' % Period = (now % Period) + 1
      \/ now' \div Period = now \div Period + 1 /\ (now' % Period) + Period = (now % Period) + 1
  <2>1. now <= now' /\ now' - now = 1 /\ 1 < Period
    BY <1>1, SizesAre
  <2>. QED  BY <1>1, <2>1, NearTimes
<1>3. now % Period \in Nat /\ now % Period < Period /\ now' % Period \in Nat
  BY <1>1, LapAndCount
<1>4. Counter = now % Period /\ Counter' = now' % Period
  BY DEF Counter
<1>5. uif' = (uif \/ now' % Period = 0) /\ uif \in BOOLEAN
  BY DEF Tick, TimTypes
<1>6. InCount' => InCount
  <2>1. CountSize * Period \in Nat
    BY SizesAre
  <2>. QED  BY <1>1, <2>1 DEF InCount
<1>7. CASE now' % Period = (now % Period) + 1
  <2>1. now' % Period # 0 /\ now' \div Period = now \div Period
    BY <1>2, <1>3, <1>7, SizesAre
  <2>2. uif' = uif
    BY <1>5, <2>1
  <2>. QED  BY <1>1, <1>3, <1>4, <1>6, <1>7, <2>1, <2>2
<1>8. CASE now' % Period # (now % Period) + 1
  <2>1. /\ now' % Period = 0 /\ now' \div Period = now \div Period + 1
        /\ now % Period = Period - 1
    BY <1>2, <1>3, <1>8, SizesAre
  <2>. QED  BY <1>1, <1>3, <1>4, <1>5, <1>6, <2>1
<1>. QED  BY <1>7, <1>8

(* uif and overflow_count keep count of the laps.                           *)
LEMMA LapsStep ==
    ASSUME TimTypes, AtRest, LapsCounted, [TimNext]_timVars
    PROVE  LapsCounted'
<1>1. CASE Tick
  <2>1. uif => Counter + 1 <= Latency
    BY <1>1, LapAndCount DEF Tick, InTime, TimTypes, Counter
  <2>2. mode' = mode /\ overflow_count' = overflow_count
    BY <1>1 DEF Tick
  <2>. QED  BY <1>1, <2>1, <2>2, TickIs, SizesAre DEF LapsCounted, TimTypes
<1>2. CASE IrqUpdate
  <2>1. mode' = "run" => mode = "run" /\ ~uif' /\ uif /\ now' = now
        /\ overflow_count' = (overflow_count + 1) % CountSize
    BY <1>2 DEF IrqUpdate
  <2>2. CASE mode = "run" /\ InCount
    <3>1. overflow_count + 1 = now \div Period
      BY <2>1, <2>2, <1>2 DEF LapsCounted, IrqUpdate
    <3>2. overflow_count + 1 \in 0..(CountSize - 1)
      BY <2>2, <3>1, LapsFit DEF TimTypes, InCount
    <3>3. overflow_count' = now \div Period /\ now' = now /\ ~uif'
      BY <1>2, <3>1, <3>2, SmallCount DEF IrqUpdate
    <3>. QED  BY <3>3, LapAndCount DEF LapsCounted, TimTypes
  <2>. QED  BY <1>2, <2>1, <2>2 DEF LapsCounted, InCount
<1>3. CASE StartCounter
  <2>1. now = 0 /\ ~uif /\ overflow_count = 0
    BY <1>3 DEF AtRest, StartCounter, Counting
  <2>2. 0 \div Period = 0
    BY SizesAre
  <2>. QED  BY <1>3, <2>1, <2>2 DEF StartCounter, LapsCounted, flags
<1>4. CASE Clear
  <2>2. 0 \div Period = 0
    BY SizesAre
  <2>. QED  BY <1>4, <2>2 DEF Clear, Cleared, LapsCounted
<1>5. CASE mode' # "run"
  BY <1>5 DEF LapsCounted
<1>6. CASE UNCHANGED <<mode, now, uif, overflow_count>>
  BY <1>6 DEF LapsCounted, Counter, InCount
<1>7. CASE StartFlags
  <2>1. ~uif' /\ overflow_count' = overflow_count /\ overflow_count \in Nat
    BY <1>7 DEF StartFlags, TimTypes
  <2>. QED  BY <1>7, <2>1, TimeGoesOn DEF LapsCounted
<1>8. CASE StartArm \/ StartAgain \/ StopCounter \/ StopRest
  BY <1>5, <1>8 DEF StartArm, StartAgain, StopCounter, StopRest
<1>9. CASE Edge \/ IrqCapture \/ IrqValue \/ IrqCounter \/ IrqDelta \/ UNCHANGED timVars
  BY <1>6, <1>9 DEF timVars, Edge, IrqCapture, IrqValue, IrqCounter, IrqDelta, flags
<1>. QED  BY <1>1, <1>2, <1>3, <1>4, <1>7, <1>8, <1>9 DEF TimNext

(* The edge that was read last is not in the future.                        *)
LEMMA ReadIsPast ==
    ASSUME TimTypes, EdgesInOrder, LastRead \in Nat
    PROVE  /\ edge \in Nat /\ LastRead <= edge /\ mode \in {"run", "again", "halted"}
           /\ mode = "run" => LastRead <= now
BY DEF Counting, TimTypes, EdgesInOrder, LastRead

(* Every step keeps what is said of the capture in service.                 *)
LEMMA ServiceStep ==
    ASSUME TimTypes, EdgesInOrder, AtRest, InService, [TimNext]_timVars
    PROVE  InService'
<1>1. CASE Tick
  <2>1. /\ UNCHANGED <<mode, ccif, ccof, cc_at, cc_irq, value, counter_seen, irq_at, edge, before>>
        /\ now' = now + 1
    BY <1>1 DEF Tick, irq, past
  <2>4. /\ ccif => now' - cc_at <= Latency
        /\ cc_irq # "idle" => now' - irq_at <= Latency
    <3>1. (ccif => InTime(cc_at)) /\ (cc_irq # "idle" => InTime(irq_at))
      BY <1>1 DEF Tick
    <3>2. now \in Nat /\ cc_at \in Nat /\ irq_at \in Nat /\ Latency \in Nat
      BY SizesAre DEF TimTypes
    <3>. QED  BY <2>1, <3>1, <3>2 DEF InTime
  <2>2. LastRead' = LastRead
    BY <2>1 DEF LastRead
  <2>3. ~uif' => /\ ~uif /\ now' \div Period = now \div Period
                 /\ Counter' = Counter + 1 /\ Counter \in Nat
    BY <1>1, TickIs
  <2>. QED  BY <2>1, <2>2, <2>3, <2>4 DEF InService, TimTypes
<1>2. CASE Edge /\ mode = "run" /\ ~ccof'
  <2>1. /\ ccif' /\ edge' = now /\ before' = edge /\ ~ccof /\ ~ccif /\ cc_at' = now
        /\ UNCHANGED <<mode, now, uif, cc_irq, value, counter_seen, irq_at>>
    BY <1>2 DEF Edge, irq, TimTypes
  <2>2. LastRead' = LastRead /\ cc_irq # "value"
    BY <2>1 DEF LastRead, EdgesInOrder
  <2>3. now - now <= Latency
    BY SizesAre DEF TimTypes
  <2>. QED  BY <1>2, <2>1, <2>2, <2>3 DEF InService, Counter, TimTypes
<1>3. CASE IrqUpdate
  BY <1>3 DEF IrqUpdate, InService, irq, past
<1>4. CASE IrqCapture
  BY <1>4 DEF IrqCapture, InService, past
<1>5. CASE IrqValue
  <2>1. UNCHANGED <<mode, now, ccof, irq_at, edge, before>> /\ cc_irq' = "counter" /\ ~ccif'
        /\ cc_irq = "value" /\ value' = Capture /\ ccif
    BY <1>5 DEF IrqValue, EdgesInOrder
  <2>2. LastRead' = edge
    BY <2>1 DEF LastRead
  <2>. QED  BY <2>1, <2>2 DEF InService, Capture, Early
<1>6. CASE IrqCounter /\ mode = "run" /\ ~ccof
  <2>1. /\ UNCHANGED <<mode, now, ccif, ccof, uif, cc_at, value, irq_at, edge, before>>
        /\ cc_irq' = "delta" /\ cc_irq = "counter" /\ counter_seen' = Counter
    BY <1>6 DEF IrqCounter, flags, past
  <2>2. LastRead' = LastRead /\ Counter' = Counter
    BY <2>1 DEF LastRead, Counter
  <2>3. LastRead \in Nat /\ now - LastRead <= Latency /\ value = LastRead % Period
    BY <1>6, <2>1 DEF InService
  <2>4. LastRead <= now /\ now - LastRead < Period
    BY <1>6, <2>3, ReadIsPast, SizesAre DEF TimTypes
  <2>5. LastRead \div Period = now \div Period => value <= Counter
    <3>. DEFINE x == LastRead % Period
                y == now % Period
                a == LastRead \div Period
                b == now \div Period
    <3>1. (a = b /\ y = x + (now - LastRead)) \/ b = a + 1
      BY <2>3, <2>4, NearTimes DEF TimTypes
    <3>2. x \in Nat /\ y \in Nat /\ a \in Nat
      BY <2>3, LapAndCount DEF TimTypes
    <3>3. value = x /\ Counter = y
      BY <2>3 DEF Counter
    <3>. HIDE DEF x, y, a, b
    <3>4. a = b => value <= Counter
      BY <2>3, <2>4, <3>1, <3>2, <3>3 DEF TimTypes
    <3>. QED  BY <3>4 DEF a, b
  <2>6. Counter \in Nat
    BY LapAndCount DEF TimTypes, Counter
  <2>. QED  BY <1>6, <2>1, <2>2, <2>3, <2>5, <2>6 DEF InService
<1>7. CASE IrqDelta
  BY <1>7 DEF IrqDelta, InService, flags, past
<1>8. CASE StartCounter
  BY <1>8 DEF StartCounter, InService, flags, irq
<1>9. CASE Clear
  BY <1>9 DEF Clear, TimCall, Cleared, InService, irq
<1>10. CASE mode' # "run" \/ ccof'
  BY <1>10 DEF InService
<1>11. CASE UNCHANGED timVars
  BY <1>11 DEF timVars, InService, LastRead, Counter
<1>12. (Edge \/ IrqCounter) => mode' = mode /\ (ccof => ccof')
  BY DEF Edge, IrqCounter, flags, TimTypes
<1>13. StartArm \/ StartAgain \/ StopCounter \/ StopRest => mode' # "run"
  BY DEF StartArm, StartAgain, StopCounter, StopRest
<1>14. CASE StartFlags
  BY <1>14 DEF StartFlags, InService, irq
<1>. QED  BY <1>1, <1>2, <1>3, <1>4, <1>5, <1>6, <1>7, <1>8, <1>9, <1>10, <1>11, <1>12, <1>13,
             <1>14 DEF TimNext

(* _uni_hal_tim_get_capture: the lap of the edge, from the overflows counted *)
(* and pending and from which half of the period its count is in.            *)
LEMMA CapturedIs ==
    ASSUME TimTypes, EdgesInOrder, LapsCounted, InService,
           mode = "run", ~ccof, cc_irq = "delta", InCount
    PROVE  /\ LastRead \in Nat /\ value = LastRead % Period
           /\ CapturedOverflow(uif) = LastRead \div Period
           /\ LastRead \div Period \in 0..(CountSize - 1)
<1>. DEFINE x == LastRead % Period
            a == LastRead \div Period
            b == now \div Period
            d == now - LastRead
<1>1. /\ LastRead \in Nat /\ value = x /\ d <= Latency /\ LastRead <= now /\ now \in Nat
      /\ ~uif => counter_seen <= Counter /\ (a = b => value <= counter_seen)
  BY ReadIsPast DEF InService, TimTypes
<1>2. d \in Nat /\ d < Period /\ d < HalfPeriod
  BY <1>1, SizesAre
<1>3. \/ b = a /\ Counter = x + d
      \/ b = a + 1 /\ Counter + Period = x + d
  BY <1>1, <1>2, NearTimes DEF Counter
<1>4. x \in Nat /\ x < Period /\ Counter \in Nat /\ a \in Nat /\ b \in Nat
  BY <1>1, LapAndCount DEF Counter
<1>5. b \in 0..(CountSize - 1)
  BY <1>1, LapsFit DEF InCount
<1>6. overflow_count + (IF uif THEN 1 ELSE 0) = b /\ (uif => Counter <= Latency)
      /\ overflow_count \in Nat /\ counter_seen \in Nat
  BY DEF LapsCounted, TimTypes
<1>. HIDE DEF x, a, b, d
<1>7. CapturedOverflow(uif) = a
  <2>1. CASE uif /\ b = a
    <3>1. value < HalfPeriod
      BY <1>1, <1>2, <1>3, <1>4, <1>6, <2>1, SizesAre
    <3>. QED  BY <1>6, <2>1, <3>1 DEF CapturedOverflow
  <2>2. CASE uif /\ b = a + 1
    <3>1. ~(value < HalfPeriod)
      BY <1>1, <1>2, <1>3, <1>4, <2>2, SizesAre
    <3>. QED  BY <1>4, <1>6, <2>2, <3>1 DEF CapturedOverflow
  <2>3. CASE ~uif /\ b = a
    <3>1. ~(counter_seen < HalfPeriod /\ value > HalfPeriod)
      BY <1>1, <1>4, <1>6, <2>3, SizesAre
    <3>. QED  BY <1>4, <1>6, <2>3, <3>1 DEF CapturedOverflow
  <2>4. CASE ~uif /\ b = a + 1
    <3>1. counter_seen < HalfPeriod /\ value > HalfPeriod /\ overflow_count > 0
      BY <1>1, <1>2, <1>3, <1>4, <1>6, <2>4, SizesAre
    <3>. QED  BY <1>4, <1>6, <2>4, <3>1 DEF CapturedOverflow
  <2>. QED  BY <1>3, <2>1, <2>2, <2>3, <2>4
<1>8. a \in 0..(CountSize - 1)
  BY <1>3, <1>4, <1>5, SizesAre
<1>. QED  BY <1>1, <1>7, <1>8 DEF x, a
(* Every step keeps what the channel holds.                                 *)
LEMMA HoldsStep ==
    ASSUME TimTypes, EdgesInOrder, AtRest, LapsCounted, InService, ChannelHolds, ReadIsEdge,
           [TimNext]_timVars
    PROVE  ChannelHolds' /\ ReadIsEdge'
<1>1. CASE Tick
  <2>1. UNCHANGED <<mode, ccif, ccof, cc_irq, edge, before, served, chan>>
    BY <1>1 DEF Tick, irq, past
  <2>2. InCount' => InCount
    BY <1>1, TickIs
  <2>3. LastRead' = LastRead
    BY <2>1 DEF LastRead
  <2>. QED  BY <2>1, <2>2, <2>3 DEF ChannelHolds, ReadIsEdge, HoldsTime
<1>2. CASE Edge /\ ~ccof'
  <2>1. /\ ccif' /\ before' = edge /\ ~ccof /\ ~ccif
        /\ UNCHANGED <<mode, now, cc_irq, served, chan>>
    BY <1>2 DEF Edge, irq, TimTypes
  <2>2. LastRead' = LastRead /\ InCount' = InCount
    BY <2>1 DEF LastRead, InCount
  <2>. QED  BY <2>1, <2>2 DEF ChannelHolds, ReadIsEdge, HoldsTime
<1>3. CASE IrqUpdate \/ StartCounter
  <2>1. /\ UNCHANGED <<now, ccif, ccof, cc_irq, edge, before, served, chan>>
        /\ mode' \in {"armed", "run"} => mode \in {"armed", "run"}
    BY <1>3 DEF IrqUpdate, StartCounter, flags, irq, past
  <2>2. LastRead' = LastRead /\ InCount' = InCount
    BY <2>1 DEF LastRead, InCount
  <2>. QED  BY <2>1, <2>2 DEF ChannelHolds, ReadIsEdge, HoldsTime
<1>4. CASE IrqCapture
  <2>1. /\ UNCHANGED <<mode, now, served, edge, before>>
        /\ cc_irq = "idle" /\ cc_irq' \in {"idle", "value"}
    BY <1>4 DEF IrqCapture, past
  <2>2. CASE ccof
    <3>1. ~chan'.seen
      BY <1>4, <2>2 DEF IrqCapture, TimTypes, CaptureChannels
    <3>. QED  BY <2>1, <3>1 DEF ChannelHolds, ReadIsEdge
  <2>3. CASE ~ccof
    <3>1. UNCHANGED <<ccif, ccof, chan>>
      BY <1>4, <2>3 DEF IrqCapture
    <3>2. LastRead' = LastRead /\ InCount' = InCount
      BY <2>1, <3>1 DEF LastRead, InCount
    <3>. QED  BY <2>1, <2>3, <3>1, <3>2 DEF ChannelHolds, ReadIsEdge, HoldsTime
  <2>. QED  BY <2>2, <2>3
<1>5. CASE IrqValue
  <2>1. /\ UNCHANGED <<mode, now, ccof, chan, edge, before>> /\ cc_irq' = "counter" /\ ~ccif'
        /\ cc_irq = "value" /\ ccif /\ edge # Never
        /\ served' = CASE before = Never -> 0 [] before = Early -> Early [] OTHER -> edge - before
    BY <1>5 DEF IrqValue, EdgesInOrder
  <2>2. LastRead' = edge /\ LastRead = before /\ InCount' = InCount
    BY <2>1 DEF LastRead, InCount
  <2>3. CASE before \in Nat
    <3>1. edge \in Nat /\ before < edge
      BY <2>3 DEF EdgesInOrder
    <3>2. served' = edge - before
      BY <2>1, <2>3 DEF Never, Early
    <3>3. served' \in 1..edge /\ edge - served' = before
      BY <2>3, <3>1, <3>2
    <3>. QED  BY <2>1, <2>2, <2>3, <3>3 DEF ChannelHolds, ReadIsEdge, HoldsTime
  <2>4. CASE before = Never
    BY <2>1, <2>2, <2>4 DEF ChannelHolds, ReadIsEdge
  <2>5. CASE before = Early
    <3>1. served' = Early
      BY <2>1, <2>5 DEF Never, Early
    <3>. QED  BY <2>1, <2>2, <3>1 DEF ChannelHolds, ReadIsEdge
  <2>. QED  BY <2>3, <2>4, <2>5 DEF TimTypes, EdgeTimes
<1>6. CASE IrqCounter
  <2>1. /\ UNCHANGED <<mode, now, ccif, ccof, chan, edge, before, served>>
        /\ cc_irq = "counter" /\ cc_irq' = "delta"
    BY <1>6 DEF IrqCounter, flags, past
  <2>2. LastRead' = LastRead /\ InCount' = InCount
    BY <2>1 DEF LastRead, InCount
  <2>. QED  BY <2>1, <2>2 DEF ChannelHolds, ReadIsEdge, HoldsTime
<1>7. CASE IrqDelta
  <2>1. /\ UNCHANGED <<mode, now, uif, ccif, ccof, edge, before, served>>
        /\ cc_irq = "delta" /\ cc_irq' = "idle" /\ chan'.counter = value
        /\ chan'.overflow_count = CapturedOverflow(uif) % CountSize
    BY <1>7 DEF IrqDelta, flags, past
  <2>2. LastRead' = LastRead /\ InCount' = InCount
    BY <2>1 DEF LastRead, InCount
  <2>3. CASE mode = "run" /\ ~ccof /\ InCount
    <3>1. /\ LastRead \in Nat /\ value = LastRead % Period
          /\ CapturedOverflow(uif) = LastRead \div Period
          /\ CapturedOverflow(uif) \in 0..(CountSize - 1)
      BY <2>1, <2>3, CapturedIs
    <3>2. CapturedOverflow(uif) % CountSize = LastRead \div Period
      BY <3>1, SmallCount
    <3>3. HoldsTime(LastRead)'
      BY <2>1, <2>2, <3>1, <3>2 DEF HoldsTime
    <3>. QED  BY <2>1, <2>2, <3>1, <3>3 DEF ChannelHolds, ReadIsEdge, HoldsTime, Never
  <2>4. CASE mode = "armed"
    <3>1. LastRead \notin Nat
      BY <2>4, ReadIsPast
    <3>. QED  BY <2>1, <2>2, <2>4, <3>1 DEF ChannelHolds, ReadIsEdge
  <2>5. CASE mode \notin {"armed", "run"} \/ ccof \/ ~InCount
    BY <2>1, <2>2, <2>5 DEF ChannelHolds, ReadIsEdge
  <2>. QED  BY <2>3, <2>4, <2>5 DEF TimTypes
<1>8. CASE StartArm \/ Clear \/ StopRest
  <2>1. ~chan'.seen /\ cc_irq' = "idle"
    BY <1>8 DEF StartArm, Clear, StopRest, TimCall, Cleared, NoChan, irq
  <2>. QED  BY <2>1 DEF ChannelHolds, ReadIsEdge
<1>9. CASE mode' \notin {"armed", "run"} \/ ccof'
  BY <1>9 DEF ChannelHolds, ReadIsEdge
<1>10. CASE UNCHANGED timVars
  BY <1>10 DEF timVars, ChannelHolds, ReadIsEdge, LastRead, HoldsTime, InCount
<1>11. StopCounter \/ StartAgain => mode' \in {"halted", "again"}
  BY DEF StopCounter, StartAgain
<1>12. CASE StartFlags
  <2>1. cc_irq' = "idle" /\ ~ccif' /\ chan' = chan /\ (chan.seen => edge' = Early)
    BY <1>12 DEF StartFlags, irq
  <2>2. chan.seen => LastRead' = Early
    BY <2>1 DEF LastRead
  <2>. QED  BY <2>1, <2>2 DEF ChannelHolds, ReadIsEdge, Never, Early
<1>. QED  BY <1>1, <1>2, <1>3, <1>4, <1>5, <1>6, <1>7, <1>8, <1>9, <1>10, <1>11, <1>12 DEF TimNext

(* Every step keeps the period that is told.                                *)
LEMMA ToldStep ==
    ASSUME TimTypes, EdgesInOrder, AtRest, LapsCounted, InService, ChannelHolds, PeriodTold,
           [TimNext]_timVars
    PROVE  PeriodTold'
<1>1. CASE Tick
  <2>1. UNCHANGED <<mode, ccof, cc_irq, served, chan>>
    BY <1>1 DEF Tick, irq, past
  <2>2. InCount' => InCount
    BY <1>1, TickIs
  <2>. QED  BY <2>1, <2>2 DEF PeriodTold
<1>2. CASE Edge
  BY <1>2 DEF Edge, irq, TimTypes, PeriodTold, InCount
<1>3. CASE IrqUpdate \/ StartCounter
  BY <1>3 DEF IrqUpdate, StartCounter, flags, irq, past, PeriodTold, InCount
<1>4. CASE IrqCapture
  <2>1. UNCHANGED <<mode, now, served>> /\ cc_irq = "idle"
    BY <1>4 DEF IrqCapture, past
  <2>2. CASE ccof
    <3>1. ~chan'.valid
      BY <1>4, <2>2 DEF IrqCapture, TimTypes, CaptureChannels
    <3>. QED  BY <3>1 DEF PeriodTold
  <2>3. CASE ~ccof
    <3>1. UNCHANGED <<ccof, chan>>
      BY <1>4, <2>3 DEF IrqCapture
    <3>. QED  BY <2>1, <3>1 DEF PeriodTold, InCount
  <2>. QED  BY <2>2, <2>3
<1>5. CASE IrqValue \/ IrqCounter
  <2>1. cc_irq' \in {"counter", "delta"} /\ chan' = chan
    BY <1>5 DEF IrqValue, IrqCounter
  <2>. QED  BY <2>1 DEF PeriodTold
<1>6. CASE IrqDelta
  <2>. DEFINE captured == CapturedOverflow(uif) % CountSize
              delta == Delta((captured - chan.overflow_count) % CountSize)
  <2>1. /\ UNCHANGED <<mode, now, ccof, served>> /\ cc_irq = "delta" /\ chan'.seen
        /\ chan'.valid = (IF chan.seen THEN delta > 0 ELSE chan.valid)
        /\ chan'.period = IF chan.seen /\ delta > 0 THEN delta ELSE chan.period
    BY <1>6 DEF IrqDelta, flags, past
  <2>2. CASE ~chan.seen
    <3>1. ~chan'.valid
      BY <2>1, <2>2 DEF PeriodTold
    <3>. QED  BY <2>1, <3>1 DEF PeriodTold
  <2>3. CASE chan.seen /\ mode = "run" /\ ~ccof /\ InCount /\ served # Early
    <3>. DEFINE s == LastRead - served
    <3>1. /\ LastRead \in Nat /\ value = LastRead % Period
          /\ CapturedOverflow(uif) = LastRead \div Period
          /\ LastRead \div Period \in 0..(CountSize - 1)
      BY <2>1, <2>3, CapturedIs
    <3>2. served \in 1..LastRead /\ HoldsTime(s)
      BY <2>1, <2>3 DEF ChannelHolds
    <3>3. s \in Nat /\ s < LastRead /\ LastRead - s = served
      BY <3>1, <3>2
    <3>. HIDE DEF s
    <3>4. captured = LastRead \div Period
      BY <3>1, SmallCount
    <3>5. chan.overflow_count = s \div Period /\ s \div Period <= LastRead \div Period
          /\ s \div Period \in Nat
      BY <3>1, <3>2, <3>3, LapsGrow, LapAndCount DEF HoldsTime
    <3>. HIDE DEF captured
    <3>6. captured - chan.overflow_count \in 0..(CountSize - 1)
      BY <3>1, <3>4, <3>5, SizesAre
    <3>7. (captured - chan.overflow_count) % CountSize = captured - chan.overflow_count
      BY <3>6, SmallCount
    <3>8. delta = served
      BY <3>1, <3>2, <3>3, <3>4, <3>7, DeltaIs
    <3>. QED  BY <2>1, <2>3, <3>2, <3>3, <3>8 DEF PeriodTold
  <2>4. CASE chan.seen /\ mode = "armed" /\ ~ccof /\ InCount /\ served # Early
    <3>1. LastRead \in Nat
      BY <2>1, <2>4 DEF ChannelHolds, LastRead, TimTypes, EdgeTimes, Never, Early
    <3>. QED  BY <2>4, <3>1, ReadIsPast
  <2>5. CASE mode \notin {"armed", "run"} \/ ccof \/ ~InCount \/ served = Early
    BY <2>1, <2>5 DEF PeriodTold, InCount
  <2>. QED  BY <2>2, <2>3, <2>4, <2>5
<1>7. CASE StartArm \/ Clear \/ StopRest
  <2>1. ~chan'.valid
    BY <1>7 DEF StartArm, Clear, StopRest, Cleared, NoChan
  <2>. QED  BY <2>1 DEF PeriodTold
<1>8. CASE StopCounter
  BY <1>8 DEF StopCounter, PeriodTold
<1>9. CASE UNCHANGED timVars
  BY <1>9 DEF timVars, PeriodTold, InCount
<1>10. CASE StartAgain
  <2>1. ~chan'.valid /\ mode' = "again"
    BY <1>10 DEF StartAgain, NoChan
  <2>. QED  BY <2>1 DEF PeriodTold
<1>11. CASE StartFlags
  <2>1. chan' = chan /\ (chan.seen => served' = Early)
    BY <1>11 DEF StartFlags
  <2>. QED  BY <2>1 DEF PeriodTold
<1>. QED  BY <1>1, <1>2, <1>3, <1>4, <1>5, <1>6, <1>7, <1>8, <1>9, <1>10, <1>11 DEF TimNext

(* A period that the driver reports as valid is the distance of the last    *)
(* two edges: overflows that are pending or counted already when a capture  *)
(* is served are put on the right side of it, whatever the order in which   *)
(* the interrupts come, for every period of the counter.                    *)
THEOREM PeriodIsTrue == TimSpec => []PeriodTrue
<1>1. TimInit => TimInv
  <2>. SUFFICES ASSUME TimInit PROVE TimInv
    OBVIOUS
  <2>1. TimTypes
    BY DEF TimInit, TimTypes, CaptureChannels, NoChan, EdgeTimes
  <2>2. EdgesInOrder /\ AtRest /\ LapsCounted /\ InService
    BY SizesAre DEF TimInit, Counting, EdgesInOrder, AtRest, LapsCounted, InService, Never
  <2>3. ChannelHolds /\ ReadIsEdge /\ PeriodTold
    BY DEF TimInit, ChannelHolds, ReadIsEdge, PeriodTold, NoChan
  <2>. QED  BY <2>1, <2>2, <2>3 DEF TimInv
<1>2. TimInv /\ [TimNext]_timVars => TimInv'
  <2>. SUFFICES ASSUME TimInv, [TimNext]_timVars PROVE TimInv'
    OBVIOUS
  <2>1. TimTypes' /\ EdgesInOrder' /\ AtRest' /\ LapsCounted'
    BY TimTypesStep, OrderStep, LapsStep DEF TimInv
  <2>2. InService' /\ ChannelHolds' /\ ReadIsEdge' /\ PeriodTold'
    BY ServiceStep, HoldsStep, ToldStep DEF TimInv
  <2>. QED  BY <2>1, <2>2 DEF TimInv
<1>3. TimInv => PeriodTrue
  BY SizesAre DEF TimInv, TimTypes, PeriodTold, PeriodTrue, InCount
<1>. QED  BY <1>1, <1>2, <1>3, PTL DEF TimSpec

--------------------------------------------------------------------------------
(***************************************************************************)
(* Crc: the words that are fed, and who has used the unit alone.           *)
(***************************************************************************)
(* The specification of the CRC drivers.                                    *)
CrcSpec == CrcInit /\ [][CrcNext]_crcVars

(* Who has used the unit alone has set its polynomial, and the data register *)
(* stands for the initial value and the bytes given.                        *)
CrcInv ==
    /\ crc_chip \in {"h7", "l4"} /\ byte \in Nat /\ crc_initialized \subseteq CrcContexts
    /\ \/ message = Nobody
       \/ \E c \in crc_initialized : \E d \in Seq(Nat) : \E x :
             /\ message = [ctx |-> c, initial |-> x, data |-> d]
             /\ POL = PolOf(c) /\ DR = [initial |-> x, fed |-> d]

(* A sequence cut in pieces, one after the other, is what the pieces give   *)
(* when they are joined.                                                    *)
LEMMA FlattenIs ==
    ASSUME NEW d \in Seq(Nat), NEW n \in Nat \ {0}, NEW ends \in [0..n -> 0..Len(d)],
           ends[0] = 0, ends[n] = Len(d), \A i \in 1..n : ends[i - 1] <= ends[i],
           NEW w \in Seq(Seq(Nat)), Len(w) = n,
           \A i \in 1..n : w[i] = SubSeq(d, ends[i - 1] + 1, ends[i])
    PROVE  FlattenSeq(w) = d
<1>. DEFINE Step(f) == [i \in 1..n |-> IF i = 1 THEN w[i] ELSE f[i - 1] \o w[i]]
            g == [i \in 1..n |-> SubSeq(d, 1, ends[i])]
            f == CHOOSE h : h = Step(h)
<1>1. FlattenSeq(w) = f[n]
  BY DEF FlattenSeq
<1>2. Len(d) \in Nat /\ \A i \in 0..n : ends[i] \in 0..Len(d)
  BY LenProperties
<1>3. ASSUME NEW i \in 1..n, i # 1
      PROVE  SubSeq(d, 1, ends[i]) = SubSeq(d, 1, ends[i - 1]) \o w[i] /\ i - 1 \in 1..n
  <2>1. i - 1 \in 1..n /\ i - 1 \in 0..n /\ i \in 0..n
    BY <1>3
  <2>. DEFINE k == ends[i - 1]
              e == ends[i]
  <2>2. k \in 0..Len(d) /\ e \in 0..Len(d) /\ k <= e
    BY <1>2, <2>1
  <2>3. w[i] = SubSeq(d, k + 1, e)
    OBVIOUS
  <2>. HIDE DEF k, e
  <2>4. 1 \in 1..(Len(d) + 1) /\ k \in (1 - 1)..Len(d) /\ e \in k..Len(d)
    BY <1>2, <2>2
  <2>5. SubSeq(d, 1, k) \o SubSeq(d, k + 1, e) = SubSeq(d, 1, e)
    BY ONLY d \in Seq(Nat), <2>4, ConcatAdjacentSubSeq
  <2>. QED  BY <2>1, <2>3, <2>5 DEF k, e
<1>4. 1 \in 1..n /\ w[1] = SubSeq(d, 1, ends[1])
  <2>1. 1 \in 1..n /\ 1 - 1 = 0
    OBVIOUS
  <2>2. PICK i \in 1..n : i = 1
    BY <2>1
  <2>3. i - 1 = 0
    BY <2>2
  <2>4. w[i] = SubSeq(d, ends[i - 1] + 1, ends[i])
    OBVIOUS
  <2>5. w[i] = SubSeq(d, 0 + 1, ends[i])
    BY ONLY <2>3, <2>4, ends[0] = 0
  <2>. QED  BY <2>1, <2>2, <2>5
<1>5. g = Step(g)
  <2>1. ASSUME NEW i \in 1..n PROVE g[i] = IF i = 1 THEN w[i] ELSE g[i - 1] \o w[i]
    <3>1. CASE i = 1
      BY <1>4, <3>1
    <3>2. CASE i # 1
      <4>1. g[i - 1] = SubSeq(d, 1, ends[i - 1]) /\ g[i] = SubSeq(d, 1, ends[i])
        BY <1>3, <3>2
      <4>. HIDE DEF g
      <4>. QED  BY <1>3, <3>2, <4>1
    <3>. QED  BY <3>1, <3>2
  <2>. QED  BY <2>1
<1>6. f = Step(f)
  BY <1>5
<1>. HIDE DEF f
<1>7. /\ \A i \in 1..n : g[i] = SubSeq(d, 1, ends[i])
      /\ f[1] = w[1] /\ g[1] = w[1]
      /\ \A i \in 1..n : i # 1 => f[i] = f[i - 1] \o w[i] /\ g[i] = g[i - 1] \o w[i]
  <2>1. \A i \in 1..n : f[i] = IF i = 1 THEN w[i] ELSE f[i - 1] \o w[i]
    BY <1>6
  <2>2. \A i \in 1..n : g[i] = IF i = 1 THEN w[i] ELSE g[i - 1] \o w[i]
    BY <1>5
  <2>3. \A i \in 1..n : g[i] = SubSeq(d, 1, ends[i])
    OBVIOUS
  <2>. HIDE DEF g
  <2>. QED  BY <1>4, <2>1, <2>2, <2>3
<1>. HIDE DEF g
<1>8. g[n] = f[n]
  <2>. DEFINE S == {i \in 1..n : g[i] # f[i]}
  <2>1. ASSUME S # {} PROVE FALSE
    <3>1. PICK m \in S : \A i \in S : m <= i
      <4>1. S \in SUBSET Nat
        OBVIOUS
      <4>. HIDE DEF S
      <4>. QED  BY <2>1, <4>1, LeastExists
    <3>2. m \in 1..n /\ g[m] # f[m] /\ m # 1
      BY <1>7
    <3>3. m - 1 \in 1..n /\ ~(m <= m - 1)
      BY <3>2
    <3>4. g[m - 1] = f[m - 1]
      BY <3>1, <3>3
    <3>5. f[m] = f[m - 1] \o w[m] /\ g[m] = g[m - 1] \o w[m]
      BY <1>7, <3>2
    <3>. QED  BY <3>2, <3>4, <3>5
  <2>2. n \in 1..n
    OBVIOUS
  <2>3. n \notin S
    <3>. HIDE DEF S
    <3>. QED  BY <2>1
  <2>. QED  BY <2>2, <2>3
<1>9. SubSeq(d, 1, Len(d)) = d
  BY SubSeqFull
<1>. QED
  <2>1. n \in 1..n
    OBVIOUS
  <2>2. g[n] = SubSeq(d, 1, ends[n])
    BY <1>7, <2>1
  <2>. QED  BY <1>1, <1>8, <1>9, <2>2

(* Reversing twice gives the sequence back.                                 *)
LEMMA ReverseTwice ==
    ASSUME NEW s \in Seq(Nat)
    PROVE  Reverse(Reverse(s)) = s
<1>. DEFINE n == Len(s)
            r == Reverse(s)
<1>1. n \in Nat /\ s \in [1..n -> Nat]
  BY LenProperties
<1>. HIDE DEF n
<1>2. r = [i \in 1..n |-> s[n - i + 1]]
  BY DEF Reverse, n
<1>3. r \in Seq(Nat) /\ Len(r) = n
  <2>1. \A i \in 1..n : s[n - i + 1] \in Nat
    <3>1. ASSUME NEW i \in 1..n PROVE n - i + 1 \in 1..n
      BY <1>1
    <3>. QED  BY <1>1, <3>1
  <2>2. r \in [1..n -> Nat]
    BY <1>2, <2>1
  <2>. QED  BY <1>1, <2>2
<1>. HIDE DEF r
<1>4. Reverse(r) = [i \in 1..n |-> r[n - i + 1]]
  BY <1>3 DEF Reverse
<1>5. ASSUME NEW i \in 1..n PROVE r[n - i + 1] = s[i]
  <2>1. n - i + 1 \in 1..n /\ n - (n - i + 1) + 1 = i
    BY <1>1
  <2>. QED  BY <1>2, <2>1
<1>6. Reverse(r) = [i \in 1..n |-> s[i]]
  BY <1>4, <1>5
<1>. QED  BY <1>1, <1>6 DEF r

(* The STM32L4 feeds what it is given.                                      *)
LEMMA WordsL4Are ==
    ASSUME NEW d \in Seq(Nat)
    PROVE  FlattenSeq(WordsL4(d)) = d
<1>. DEFINE n == Len(d)
            w == WordsL4(d)
            ends == [i \in 0..n |-> i]
<1>1. n \in Nat /\ w = [i \in 1..n |-> <<d[i]>>] /\ \A i \in 1..n : d[i] \in Nat
  BY LenProperties, ElementOfSeq DEF WordsL4
<1>2. w \in Seq(Seq(Nat)) /\ Len(w) = n
  <2>1. \A i \in 1..n : <<d[i]>> \in Seq(Nat)
    BY <1>1
  <2>2. w \in [1..n -> Seq(Nat)]
    BY <1>1, <2>1
  <2>. QED  BY <1>1, <2>2
<1>. HIDE DEF w
<1>3. CASE n = 0
  <2>1. d = <<>>
    BY <1>3, EmptySeq
  <2>2. w = <<>>
    BY <1>2, <1>3, EmptySeq
  <2>. QED  BY <1>2, <1>3, <2>1, <2>2 DEF FlattenSeq, w
<1>4. CASE n # 0
  <2>1. ASSUME NEW i \in 1..n PROVE w[i] = SubSeq(d, i, i)
    <3>1. w[i] = <<d[i]>>
      BY <1>1
    <3>2. SubSeq(d, i, i) = <<d[i]>>
      <4>. DEFINE s == SubSeq(d, i, i)
                  e == <<d[i]>>
      <4>1. s \in Seq(Nat) /\ Len(s) = 1 /\ s[1] = d[i]
        <5>1. i \in Int /\ \A j \in i..i : d[j] \in Nat
          BY <1>1
        <5>. QED  BY <5>1, SubSeqProperties
      <4>2. e \in Seq(Nat) /\ Len(e) = 1 /\ e[1] = d[i]
        BY <1>1
      <4>. HIDE DEF s, e
      <4>3. s = e
        BY <4>1, <4>2, SeqEqual
      <4>. QED  BY <4>3 DEF s, e
    <3>. QED  BY <3>1, <3>2
  <2>2. /\ n \in Nat \ {0} /\ ends \in [0..n -> 0..n] /\ ends[0] = 0 /\ ends[n] = n
        /\ \A i \in 1..n : ends[i - 1] = i - 1 /\ ends[i] = i
    BY <1>1, <1>4
  <2>. HIDE DEF ends
  <2>3. \A i \in 1..n : ends[i - 1] <= ends[i] /\ w[i] = SubSeq(d, ends[i - 1] + 1, ends[i])
    <3>1. ASSUME NEW i \in 1..n PROVE i - 1 <= i /\ (i - 1) + 1 = i
      BY <1>1
    <3>. QED  BY <2>1, <2>2, <3>1
  <2>. HIDE DEF n
  <2>4. ends \in [0..n -> 0..Len(d)] /\ ends[n] = Len(d)
    BY <2>2 DEF n
  <2>. QED  BY <1>2, <2>2, <2>3, <2>4, FlattenIs DEF w
<1>. QED  BY <1>3, <1>4

(* The STM32H7 feeds what it is given: words of memory in the order of its  *)
(* bytes however they were loaded, and then the rest.                       *)
LEMMA WordsH7Are ==
    ASSUME NEW d \in Seq(Nat), NEW aligned \in BOOLEAN
    PROVE  FlattenSeq(WordsH7(d, aligned)) = d
<1>. DEFINE L == Len(d)
            n == L \div 4
            r == L % 4
            tail == SubSeq(d, 4 * n + 1, L)
            first == [i \in 1..n |-> SubSeq(d, 4 * i - 3, 4 * i)]
            rest == CASE Len(tail) = 1 -> <<tail>>
                      [] Len(tail) = 2 -> <<tail>>
                      [] Len(tail) = 3 -> <<SubSeq(tail, 1, 2), SubSeq(tail, 3, 3)>>
                      [] OTHER -> <<>>
            w == first \o rest
            k == IF r = 0 THEN 0 ELSE IF r = 3 THEN 2 ELSE 1
            ends == [i \in 0..(n + k) |->
                        IF i <= n THEN 4 * i
                        ELSE IF i = n + 1 /\ r = 3 THEN 4 * n + 2 ELSE L]
<1>1. L \in Nat /\ n \in Nat /\ r \in 0..3 /\ L = 4 * n + r
  BY LenProperties
<1>2. \A i \in 1..L : d[i] \in Nat
  BY ElementOfSeq
<1>3. \A i \in 1..n : SubSeq(d, 4 * i - 3, 4 * i) \in Seq(Nat)
  <2>. HIDE DEF n, r, L
  <2>1. ASSUME NEW i \in 1..n PROVE SubSeq(d, 4 * i - 3, 4 * i) \in Seq(Nat)
    <3>. DEFINE a == 4 * i - 3
                b == 4 * i
    <3>1. a \in Int /\ b \in Int /\ \A j \in a..b : j \in 1..L
      BY <1>1
    <3>. HIDE DEF a, b
    <3>2. SubSeq(d, a, b) \in Seq(Nat)
      BY <1>2, <3>1, SubSeqProperties
    <3>. QED  BY <3>2 DEF a, b
  <2>. QED  BY <2>1
<1>4. WordsH7(d, aligned) = w
  <2>1. \A i \in 1..n : (IF aligned THEN Reverse(Reverse(SubSeq(d, 4 * i - 3, 4 * i)))
                         ELSE SubSeq(d, 4 * i - 3, 4 * i)) = SubSeq(d, 4 * i - 3, 4 * i)
    BY <1>3, ReverseTwice
  <2>2. [i \in 1..n |-> IF aligned THEN Reverse(Reverse(SubSeq(d, 4 * i - 3, 4 * i)))
                         ELSE SubSeq(d, 4 * i - 3, 4 * i)] = first
    BY <2>1
  <2>. QED  BY <2>2 DEF WordsH7, Swap32, Load32, Join
<1>5. tail \in Seq(Nat) /\ Len(tail) = r
  <2>. HIDE DEF n, r, L
  <2>. DEFINE a == 4 * n + 1
  <2>1. a \in Int /\ L \in Int /\ \A j \in a..L : j \in 1..L
    BY <1>1
  <2>2. (IF a <= L THEN L - a + 1 ELSE 0) = r
    BY <1>1
  <2>. HIDE DEF a
  <2>3. \A j \in a..L : d[j] \in Nat
    BY <1>2, <2>1
  <2>4. /\ SubSeq(d, a, L) \in Seq(Nat)
        /\ Len(SubSeq(d, a, L)) = IF a <= L THEN L - a + 1 ELSE 0
    BY <2>1, <2>3, SubSeqProperties
  <2>5. SubSeq(d, a, L) \in Seq(Nat) /\ Len(SubSeq(d, a, L)) = r
    BY <2>2, <2>4
  <2>. QED  BY <2>5 DEF a
<1>6. /\ r = 0 => rest = <<>>
      /\ r \in {1, 2} => rest = <<tail>>
      /\ r = 3 => rest = <<SubSeq(tail, 1, 2), SubSeq(tail, 3, 3)>>
  <2>. HIDE DEF tail, r
  <2>. QED  BY <1>5
<1>. HIDE DEF rest
<1>7. r = 3 => /\ SubSeq(tail, 1, 2) = SubSeq(d, 4 * n + 1, 4 * n + 2)
               /\ SubSeq(tail, 3, 3) = SubSeq(d, 4 * n + 3, L)
  <2>. HIDE DEF n, r
  <2>. DEFINE a == 4 * n + 1
  <2>. SUFFICES ASSUME r = 3
                PROVE  /\ SubSeq(tail, 1, 2) = SubSeq(d, 4 * n + 1, 4 * n + 2)
                       /\ SubSeq(tail, 3, 3) = SubSeq(d, 4 * n + 3, L)
    OBVIOUS
  <2>1. /\ a \in 1..L /\ L \in 1..L /\ {1, 2, 3} \subseteq 1..(L - a + 1)
        /\ a + 1 - 1 = 4 * n + 1 /\ a + 2 - 1 = 4 * n + 2 /\ a + 3 - 1 = 4 * n + 3 /\ L = 4 * n + 3
    BY <1>1
  <2>2. tail = SubSeq(d, a, L)
    OBVIOUS
  <2>. HIDE DEF a, tail
  <2>3. \A i, j \in 1..L : \A u, v \in 1..(j - i + 1) :
            SubSeq(SubSeq(d, i, j), u, v) = SubSeq(d, i + u - 1, i + v - 1)
    BY SubSeqOfSubSeq
  <2>. HIDE DEF L
  <2>4. \A u, v \in 1..(L - a + 1) : SubSeq(tail, u, v) = SubSeq(d, a + u - 1, a + v - 1)
    BY <2>1, <2>2, <2>3
  <2>5. /\ SubSeq(tail, 1, 2) = SubSeq(d, a + 1 - 1, a + 2 - 1)
        /\ SubSeq(tail, 3, 3) = SubSeq(d, a + 3 - 1, a + 3 - 1)
    BY <2>1, <2>4
  <2>. QED  BY <2>1, <2>5
<1>8. /\ rest \in Seq(Seq(Nat)) /\ Len(rest) = k /\ k \in 0..2
      /\ r \in {1, 2} => k = 1 /\ rest[1] = SubSeq(d, 4 * n + 1, L)
      /\ r = 3 => /\ k = 2 /\ rest[1] = SubSeq(d, 4 * n + 1, 4 * n + 2)
                  /\ rest[2] = SubSeq(d, 4 * n + 3, L)
  <2>1. CASE r = 0
    BY <1>6, <2>1
  <2>2. CASE r \in {1, 2}
    <3>1. rest = <<tail>>
      BY <1>6, <2>2
    <3>2. k = 1
      <4>. HIDE DEF r
      <4>. QED  BY <2>2
    <3>3. tail = SubSeq(d, 4 * n + 1, L)
      OBVIOUS
    <3>. HIDE DEF tail, r, k
    <3>4. rest \in Seq(Seq(Nat)) /\ Len(rest) = 1 /\ rest[1] = tail
      BY <1>5, <3>1
    <3>5. r # 3
      BY <2>2
    <3>. QED  BY <3>2, <3>3, <3>4, <3>5
  <2>3. CASE r = 3
    <3>. DEFINE x == SubSeq(d, 4 * n + 1, 4 * n + 2)
                y == SubSeq(d, 4 * n + 3, L)
    <3>1. rest = <<x, y>> /\ k = 2
      <4>1. rest = <<SubSeq(tail, 1, 2), SubSeq(tail, 3, 3)>>
        BY <1>6, <2>3
      <4>2. SubSeq(tail, 1, 2) = x /\ SubSeq(tail, 3, 3) = y
        BY <1>7, <2>3
      <4>. HIDE DEF r, tail, x, y
      <4>. QED  BY <2>3, <4>1, <4>2
    <3>2. x \in Seq(Nat) /\ y \in Seq(Nat)
      <4>1. \A j \in (4 * n + 1)..L : d[j] \in Nat
        BY <1>1, <1>2
      <4>. HIDE DEF n, r
      <4>. DEFINE a == 4 * n + 1
                  b == 4 * n + 2
                  c == 4 * n + 3
      <4>2. /\ {a, b, c, L} \subseteq Int
            /\ (\A j \in a..b : j \in a..L) /\ \A j \in c..L : j \in a..L
        BY <1>1, <2>3
      <4>. HIDE DEF a, b, c
      <4>3. SubSeq(d, a, b) \in Seq(Nat) /\ SubSeq(d, c, L) \in Seq(Nat)
        <5>1. \A j \in a..L : d[j] \in Nat
          BY <4>1 DEF a
        <5>. HIDE DEF L
        <5>. QED  BY <4>2, <5>1, SubSeqProperties
      <4>. QED  BY <4>3 DEF a, b, c
    <3>. HIDE DEF x, y, r, k
    <3>3. rest \in Seq(Seq(Nat)) /\ Len(rest) = 2 /\ rest[1] = x /\ rest[2] = y
      BY <3>1, <3>2
    <3>. QED  BY <2>3, <3>1, <3>3 DEF x, y
  <2>. HIDE DEF r, rest, tail, k
  <2>. QED  BY <1>1, <2>1, <2>2, <2>3
<1>. HIDE DEF tail
<1>9. /\ first \in Seq(Seq(Nat)) /\ Len(first) = n
      /\ \A i \in 1..n : first[i] = SubSeq(d, 4 * i - 3, 4 * i)
  <2>1. first \in [1..n -> Seq(Nat)]
    BY <1>3
  <2>. HIDE DEF n
  <2>. QED  BY <1>1, <2>1
<1>. HIDE DEF first
<1>. DEFINE N == n + k
<1>10. /\ w \in Seq(Seq(Nat)) /\ Len(w) = N /\ N \in Nat
       /\ \A i \in 1..N : w[i] = IF i <= n THEN first[i] ELSE rest[i - n]
  <2>1. /\ first \o rest \in Seq(Seq(Nat)) /\ Len(first \o rest) = Len(first) + Len(rest)
        /\ \A i \in 1..(Len(first) + Len(rest)) : (first \o rest)[i] =
               IF i <= Len(first) THEN first[i] ELSE rest[i - Len(first)]
    BY <1>8, <1>9, ConcatProperties
  <2>2. Len(first) + Len(rest) = N /\ N \in Nat
    <3>. HIDE DEF k, n
    <3>. QED  BY <1>1, <1>8, <1>9
  <2>3. Len(first) = n
    BY <1>9
  <2>. HIDE DEF k, n
  <2>. QED  BY <2>1, <2>2, <2>3
<1>. HIDE DEF w
<1>11. /\ ends \in [0..N -> 0..L] /\ ends[0] = 0 /\ ends[N] = L
       /\ \A i \in 0..n : ends[i] = 4 * i
       /\ k = 1 => ends[n + 1] = L
       /\ k = 2 => ends[n + 1] = 4 * n + 2 /\ ends[n + 2] = L
       /\ k = 0 <=> r = 0
       /\ k = 2 <=> r = 3
  <2>1. (k = 0 <=> r = 0) /\ (k = 1 <=> r \in {1, 2}) /\ (k = 2 <=> r = 3) /\ k \in 0..2
    <3>. HIDE DEF r
    <3>. QED  BY <1>1
  <2>. HIDE DEF n, r, L, k
  <2>2. ASSUME NEW i \in 0..N PROVE ends[i] \in 0..L
    BY <1>1, <2>1
  <2>3. ends[0] = 0 /\ ends[N] = L /\ \A i \in 0..n : ends[i] = 4 * i
    BY <1>1, <2>1
  <2>4. /\ k = 1 => ends[n + 1] = L
        /\ k = 2 => ends[n + 1] = 4 * n + 2 /\ ends[n + 2] = L
    BY <1>1, <2>1
  <2>5. ends \in [0..N -> 0..L]
    BY <2>2
  <2>. QED  BY <2>1, <2>3, <2>4, <2>5
<1>. HIDE DEF ends
<1>12. ASSUME NEW i \in 1..N
       PROVE  ends[i - 1] <= ends[i] /\ w[i] = SubSeq(d, ends[i - 1] + 1, ends[i])
  <2>. HIDE DEF n, r, L, k
  <2>1. CASE i <= n
    <3>1. /\ i \in 1..n /\ i \in 0..n /\ i - 1 \in 0..n
          /\ 4 * (i - 1) + 1 = 4 * i - 3 /\ 4 * (i - 1) <= 4 * i
      BY <1>1, <2>1
    <3>2. ends[i - 1] = 4 * (i - 1) /\ ends[i] = 4 * i
      BY <1>11, <3>1
    <3>3. w[i] = SubSeq(d, 4 * i - 3, 4 * i)
      BY <1>9, <1>10, <2>1, <3>1
    <3>. HIDE DEF N
    <3>. QED  BY <3>1, <3>2, <3>3
  <2>2. CASE i = n + 1
    <3>1. k \in {1, 2} /\ i - n = 1 /\ i - 1 = n /\ n \in 0..n /\ ~(i <= n)
      BY <1>1, <1>8, <2>2
    <3>2. ends[i - 1] = 4 * n /\ ends[i] = IF k = 1 THEN L ELSE 4 * n + 2
      BY <1>11, <2>2, <3>1
    <3>3. w[i] = rest[1]
      BY <1>10, <3>1
    <3>4. k = 1 => r \in {1, 2}
      BY <1>1, <1>11
    <3>5. rest[1] = SubSeq(d, 4 * n + 1, IF k = 1 THEN L ELSE 4 * n + 2)
      BY <1>8, <1>11, <3>1, <3>4
    <3>6. 4 * n <= L /\ 4 * n <= 4 * n + 2
      BY <1>1
    <3>. HIDE DEF N
    <3>. QED  BY <3>2, <3>3, <3>5, <3>6
  <2>3. CASE i = n + 2
    <3>1. k = 2 /\ r = 3 /\ i - n = 2 /\ i - 1 = n + 1 /\ ~(i <= n) /\ L = 4 * n + 3
      BY <1>1, <1>8, <1>11, <2>3
    <3>2. ends[i - 1] = 4 * n + 2 /\ ends[i] = L
      BY <1>11, <2>3, <3>1
    <3>3. w[i] = SubSeq(d, 4 * n + 3, L)
      BY <1>8, <1>10, <3>1
    <3>4. 4 * n + 2 + 1 = 4 * n + 3 /\ 4 * n + 2 <= L
      BY <1>1, <3>1
    <3>. HIDE DEF N
    <3>. QED  BY <3>2, <3>3, <3>4
  <2>. QED  BY <1>1, <1>8, <2>1, <2>2, <2>3
<1>13. CASE N = 0
  <2>1. L = 0
    <3>. HIDE DEF n, r, k, L
    <3>. QED  BY <1>1, <1>8, <1>11, <1>13
  <2>2. d = <<>>
    BY <2>1, EmptySeq
  <2>3. w = <<>> /\ Len(w) = 0
    BY <1>10, <1>13, EmptySeq
  <2>. HIDE DEF L, n, r, k, N
  <2>. QED  BY <1>4, <2>2, <2>3 DEF FlattenSeq
<1>14. CASE N # 0
  <2>1. N \in Nat \ {0}
    BY <1>10, <1>14
  <2>2. ends \in [0..N -> 0..Len(d)] /\ ends[N] = Len(d)
    BY <1>11
  <2>. HIDE DEF L, n, r, k, N
  <2>3. /\ \A i \in 1..N : ends[i - 1] <= ends[i]
        /\ \A i \in 1..N : w[i] = SubSeq(d, ends[i - 1] + 1, ends[i])
    BY <1>12
  <2>4. w \in Seq(Seq(Nat)) /\ Len(w) = N /\ ends[0] = 0
    BY <1>10, <1>11
  <2>5. FlattenSeq(w) = d
    BY <2>1, <2>2, <2>3, <2>4, FlattenIs
  <2>. QED  BY <1>4, <2>5
<1>. QED  BY <1>13, <1>14

(* Whatever the address and the driver, the unit is fed the bytes in their  *)
(* order.                                                                   *)
LEMMA FedIs ==
    ASSUME crc_chip \in {"h7", "l4"}, NEW d \in Seq(Nat), NEW aligned \in BOOLEAN
    PROVE  Fed(d, aligned) = d
BY WordsH7Are, WordsL4Are DEF Fed

(* The bytes of a call are numbers of their own.                            *)
LEMMA DataIs ==
    ASSUME byte \in Nat, NEW n \in Nat
    PROVE  Data(n) \in Seq(Nat)
<1>1. Data(n) \in [1..n -> Nat]
  BY DEF Data
<1>. QED  BY <1>1

(* Giving the unit an initial value and bytes makes the register stand for  *)
(* them, and the context the one that has used it alone if the polynomial   *)
(* is its own.                                                              *)
LEMMA OwnedIs ==
    ASSUME NEW c, NEW x, NEW d \in Seq(Nat), c \in crc_initialized',
           DR' = [initial |-> x, fed |-> d], Owned(c, x, d)
    PROVE  \/ message' = Nobody
           \/ \E e \in crc_initialized' : \E b \in Seq(Nat) : \E y :
                 /\ message' = [ctx |-> e, initial |-> y, data |-> b]
                 /\ POL' = PolOf(e) /\ DR' = [initial |-> y, fed |-> b]
BY DEF Owned

(* Every call keeps the invariant.                                          *)
LEMMA CrcStep == CrcInv /\ [CrcNext]_crcVars => CrcInv'
<1>. SUFFICES ASSUME CrcInv, [CrcNext]_crcVars PROVE CrcInv'
  OBVIOUS
<1>1. CASE UNCHANGED crcVars
  BY <1>1 DEF crcVars, CrcInv
<1>2. ASSUME NEW c \in CrcContexts, InitCrc(c) PROVE CrcInv'
  <2>1. CASE ClockTaken
    <3>1. /\ crc_initialized' = crc_initialized \cup {c} /\ crc_chip' = crc_chip /\ byte' = byte
          /\ DR' = [initial |-> c.initial, fed |-> <<>>] /\ Owned(c, c.initial, <<>>)
      BY <1>2, <2>1 DEF InitCrc, CrcCall, Load
    <3>2. <<>> \in Seq(Nat)
      OBVIOUS
    <3>. QED  BY <1>2, <3>1, <3>2, OwnedIs DEF CrcInv
  <2>2. CASE ~ClockTaken
    BY <1>2, <2>2 DEF InitCrc, CrcCall, CrcInv
  <2>. QED  BY <2>1, <2>2
<1>3. ASSUME NEW c \in CrcContexts, NEW x, ResetCrcEx(c, x) PROVE CrcInv'
  <2>1. /\ crc_initialized' = crc_initialized /\ crc_chip' = crc_chip /\ byte' = byte
        /\ DR' = [initial |-> x, fed |-> <<>>] /\ Owned(c, x, <<>>) /\ c \in crc_initialized
    BY <1>3 DEF ResetCrcEx, CrcCall, Load
  <2>2. <<>> \in Seq(Nat)
    OBVIOUS
  <2>. QED  BY <2>1, <2>2, OwnedIs DEF CrcInv
<1>4. ASSUME NEW c \in CrcContexts, NEW n \in 0..MaxData, NEW aligned \in BOOLEAN,
             AppendData(c, n, aligned)
      PROVE  CrcInv'
  <2>1. /\ crc_initialized' = crc_initialized /\ crc_chip' = crc_chip /\ POL' = POL
        /\ DR' = [DR EXCEPT !.fed = @ \o Fed(Data(n), aligned)]
        /\ message' = IF message.ctx = c THEN [message EXCEPT !.data = @ \o Data(n)] ELSE Nobody
    BY <1>4 DEF AppendData, CrcCall
  <2>2. n \in Nat /\ byte \in Nat /\ byte' \in Nat
    BY <1>4, CrcAssumption DEF AppendData, CrcInv
  <2>3. Data(n) \in Seq(Nat) /\ Fed(Data(n), aligned) = Data(n)
    BY <2>2, DataIs, FedIs DEF CrcInv
  <2>4. CASE message.ctx = c
    <3>1. message # Nobody
      BY <1>4, <2>4, CrcAssumption DEF Nobody
    <3>2. PICK e \in crc_initialized : \E d \in Seq(Nat) : \E x :
              /\ message = [ctx |-> e, initial |-> x, data |-> d]
              /\ POL = PolOf(e) /\ DR = [initial |-> x, fed |-> d]
      BY <3>1 DEF CrcInv
    <3>3. PICK d \in Seq(Nat) : \E x :
              /\ message = [ctx |-> e, initial |-> x, data |-> d]
              /\ POL = PolOf(e) /\ DR = [initial |-> x, fed |-> d]
      BY <3>2
    <3>4. PICK x :
              /\ message = [ctx |-> e, initial |-> x, data |-> d]
              /\ POL = PolOf(e) /\ DR = [initial |-> x, fed |-> d]
      BY <3>3
    <3>. DEFINE b == d \o Data(n)
    <3>5. b \in Seq(Nat)
      BY <2>3, ConcatProperties
    <3>6. DR' = [initial |-> x, fed |-> b] /\ message' = [ctx |-> e, initial |-> x, data |-> b]
      BY <2>1, <2>3, <2>4, <3>4
    <3>. HIDE DEF b
    <3>7. POL' = PolOf(e)
      BY <2>1, <3>4
    <3>8. \E y : /\ message' = [ctx |-> e, initial |-> y, data |-> b]
                 /\ POL' = PolOf(e) /\ DR' = [initial |-> y, fed |-> b]
      BY <3>6, <3>7
    <3>9. e \in crc_initialized' /\ (CrcInv => crc_chip' \in {"h7", "l4"}
                                               /\ crc_initialized' \subseteq CrcContexts)
      BY <2>1 DEF CrcInv
    <3>. QED  BY <2>2, <3>5, <3>8, <3>9 DEF CrcInv
  <2>5. CASE message.ctx # c
    BY <2>1, <2>2, <2>5 DEF CrcInv
  <2>. QED  BY <2>4, <2>5
<1>5. ASSUME NEW c \in CrcContexts, NEW x, NEW n \in 0..MaxData, NEW aligned \in BOOLEAN,
             CalculateEx(c, x, n, aligned)
      PROVE  CrcInv'
  <2>1. /\ crc_initialized' = crc_initialized /\ crc_chip' = crc_chip /\ c \in crc_initialized
        /\ DR' = [initial |-> x, fed |-> Fed(Data(n), aligned)] /\ Owned(c, x, Data(n))
    BY <1>5 DEF CalculateEx, CrcCall
  <2>2. n \in Nat /\ byte \in Nat /\ byte' \in Nat
    BY <1>5, CrcAssumption DEF CalculateEx, CrcInv
  <2>3. Data(n) \in Seq(Nat) /\ Fed(Data(n), aligned) = Data(n)
    BY <2>2, DataIs, FedIs DEF CrcInv
  <2>. QED  BY <2>1, <2>2, <2>3, OwnedIs DEF CrcInv
<1>. QED  BY <1>1, <1>2, <1>3, <1>4, <1>5 DEF CrcNext, ResetCrc, Calculate

(* The value a context reads while it uses the unit alone is the CRC of the *)
(* bytes it appended, for messages of any length, cut and aligned in any    *)
(* way, on both drivers.                                                    *)
THEOREM CrcIsSame == CrcSpec => []CrcSame
<1>1. CrcInit => CrcInv
  BY DEF CrcInit, CrcInv
<1>2. CrcInv => CrcSame
  <2>. SUFFICES ASSUME CrcInv, message # Nobody, message.ctx.size \in {7, 8, 16, 32}
                PROVE  GetValue(message.ctx) =
                           [width |-> message.ctx.size,
                            pol |-> [coef |-> message.ctx.coef, size |-> message.ctx.size],
                            initial |-> message.initial, fed |-> message.data]
    BY DEF CrcSame
  <2>1. PICK c \in crc_initialized : \E d \in Seq(Nat) : \E x :
            /\ message = [ctx |-> c, initial |-> x, data |-> d]
            /\ POL = PolOf(c) /\ DR = [initial |-> x, fed |-> d]
    BY DEF CrcInv
  <2>2. c = message.ctx /\ DR.initial = message.initial /\ DR.fed = message.data
    BY <2>1
  <2>3. POL = [coef |-> c.coef, size |-> c.size]
    BY <2>1, <2>2 DEF PolOf, PolySize
  <2>. QED  BY <2>2, <2>3 DEF GetValue
<1>. QED  BY <1>1, <1>2, CrcStep, PTL DEF CrcSpec
================================================================================
