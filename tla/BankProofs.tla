------------------------------ MODULE BankProofs ------------------------------
(***************************************************************************)
(* Proofs about the source banks and the plant banks: for each kind an     *)
(* inductive invariant, one lemma per action that says the action keeps    *)
(* it, and what follows from it.                                           *)
(***************************************************************************)
EXTENDS PlantBank, SourceBank, FiniteSetTheorems, SequenceTheorems, TLAPS

-----------------------------------------------------------------------------
(***************************************************************************)
(* The source banks.  The runtime is set up once: gu_universal_prepare is  *)
(* called by run_patch (GTAIVProceduralPool.c 13874), which runs once, and *)
(* by gu_universal_install, which nothing calls.                           *)
(***************************************************************************)
Holding    == {"store", "unlease", "uncount_bank", "release"}  \* a lease in hand
Entering   == {"enter", "lease", "store", "unlease", "push"}   \* frame not recorded
Leaving    == {"uncount", "uncount_bank", "release"}           \* nor any more
Words      == [banks : Seq(SourceBanks), fallback : Nat]
Frames     == [locked : BOOLEAN, bank : SourceBanks \cup {StockArray, Unrecorded},
               storage : SourceBanks \cup {StockArray, Unused, Unrecorded}, count : Nat]

\* The installer: where it is says what of the runtime there is.
InstallerSound ==
  /\ progress \in {"idle", "initialized", "prepared", "active", "shutdown", "frames",
                   "scan", "close", "dirty"}
  /\ patched <=> progress = "active"
  /\ tls <=> progress \notin {"idle", "close"}
  /\ init_state = CASE progress = "idle" -> 0
                    [] progress \in {"frames", "scan", "close"} -> 3
                    [] OTHER -> 2
  /\ progress # "idle" => runtimes > 0
  /\ progress = "scan" => lease > 0

\* Until the sites are patched, nobody has come through them.
Fresh(s) == \A i \in 1 .. Len(s) : s[i].bank = Unrecorded /\ s[i].storage = Unused
Untouched ==
  /\ word = [t \in Scanners |-> NoFrames]
  /\ leases = [b \in SourceBanks |-> Unleased]
  /\ active_frames = 0
  /\ \A t \in Scanners : place[t] = "engine" /\ Fresh(scans[t])

Before == progress \in {"initialized", "prepared"} \/ runtimes = 0

\* A bank on the stack of thread t, or in its hand, is leased to it, and is
\* there once.
StackLeased(t, w, p, h, owner) ==
  LET s == w.banks IN
  /\ \A i \in 1 .. Len(s) : owner[s[i]] = t
  /\ \A i, j \in 1 .. Len(s) : i # j => s[i] # s[j]
  /\ p \in Holding => owner[h] = t /\ \A i \in 1 .. Len(s) : s[i] # h

\* While the shutdown looks, what a holder has is still ahead of it.
HoldersAhead ==
  progress \in {"frames", "scan"} =>
    \A t \in holders : /\ word[t].banks # <<>>
                       /\ progress = "scan" => lease <= word[t].banks[1]

\* One thread is inside the engine's lock, and its frames are from there on.
LockOrder(s) == \A i, j \in 1 .. Len(s) : i < j /\ s[i].locked => s[j].locked
LockSound ==
  /\ \A t, u \in Scanners : Locked(t) /\ Locked(u) => t = u
  /\ \A t \in Scanners : LockOrder(scans[t])

DepthSound == \A t \in Scanners :
  Len(scans[t]) <= MaxScans /\ (place[t] # "engine" => scans[t] # <<>>)

\* Describes, of the frames s and the word w of a thread.
Layered(s, b, o, m, n) ==   \* o frames outside, m with the banks b, then the stock
  \A i \in 1 .. n : s[i].bank =
    IF i <= o THEN Unrecorded ELSE IF i <= o + m THEN b[i - o] ELSE StockArray
Agrees(s, w, n) ==
  LET o == n - Len(w.banks) - w.fallback IN
  o >= 0 /\ Layered(s, w.banks, o, Len(w.banks), n)

\* While the sites are patched: the frames s, the word w and the place p of a
\* thread that has the bank h in hand; stored says that it has stored before.
Settled(s, p) == IF p \in Entering \cup Leaving THEN Len(s) - 1 ELSE Len(s)
StorageOf(f) == IF f.bank \in SourceBanks THEN f.bank ELSE StockArray
FrameSound(f, stored) ==
  /\ f.bank # Unrecorded => f.locked /\ stored
  /\ f.storage # Unused => f.storage = StorageOf(f) /\ f.count <= Limit(f.storage)
FramesSound(s, w, p, stored) ==
  /\ Agrees(s, w, Settled(s, p))
  /\ \A i \in 1 .. Len(s) : FrameSound(s[i], stored)
TopSound(s, w, p, h) ==
  LET top == s[Len(s)] IN
  /\ p # "engine" => s # <<>>
  /\ p \in Entering => top.bank = Unrecorded /\ top.storage = Unused
  /\ p \notin {"engine", "enter"} => top.locked
  /\ p \in {"lease", "store"} => w.fallback = 0
  /\ p = "count" => top.bank # Unrecorded
  /\ p = "uncount" => top.bank = StockArray
  /\ p \in {"uncount_bank", "release"} => top.bank = h
ScanSound(s, w, p, h, stored) == FramesSound(s, w, p, stored) /\ TopSound(s, w, p, h)

\* A leased bank is in the hand or on the stack of its thread.
Uses(b, w, p, h) == (p \in Holding /\ h = b) \/ \E i \in 1 .. Len(w.banks) : w.banks[i] = b

\* What the frame counter counts: the recorded frames, but for the one that is
\* about to be counted and the one that no longer is.
IsCounted(s, p, i) ==
  /\ i <= Len(s) /\ s[i].bank # Unrecorded
  /\ ~(i = Len(s) /\ p \in {"count", "release"})
Counted == {x \in Scanners \X (1 .. MaxScans) : IsCounted(scans[x[1]], place[x[1]], x[2])}

StacksSound == tls => \A t \in Scanners :
  StackLeased(t, word[t], place[t], hand[t], leases)
PatchedSound ==
  patched => /\ \A t \in Scanners :
                  ScanSound(scans[t], word[t], place[t], hand[t], t \in allotted)
             /\ \A b \in SourceBanks, t \in Scanners :
                  leases[b] = t => Uses(b, word[t], place[t], hand[t])
             /\ active_frames = Cardinality(Counted)

SourceSound ==
  /\ SourceTypeOK /\ InstallerSound /\ LockSound /\ DepthSound
  /\ Before => Untouched
  /\ StacksSound /\ HoldersAhead /\ PatchedSound

\* Sequences: what Front and Last give, and a last element replaced.
LEMMA Prefix ==
  ASSUME NEW S, NEW s \in Seq(S), NEW n \in Nat, n < Len(s)
  PROVE  /\ SubSeq(s, 1, n) \in Seq(S) /\ Len(SubSeq(s, 1, n)) = n
         /\ \A i \in 1 .. n : SubSeq(s, 1, n)[i] = s[i]
<1>1. \A i \in 1 .. n : s[i] \in S
  BY LenProperties, ElementOfSeq
<1>2. /\ SubSeq(s, 1, n) \in Seq(S)
      /\ Len(SubSeq(s, 1, n)) = IF 1 <= n THEN n - 1 + 1 ELSE 0
      /\ \A i \in 1 .. n - 1 + 1 : SubSeq(s, 1, n)[i] = s[1 + i - 1]
  BY <1>1, SubSeqProperties
<1> QED BY <1>2

LEMMA FrontAndLast ==
  ASSUME NEW S, NEW s \in Seq(S), s # <<>>
  PROVE  /\ Len(s) \in Nat \ {0}
         /\ Front(s) \in Seq(S) /\ Len(Front(s)) = Len(s) - 1
         /\ \A i \in 1 .. Len(s) - 1 : Front(s)[i] = s[i]
         /\ Last(s) \in S /\ Last(s) = s[Len(s)]
<1>1. Len(s) \in Nat \ {0}
  BY EmptySeq
<1>2. Front(s) = SubSeq(s, 1, Len(s) - 1) /\ Last(s) = s[Len(s)]
  BY DEF Front, Last
<1>3. Len(s) - 1 \in Nat /\ Len(s) - 1 < Len(s) /\ Len(s) \in 1 .. Len(s)
  BY <1>1
<1>4. /\ SubSeq(s, 1, Len(s) - 1) \in Seq(S) /\ Len(SubSeq(s, 1, Len(s) - 1)) = Len(s) - 1
      /\ \A i \in 1 .. Len(s) - 1 : SubSeq(s, 1, Len(s) - 1)[i] = s[i]
  BY <1>3, Prefix
<1>5. s[Len(s)] \in S
  BY <1>3, ElementOfSeq
<1> QED BY <1>1, <1>2, <1>4, <1>5

LEMMA TopReplaced ==
  ASSUME NEW S, NEW s \in Seq(S), s # <<>>, NEW e \in S
  PROVE  LET r == [s EXCEPT ![Len(s)] = e] IN
         /\ r \in Seq(S) /\ r # <<>> /\ Len(r) = Len(s) /\ r[Len(s)] = e
         /\ \A i \in 1 .. Len(s) - 1 : r[i] = s[i]
<1>1. Len(s) \in Nat \ {0}
  BY EmptySeq
<1> QED BY <1>1, ExceptSeq

LEMMA Appended ==
  ASSUME NEW S, NEW s \in Seq(S), NEW e \in S
  PROVE  LET r == Append(s, e) IN
         /\ r \in Seq(S) /\ r # <<>> /\ Len(r) = Len(s) + 1 /\ r[Len(s) + 1] = e
         /\ \A i \in 1 .. Len(s) : r[i] = s[i]
BY AppendProperties

\* Stacks that agree with a word: a frame that is recorded goes on top of the
\* word, and a frame that leaves comes off its top.
LEMMA LayerOfStock ==
  ASSUME NEW s, NEW b, NEW o \in Nat, NEW m \in Nat, NEW n \in Nat, o + m <= n
  PROVE  /\ Layered(s, b, o, m, n + 1) <=>
               Layered(s, b, o, m, n) /\ s[n + 1].bank = StockArray
         /\ \A r : (\A i \in 1 .. n : r[i].bank = s[i].bank) =>
               (Layered(r, b, o, m, n) <=> Layered(s, b, o, m, n))
BY DEF Layered

\* What the stack and the word of a thread are made of.
LEMMA WordParts ==
  ASSUME NEW w \in Words
  PROVE  /\ w.banks \in Seq(SourceBanks) /\ w.fallback \in Nat /\ Len(w.banks) \in Nat
         /\ \A i \in 1 .. Len(w.banks) : w.banks[i] \in SourceBanks
         /\ Len(w.banks) = 0 <=> w.banks = <<>>
BY LenProperties, ElementOfSeq, EmptySeq DEF Words

LEMMA AgreesWithBank ==
  ASSUME NEW s, NEW r, NEW w \in Words, NEW v \in Words, NEW h \in SourceBanks,
         NEW n \in Nat, Agrees(s, w, n), w.fallback = 0,
         v.banks = Append(w.banks, h), v.fallback = 0,
         \A i \in 1 .. n : r[i] = s[i], r[n + 1].bank = h
  PROVE  Agrees(r, v, n + 1)
<1>1. PICK m \in Nat : m = Len(w.banks)
  BY WordParts
<1>2. Len(v.banks) = m + 1 /\ v.banks[m + 1] = h /\ \A i \in 1 .. m : v.banks[i] = w.banks[i]
  BY <1>1, WordParts, Appended
<1>3. PICK o \in Nat : o = n - m /\ n = o + m /\ Layered(s, w.banks, o, m, n)
  BY <1>1 DEF Agrees
<1>0. m \in Nat /\ o \in Nat /\ n \in Nat /\ n = o + m
  BY <1>1, <1>3
<1>4. Layered(r, v.banks, o, m + 1, n + 1)
  <2> SUFFICES ASSUME NEW i \in 1 .. n + 1
               PROVE  r[i].bank = IF i <= o THEN Unrecorded
                                  ELSE IF i <= o + (m + 1) THEN v.banks[i - o] ELSE StockArray
    BY DEF Layered
  <2>1. CASE i = n + 1
    <3>1. i - o = m + 1 /\ ~(i <= o) /\ i <= o + (m + 1)
      BY ONLY <1>0, <2>1
    <3> QED BY <1>2, <2>1, <3>1
  <2>2. CASE i <= o
    <3>1. i \in 1 .. n
      BY <1>1, <1>3, <2>2
    <3> QED BY <1>3, <2>2, <3>1 DEF Layered
  <2>3. CASE i > o /\ i <= n
    <3>1. i - o \in 1 .. m /\ i \in 1 .. n /\ i <= o + m /\ i <= o + (m + 1) /\ ~(i <= o)
      BY <1>1, <1>3, <2>3
    <3> QED BY <1>2, <1>3, <3>1 DEF Layered
  <2> QED BY <1>1, <1>3, <2>1, <2>2, <2>3
<1>5. (n + 1) - Len(v.banks) - v.fallback = o
  BY <1>2, <1>3
<1>6. o >= 0
  BY <1>0
<1>7. Layered(r, v.banks, o, Len(v.banks), n + 1)
  BY <1>1, <1>2, <1>4
<1> QED BY ONLY <1>5, <1>6, <1>7 DEF Agrees

LEMMA AgreesLessBank ==
  ASSUME NEW s, NEW w \in Words, NEW v \in Words, NEW n \in Nat, Agrees(s, w, n),
         w.fallback = 0, w.banks # <<>>, v.banks = Front(w.banks), v.fallback = 0
  PROVE  n # 0 /\ Agrees(s, v, n - 1) /\ s[n].bank = Last(w.banks)
<1>1. PICK m \in Nat : m = Len(w.banks)
  BY WordParts
<1>b. w.banks \in Seq(SourceBanks) /\ w.banks # <<>>
  BY WordParts
<1>2. /\ Len(v.banks) = m - 1 /\ m # 0 /\ Last(w.banks) = w.banks[m]
      /\ \A i \in 1 .. m - 1 : v.banks[i] = w.banks[i]
  BY <1>1, <1>b, FrontAndLast
<1>3. PICK o \in Nat : o = n - m /\ n = o + m /\ Layered(s, w.banks, o, m, n)
  BY <1>1 DEF Agrees
<1>0. m \in Nat /\ o \in Nat /\ n \in Nat /\ n = o + m
  BY <1>1, <1>3
<1>4. Layered(s, v.banks, o, m - 1, n - 1) /\ s[n].bank = w.banks[m]
  <2>1. \A i \in 1 .. n - 1 : s[i].bank =
          IF i <= o THEN Unrecorded ELSE IF i <= o + (m - 1) THEN v.banks[i - o] ELSE StockArray
    <3> TAKE i \in 1 .. n - 1
    <3>1. CASE i <= o
      <4>1. i \in 1 .. n /\ i <= o
        BY ONLY <1>0, <3>1, i \in 1 .. n - 1
      <4> QED BY <1>3, <4>1 DEF Layered
    <3>2. CASE i > o
      <4>1. i - o \in 1 .. m - 1 /\ i \in 1 .. n /\ i <= o + m /\ i <= o + (m - 1) /\ ~(i <= o)
        BY <1>1, <1>3, <3>2
      <4> QED BY <1>2, <1>3, <4>1 DEF Layered
    <3> QED BY <1>1, <1>3, <3>1, <3>2
  <2>2. n \in 1 .. n /\ n - o = m /\ ~(n <= o) /\ n <= o + m
    BY <1>1, <1>2, <1>3
  <2> QED BY <1>3, <2>1, <2>2 DEF Layered
<1>5. n - 1 - Len(v.banks) - v.fallback = o
  BY <1>2, <1>3
<1>6. o >= 0
  BY <1>0
<1>7. Layered(s, v.banks, o, Len(v.banks), n - 1)
  BY <1>1, <1>2, <1>4
<1>8. n # 0 /\ s[n].bank = Last(w.banks)
  BY <1>0, <1>2, <1>4
<1> QED BY ONLY <1>5, <1>6, <1>7, <1>8 DEF Agrees

LEMMA AgreesWithStock ==
  ASSUME NEW s, NEW r, NEW w \in Words, NEW v \in Words, NEW n \in Nat, Agrees(s, w, n),
         v.banks = w.banks, v.fallback = w.fallback + 1,
         \A i \in 1 .. n : r[i] = s[i], r[n + 1].bank = StockArray
  PROVE  Agrees(r, v, n + 1)
<1>1. PICK m \in Nat, f \in Nat : m = Len(w.banks) /\ f = w.fallback
  BY WordParts
<1>2. PICK o \in Nat : o = n - m - f /\ n = o + m + f /\ Layered(s, w.banks, o, m, n)
  BY <1>1 DEF Agrees
<1>0. m \in Nat /\ o \in Nat /\ f \in Nat /\ n \in Nat /\ n = o + m + f
  BY <1>1, <1>2
<1>4. Layered(r, w.banks, o, m, n + 1)
  <2>1. o + m <= n
    BY <1>2
  <2>2. Layered(r, w.banks, o, m, n)
    BY <1>2 DEF Layered
  <2> QED BY <2>1, <2>2, LayerOfStock
<1>5. (n + 1) - Len(v.banks) - v.fallback = o
  <2>1. Len(v.banks) = m /\ v.fallback = f + 1
    BY <1>1
  <2> QED BY ONLY <1>0, <2>1
<1>6. o >= 0
  BY <1>0
<1>7. Layered(r, v.banks, o, Len(v.banks), n + 1)
  BY <1>1, <1>2, <1>4
<1> QED BY ONLY <1>5, <1>6, <1>7 DEF Agrees

LEMMA AgreesLessStock ==
  ASSUME NEW s, NEW w \in Words, NEW v \in Words, NEW n \in Nat, Agrees(s, w, n),
         w.fallback # 0, v.banks = w.banks, v.fallback = w.fallback - 1
  PROVE  n # 0 /\ Agrees(s, v, n - 1) /\ s[n].bank = StockArray
<1>1. PICK m \in Nat, f \in Nat \ {0} : m = Len(w.banks) /\ f = w.fallback
  BY WordParts
<1>2. PICK o \in Nat : o = n - m - f /\ n = o + m + f /\ Layered(s, w.banks, o, m, n)
  BY <1>1 DEF Agrees
<1>0. m \in Nat /\ o \in Nat /\ f \in Nat /\ n \in Nat /\ n = o + m + f
  BY <1>1, <1>2
<1>3. n - 1 \in Nat /\ o + m <= n - 1 /\ n - 1 + 1 = n
  BY <1>2
<1>4. Layered(s, w.banks, o, m, n - 1) /\ s[n].bank = StockArray
  <2>1. Layered(s, w.banks, o, m, n - 1 + 1)
    BY <1>2, <1>3
  <2> QED BY <1>3, <2>1, LayerOfStock
<1>5. n - 1 - Len(v.banks) - v.fallback = o
  <2>1. Len(v.banks) = m /\ v.fallback = f - 1
    BY <1>1
  <2> QED BY <1>2, <2>1
<1>6. o >= 0
  BY <1>0
<1>7. Layered(s, v.banks, o, Len(v.banks), n - 1)
  BY <1>1, <1>2, <1>4
<1>8. n # 0 /\ s[n].bank = StockArray
  BY <1>0, <1>1, <1>4
<1> QED BY ONLY <1>5, <1>6, <1>7, <1>8 DEF Agrees

LEMMA AgreesOnPrefix ==
  ASSUME NEW s, NEW r, NEW w, NEW n, Agrees(s, w, n), \A i \in 1 .. n : r[i].bank = s[i].bank
  PROVE  Agrees(r, w, n)
BY DEF Agrees, Layered

\* Frames the word does not hold: all of them, exactly when it holds none.
LEMMA AgreesUnrecorded ==
  ASSUME NEW s, NEW w \in Words, NEW n \in Nat, Agrees(s, w, n)
  PROVE  (\A i \in 1 .. n : s[i].bank = Unrecorded) <=> w = NoFrames
<1>1. PICK m \in Nat, f \in Nat : m = Len(w.banks) /\ f = w.fallback
  BY WordParts
<1>2. PICK o \in Nat : o = n - m - f /\ n = o + m + f /\ Layered(s, w.banks, o, m, n)
  BY <1>1 DEF Agrees
<1>0. m \in Nat /\ o \in Nat /\ f \in Nat /\ n \in Nat /\ n = o + m + f
  BY <1>1, <1>2
<1>3. \A i \in 1 .. m : w.banks[i] # Unrecorded
  BY <1>1, WordParts DEF SourceBanks, Unrecorded
<1>4. (\A i \in 1 .. n : s[i].bank = Unrecorded) <=> m = 0 /\ f = 0
  <2>1. CASE f # 0
    <3>1. n \in 1 .. n /\ ~(n <= o) /\ ~(n <= o + m)
      BY ONLY <1>0, <2>1
    <3> QED BY <1>2, <2>1, <3>1 DEF Layered, StockArray, Unrecorded
  <2>2. CASE m # 0
    <3>1. o + m \in 1 .. n /\ m \in 1 .. m /\ ~(o + m <= o) /\ o + m <= o + m /\ o + m - o = m
      BY ONLY <1>0, <2>2
    <3>2. s[o + m].bank = w.banks[m]
      BY <1>2, <3>1 DEF Layered
    <3> QED BY <1>3, <2>2, <3>1, <3>2
  <2>3. CASE m = 0 /\ f = 0
    <3>1. \A i \in 1 .. n : i <= o
      BY <1>1, <1>2, <2>3
    <3> QED BY <1>2, <2>3, <3>1 DEF Layered
  <2> QED BY <2>1, <2>2, <2>3
<1>5. m = 0 /\ f = 0 <=> w = NoFrames
  BY <1>1, WordParts DEF Words, NoFrames
<1> QED BY <1>4, <1>5

LEMMA AgreesWithNone ==
  ASSUME NEW s, NEW n \in Nat
  PROVE  Agrees(s, NoFrames, n) <=> \A i \in 1 .. n : s[i].bank = Unrecorded
<1>1. NoFrames.banks = <<>> /\ NoFrames.fallback = 0 /\ Len(<<>>) = 0
  BY DEF NoFrames
<1> QED BY <1>1 DEF Agrees, Layered

-----------------------------------------------------------------------------
\* A step of thread t touches nothing of the others, nor their leases.
LocalStep(t) ==
  /\ \A u \in Scanners \ {t} : /\ place'[u] = place[u] /\ hand'[u] = hand[u]
                               /\ scans'[u] = scans[u] /\ word'[u] = word[u]
  /\ allotted' = allotted \/ allotted' = allotted \cup {t}
  /\ \A b \in SourceBanks : \/ leases'[b] = leases[b]
                            \/ {leases[b], leases'[b]} = {t, Unleased}
  /\ UNCHANGED <<readiness, installing>>

\* It keeps the lock to one thread, and its frames in their order.
LockStep(t) ==
  /\ LockOrder(scans'[t])
  /\ Locked(t)' => Locked(t) \/ \A u \in Scanners \ {t} : ~Locked(u)
  /\ Len(scans'[t]) <= MaxScans /\ (place'[t] # "engine" => scans'[t] # <<>>)

FreshStep(t) ==
  Before => /\ word'[t] = word[t] /\ leases' = leases /\ active_frames' = active_frames
            /\ place'[t] = "engine" /\ Fresh(scans'[t])

\* The bank of its outermost frame stays while the shutdown looks.
BottomStep(t) ==
  init_state = 3 /\ word[t].banks # <<>> =>
    word'[t].banks # <<>> /\ word'[t].banks[1] = word[t].banks[1]

PatchedStep(t) ==
  patched => /\ ScanSound(scans'[t], word'[t], place'[t], hand'[t], t \in allotted')
             /\ \A b \in SourceBanks : leases'[b] = t => Uses(b, word'[t], place'[t], hand'[t])
             /\ active_frames' = Cardinality(Counted')

LEMMA SourceTypes ==
  ASSUME SourceTypeOK, NEW t \in Scanners
  PROVE  /\ word[t] \in Words /\ scans[t] \in Seq(Frames)
         /\ place[t] \in ScanPlaces /\ hand[t] \in SourceBanks
         /\ word[t].banks \in Seq(SourceBanks) /\ word[t].fallback \in Nat
         /\ Len(scans[t]) \in Nat /\ Len(word[t].banks) \in Nat
         /\ \A i \in 1 .. Len(scans[t]) : scans[t][i] \in Frames
         /\ \A i \in 1 .. Len(word[t].banks) : word[t].banks[i] \in SourceBanks
<1>1. /\ word[t] \in Words /\ scans[t] \in Seq(Frames)
      /\ place[t] \in ScanPlaces /\ hand[t] \in SourceBanks
  BY DEF SourceTypeOK, Words, Frames
<1> QED BY <1>1, WordParts, ElementOfSeq, LenProperties

LEMMA LockKept ==
  ASSUME NEW t \in Scanners, LockSound, LocalStep(t), LockStep(t)
  PROVE  LockSound'
<1>1. \A u \in Scanners \ {t} : Locked(u)' => Locked(u)
  BY DEF LocalStep, Locked
<1>2. ASSUME NEW u \in Scanners, NEW v \in Scanners, Locked(u)', Locked(v)', u # v
      PROVE  FALSE
  <2>1. CASE u # t /\ v # t
    BY <1>1, <1>2, <2>1 DEF LockSound
  <2>2. CASE u = t
    BY <1>1, <1>2, <2>2 DEF LockSound, LockStep
  <2>3. CASE v = t
    BY <1>1, <1>2, <2>3 DEF LockSound, LockStep
  <2> QED BY <2>1, <2>2, <2>3
<1>3. \A u \in Scanners : LockOrder(scans'[u])
  BY DEF LockSound, LockStep, LocalStep
<1>4. \A u, v \in Scanners : Locked(u)' /\ Locked(v)' => u = v
  BY <1>2
<1> QED BY <1>3, <1>4 DEF LockSound

LEMMA UntouchedKept ==
  ASSUME NEW t \in Scanners, SourceTypeOK', Untouched, LocalStep(t), FreshStep(t), Before
  PROVE  Untouched'
<1>1. word' = [u \in Scanners |-> NoFrames]
  <2>1. \A u \in Scanners : word'[u] = NoFrames
    BY DEF Untouched, LocalStep, FreshStep
  <2>2. word' = [u \in Scanners |-> word'[u]]
    BY DEF SourceTypeOK
  <2> QED BY <2>1, <2>2
<1>2. \A u \in Scanners : place'[u] = "engine" /\ Fresh(scans'[u])
  BY DEF Untouched, LocalStep, FreshStep
<1> QED BY <1>1, <1>2 DEF Untouched, FreshStep

LEMMA StackOfOther ==
  ASSUME NEW t \in Scanners, NEW u \in Scanners, u # t, LocalStep(t), SourceTypeOK,
         StackLeased(u, word[u], place[u], hand[u], leases)
  PROVE  StackLeased(u, word'[u], place'[u], hand'[u], leases')
<1>1. \A b \in SourceBanks : leases[b] = u => leases'[b] = u
  BY SourceAssumption DEF LocalStep
<1>2. /\ hand[u] \in SourceBanks
      /\ \A i \in 1 .. Len(word[u].banks) : word[u].banks[i] \in SourceBanks
  BY SourceTypes
<1> QED BY <1>1, <1>2 DEF StackLeased, LocalStep

LEMMA HoldersKept ==
  ASSUME NEW t \in Scanners, SourceTypeOK, InstallerSound, HoldersAhead, LocalStep(t),
         BottomStep(t)
  PROVE  HoldersAhead'
<1>1. UNCHANGED <<progress, holders, lease>>
  BY DEF LocalStep, installing
<1>2. ASSUME progress \in {"frames", "scan"}, NEW u \in holders
      PROVE  /\ word'[u].banks # <<>>
             /\ progress = "scan" => lease <= word'[u].banks[1]
  <2>1. init_state = 3 /\ u \in Scanners
    BY <1>2 DEF InstallerSound, SourceTypeOK
  <2>2. CASE u = t
    BY <1>2, <2>1, <2>2 DEF HoldersAhead, BottomStep
  <2>3. CASE u # t
    BY <1>2, <2>1, <2>3 DEF HoldersAhead, LocalStep
  <2> QED BY <2>2, <2>3
<1> QED BY <1>1, <1>2 DEF HoldersAhead

LEMMA ThreadKeeps ==
  ASSUME NEW t \in Scanners, SourceSound, SourceTypeOK', LocalStep(t), LockStep(t),
         FreshStep(t), BottomStep(t), PatchedStep(t),
         tls => StackLeased(t, word'[t], place'[t], hand'[t], leases')
  PROVE  SourceSound'
<1> USE DEF SourceSound
<1>1. InstallerSound'
  BY DEF InstallerSound, LocalStep, readiness, installing
<1>2. LockSound'
  BY LockKept
<1>3. DepthSound'
  BY DEF DepthSound, LocalStep, LockStep
<1>4. Before' => Untouched'
  <2>1. Before' <=> Before
    BY DEF Before, LocalStep, installing
  <2> QED BY <2>1, UntouchedKept
<1>5. StacksSound'
  <2>1. tls' = tls
    BY DEF LocalStep, readiness
  <2>2. ASSUME tls, NEW u \in Scanners
        PROVE  StackLeased(u, word'[u], place'[u], hand'[u], leases')
    <3>1. StackLeased(u, word[u], place[u], hand[u], leases)
      BY <2>2 DEF StacksSound
    <3> QED BY <2>2, <3>1, StackOfOther
  <2> QED BY <2>1, <2>2 DEF StacksSound
<1>6. HoldersAhead'
  BY HoldersKept
<1>7. PatchedSound'
  <2>1. patched' = patched
    BY DEF LocalStep, installing
  <2>2. ASSUME patched, NEW u \in Scanners, u # t
        PROVE  /\ ScanSound(scans'[u], word'[u], place'[u], hand'[u], u \in allotted')
               /\ \A b \in SourceBanks : leases'[b] = u => Uses(b, word'[u], place'[u], hand'[u])
    <3>1. /\ ScanSound(scans[u], word[u], place[u], hand[u], u \in allotted)
          /\ \A b \in SourceBanks : leases[b] = u => Uses(b, word[u], place[u], hand[u])
      BY <2>2 DEF PatchedSound
    <3>2. /\ scans'[u] = scans[u] /\ word'[u] = word[u] /\ place'[u] = place[u]
          /\ hand'[u] = hand[u] /\ (u \in allotted' <=> u \in allotted)
      BY <2>2 DEF LocalStep
    <3>3. \A b \in SourceBanks : leases'[b] = u => leases[b] = u
      BY <2>2, SourceAssumption DEF LocalStep
    <3>4. ScanSound(scans'[u], word'[u], place'[u], hand'[u], u \in allotted')
      BY <3>1, <3>2 DEF ScanSound, FramesSound, FrameSound
    <3> QED BY <3>1, <3>2, <3>3, <3>4
  <2> QED BY <2>1, <2>2 DEF PatchedSound, PatchedStep
<1> QED BY <1>1, <1>2, <1>3, <1>4, <1>5, <1>6, <1>7

\* The frames that are counted: finitely many, and a step of t changes them by
\* one of its own or not at all.
LEMMA CountedFinite ==
  IsFiniteSet(Counted) /\ Cardinality(Counted) \in Nat
<1>1. IsFiniteSet(Scanners \X (1 .. MaxScans))
  <2>1. IsFiniteSet(Scanners) /\ 1 \in Int /\ MaxScans \in Int
    BY SourceAssumption
  <2>2. IsFiniteSet(1 .. MaxScans)
    BY <2>1, FS_Interval
  <2> QED BY <2>1, <2>2, FS_Product
<1>2. Counted \subseteq Scanners \X (1 .. MaxScans)
  BY DEF Counted
<1> QED BY <1>1, <1>2, FS_Subset, FS_CardinalityType

LEMMA CountedStays ==
  ASSUME NEW t \in Scanners, LocalStep(t),
         \A i \in 1 .. MaxScans :
            IsCounted(scans'[t], place'[t], i) <=> IsCounted(scans[t], place[t], i)
  PROVE  Counted' = Counted
<1>1. \A u \in Scanners, i \in 1 .. MaxScans :
        IsCounted(scans'[u], place'[u], i) <=> IsCounted(scans[u], place[u], i)
  BY DEF LocalStep
<1> QED BY <1>1 DEF Counted

LEMMA CountedMore ==
  ASSUME NEW t \in Scanners, LocalStep(t), NEW n \in 1 .. MaxScans,
         ~IsCounted(scans[t], place[t], n),
         \A i \in 1 .. MaxScans : IsCounted(scans'[t], place'[t], i) <=>
                                  i = n \/ IsCounted(scans[t], place[t], i)
  PROVE  Cardinality(Counted') = Cardinality(Counted) + 1
<1>1. \A u \in Scanners, i \in 1 .. MaxScans :
        IsCounted(scans'[u], place'[u], i) <=>
          (u = t /\ i = n) \/ IsCounted(scans[u], place[u], i)
  BY DEF LocalStep
<1>2. Counted' = Counted \cup {<<t, n>>} /\ <<t, n>> \notin Counted
  BY <1>1 DEF Counted
<1> QED BY <1>2, CountedFinite, FS_AddElement

LEMMA CountedLess ==
  ASSUME NEW t \in Scanners, LocalStep(t), NEW n \in 1 .. MaxScans,
         IsCounted(scans[t], place[t], n),
         \A i \in 1 .. MaxScans : IsCounted(scans'[t], place'[t], i) <=>
                                  i # n /\ IsCounted(scans[t], place[t], i)
  PROVE  Cardinality(Counted') = Cardinality(Counted) - 1
<1>1. \A u \in Scanners, i \in 1 .. MaxScans :
        IsCounted(scans'[u], place'[u], i) <=>
          ~(u = t /\ i = n) /\ IsCounted(scans[u], place[u], i)
  BY DEF LocalStep
<1>2. Counted' = Counted \ {<<t, n>>} /\ <<t, n>> \in Counted
  BY <1>1 DEF Counted
<1> QED BY <1>2, CountedFinite, FS_RemoveElement

-----------------------------------------------------------------------------
\* What the invariant says of a thread.
LEMMA OfThread ==
  ASSUME SourceSound, NEW t \in Scanners
  PROVE  /\ LockOrder(scans[t]) /\ Len(scans[t]) <= MaxScans
         /\ place[t] # "engine" => scans[t] # <<>>
         /\ tls => StackLeased(t, word[t], place[t], hand[t], leases)
         /\ patched => /\ ScanSound(scans[t], word[t], place[t], hand[t], t \in allotted)
                       /\ init_state = 2 /\ tls /\ ~Before
         /\ Before => ~patched /\ place[t] = "engine" /\ Fresh(scans[t])
BY DEF SourceSound, LockSound, DepthSound, StacksSound, PatchedSound, InstallerSound,
   Before, Untouched

\* A thread goes from one place to another with its frames, its word and its
\* lease as they are.
LEMMA PlaceTyped ==
  ASSUME SourceTypeOK, NEW t \in Scanners, NEW p \in ScanPlaces, Move(t, p)
  PROVE  /\ place' \in [Scanners -> ScanPlaces] /\ place'[t] = p
         /\ \A u \in Scanners \ {t} : place'[u] = place[u]
BY DEF SourceTypeOK, Move

LEMMA UnlockedUnrecorded ==
  ASSUME NEW s \in Seq(Frames), s # <<>>, LockOrder(s), ~Last(s).locked,
         NEW w, NEW p, NEW a, FramesSound(s, w, p, a)
  PROVE  \A i \in 1 .. Len(s) : s[i].bank = Unrecorded
<1>1. Len(s) \in Nat \ {0} /\ Last(s) = s[Len(s)]
  BY FrontAndLast
<1>2. \A i \in 1 .. Len(s) : s[i].locked => s[Len(s)].locked
  BY <1>1 DEF LockOrder
<1> QED BY <1>1, <1>2 DEF FramesSound, FrameSound

\* A stack with a frame less, or with one more on top.
LEMMA OrderOfPrefix ==
  ASSUME NEW s, NEW r, NEW n, LockOrder(s), Len(r) <= Len(s), Len(s) \in Nat, Len(r) \in Nat,
         \A i \in 1 .. Len(r) : r[i].locked = s[i].locked
  PROVE  LockOrder(r)
BY DEF LockOrder

LEMMA CallScannerKept ==
  ASSUME SourceSound, NEW t \in Scanners, NEW locked \in BOOLEAN, CallScanner(t, locked)
  PROVE  SourceSound'
<1> DEFINE s == scans[t]
           f == Frame(locked)
           r == Append(s, f)
<1>1. SourceTypeOK
  BY DEF SourceSound
<1>2. s \in Seq(Frames) /\ Len(s) \in Nat /\ f \in Frames
  BY <1>1, SourceTypes DEF Frames, Frame
<1>3. /\ r \in Seq(Frames) /\ r # <<>> /\ Len(r) = Len(s) + 1 /\ r[Len(s) + 1] = f
      /\ \A i \in 1 .. Len(s) : r[i] = s[i]
  BY <1>2, Appended
<1>4. /\ place[t] = "engine" /\ Len(s) < MaxScans
      /\ (locked => \A u \in Scanners \ {t} : ~Locked(u)) /\ (~locked => ~Locked(t))
      /\ scans' = [scans EXCEPT ![t] = r]
      /\ UNCHANGED <<init_state, tls, word, allotted, leases, active_frames, hand, progress,
                     lease, patched, runtimes, holders>>
      /\ IF patched THEN Move(t, "enter") ELSE UNCHANGED place
  BY DEF CallScanner, readiness, records, installing
<1>5. scans' \in [Scanners -> Seq(Frames)] /\ scans'[t] = r
      /\ \A u \in Scanners \ {t} : scans'[u] = scans[u]
  BY <1>1, <1>2, <1>3, <1>4 DEF SourceTypeOK, Frames
<1>6. /\ place' \in [Scanners -> ScanPlaces]
      /\ place'[t] = IF patched THEN "enter" ELSE "engine"
      /\ \A u \in Scanners \ {t} : place'[u] = place[u]
  BY <1>1, <1>4, PlaceTyped DEF SourceTypeOK, ScanPlaces
<1>7. SourceTypeOK'
  BY <1>1, <1>4, <1>5, <1>6 DEF SourceTypeOK, Frames
<1>8. LocalStep(t)
  BY <1>4, <1>5, <1>6 DEF LocalStep, readiness, installing
<1>9. /\ f.locked = locked /\ f.bank = Unrecorded /\ f.storage = Unused
  BY DEF Frame
<1> HIDE DEF s, f, r
<1>10. LockStep(t)
  <2>1. LockOrder(r)
    <3> SUFFICES ASSUME NEW i \in 1 .. Len(r), NEW j \in 1 .. Len(r), i < j, r[i].locked
                 PROVE  r[j].locked
      BY DEF LockOrder
    <3>1. i \in 1 .. Len(s) /\ s[i].locked
      BY <1>2, <1>3
    <3>2. CASE j = Len(s) + 1
      <4>1. Locked(t)
        BY <3>1 DEF Locked, s
      <4> QED BY <1>3, <1>4, <1>9, <3>2, <4>1
    <3>3. CASE j # Len(s) + 1
      <4>1. j \in 1 .. Len(s)
        BY <1>2, <1>3, <3>3
      <4> QED BY <1>3, <3>1, <4>1, OfThread DEF LockOrder, s
    <3> QED BY <3>2, <3>3
  <2>2. ASSUME Locked(t)', ~locked
        PROVE  FALSE
    <3>1. PICK i \in 1 .. Len(r) : r[i].locked
      BY <1>5, <2>2 DEF Locked
    <3>2. i # Len(s) + 1
      BY <1>3, <1>9, <2>2, <3>1
    <3>3. i \in 1 .. Len(s) /\ s[i].locked
      BY <1>2, <1>3, <3>1, <3>2
    <3> QED BY <1>4, <2>2, <3>3 DEF Locked, s
  <2> QED BY <1>2, <1>3, <1>4, <1>5, <2>1, <2>2, SourceAssumption DEF LockStep
<1>11. FreshStep(t)
  BY <1>2, <1>3, <1>4, <1>5, <1>6, <1>9, OfThread DEF FreshStep, Fresh, s
<1>12. BottomStep(t)
  BY <1>4 DEF BottomStep
<1>13. tls => StackLeased(t, word'[t], place'[t], hand'[t], leases')
  BY <1>4, <1>6, OfThread DEF StackLeased, Holding
<1>14. ASSUME patched
       PROVE  PatchedStep(t)
  <2>1. ScanSound(s, word[t], "engine", hand[t], t \in allotted)
    BY <1>4, <1>14, OfThread DEF s
  <2>2. Settled(s, "engine") = Len(s) /\ Settled(r, "enter") = Len(s)
    BY <1>2, <1>3 DEF Settled, Entering, Leaving
  <2>3. Agrees(r, word[t], Len(s))
    BY <1>3, <2>1, <2>2, AgreesOnPrefix DEF ScanSound, FramesSound
  <2>4. \A i \in 1 .. Len(r) : FrameSound(r[i], t \in allotted)
    <3>1. FrameSound(f, t \in allotted)
      BY <1>9 DEF FrameSound
    <3>2. \A i \in 1 .. Len(s) : FrameSound(s[i], t \in allotted)
      BY <2>1 DEF ScanSound, FramesSound
    <3> QED BY <1>2, <1>3, <3>1, <3>2
  <2>5. ScanSound(r, word[t], "enter", hand[t], t \in allotted)
    BY <1>2, <1>3, <1>9, <2>2, <2>3, <2>4
       DEF ScanSound, FramesSound, TopSound, Entering
  <2>6. \A b \in SourceBanks : leases'[b] = t => Uses(b, word'[t], place'[t], hand'[t])
    BY <1>1, <1>4, <1>14 DEF SourceSound, PatchedSound, Uses, Holding
  <2>7. Counted' = Counted
    <3>1. \A i \in 1 .. MaxScans : IsCounted(r, "enter", i) <=> IsCounted(s, "engine", i)
      BY <1>2, <1>3, <1>9 DEF IsCounted
    <3> QED BY <1>4, <1>5, <1>6, <1>8, <1>14, <3>1, CountedStays DEF s
  <2> QED BY <1>4, <1>5, <1>6, <1>14, <2>5, <2>6, <2>7 DEF PatchedStep, SourceSound, PatchedSound
<1>15. PatchedStep(t)
  BY <1>14 DEF PatchedStep
<1> QED BY <1>7, <1>8, <1>10, <1>11, <1>12, <1>13, <1>15, ThreadKeeps

\* A thread that is left with the frames r, the word w, the bank h in hand and
\* at the place p, of what it had.
ThreadStep(t, r, w, p, h) ==
  /\ scans' = [scans EXCEPT ![t] = r] /\ word' = [word EXCEPT ![t] = w]
  /\ place' = [place EXCEPT ![t] = p] /\ hand' = [hand EXCEPT ![t] = h]
  /\ UNCHANGED <<readiness, installing>>
LeaseStep(t) ==
  /\ leases' \in [SourceBanks -> Scanners \cup {Unleased}]
  /\ \A b \in SourceBanks : \/ leases'[b] = leases[b]
                            \/ {leases[b], leases'[b]} = {t, Unleased}

LEMMA Assemble ==
  ASSUME SourceSound, NEW t \in Scanners, NEW r \in Seq(Frames), NEW w \in Words,
         NEW p \in ScanPlaces, NEW h \in SourceBanks,
         ThreadStep(t, r, w, p, h), LeaseStep(t), active_frames' \in Int,
         allotted' = allotted \/ allotted' = allotted \cup {t},
         Len(r) <= Len(scans[t]), p # "engine" => r # <<>>,
         \A i \in 1 .. Len(r) : r[i].locked = scans[t][i].locked,
         Before => w = word[t] /\ p = "engine" /\ UNCHANGED <<leases, active_frames>> /\ Fresh(r),
         init_state = 3 /\ word[t].banks # <<>> =>
           w.banks # <<>> /\ w.banks[1] = word[t].banks[1],
         tls => StackLeased(t, w, p, h, leases'),
         patched => /\ ScanSound(r, w, p, h, t \in allotted')
                    /\ \A b \in SourceBanks : leases'[b] = t => Uses(b, w, p, h)
                    /\ active_frames' = Cardinality(Counted')
  PROVE  SourceSound'
<1>1. SourceTypeOK
  BY DEF SourceSound
<1>2. /\ scans' \in [Scanners -> Seq(Frames)] /\ word' \in [Scanners -> Words]
      /\ place' \in [Scanners -> ScanPlaces] /\ hand' \in [Scanners -> SourceBanks]
      /\ scans'[t] = r /\ word'[t] = w /\ place'[t] = p /\ hand'[t] = h
      /\ \A u \in Scanners \ {t} : /\ place'[u] = place[u] /\ hand'[u] = hand[u]
                                   /\ scans'[u] = scans[u] /\ word'[u] = word[u]
  BY <1>1 DEF SourceTypeOK, ThreadStep, Frames, Words
<1>3. SourceTypeOK'
  <2>1. allotted' \subseteq Scanners
    BY <1>1 DEF SourceTypeOK
  <2>2. UNCHANGED <<init_state, tls, progress, lease, patched, runtimes, holders>>
    BY DEF ThreadStep, readiness, installing
  <2>3. leases' \in [SourceBanks -> Scanners \cup {Unleased}]
    BY DEF LeaseStep
  <2> QED BY <1>1, <1>2, <2>1, <2>2, <2>3 DEF SourceTypeOK, Frames, Words
<1>4. LocalStep(t)
  BY <1>2 DEF LocalStep, ThreadStep, LeaseStep
<1>5. LockStep(t)
  <2>1. Len(r) \in Nat /\ Len(scans[t]) \in Nat
    BY <1>1, SourceTypes, LenProperties
  <2>2. LockOrder(r)
    BY <2>1, OfThread, OrderOfPrefix
  <2>3. Locked(t)' => Locked(t)
    BY <1>2, <2>1 DEF Locked
  <2> QED BY <1>2, <2>1, <2>2, <2>3, OfThread, SourceAssumption DEF LockStep
<1>6. FreshStep(t)
  BY <1>2 DEF FreshStep
<1>7. BottomStep(t)
  BY <1>2 DEF BottomStep
<1>8. PatchedStep(t)
  BY <1>2 DEF PatchedStep
<1> QED BY <1>2, <1>3, <1>4, <1>5, <1>6, <1>7, <1>8, ThreadKeeps

\* Steps that only move the thread and its hand.
LEMMA MoveKept ==
  ASSUME SourceSound, NEW t \in Scanners, NEW p \in ScanPlaces, NEW h \in SourceBanks,
         place[t] # "engine" \/ patched,
         p # "engine" => scans[t] # <<>>,
         place' = [place EXCEPT ![t] = p], hand' = [hand EXCEPT ![t] = h],
         UNCHANGED <<readiness, records, scans, installing>>,
         tls => StackLeased(t, word[t], p, h, leases),
         patched => /\ ScanSound(scans[t], word[t], p, h, t \in allotted)
                    /\ \A b \in SourceBanks : leases[b] = t => Uses(b, word[t], p, h)
                    /\ \A i \in 1 .. MaxScans :
                         IsCounted(scans[t], p, i) <=> IsCounted(scans[t], place[t], i)
  PROVE  SourceSound'
<1>1. SourceTypeOK
  BY DEF SourceSound
<1>2. UNCHANGED <<word, allotted, leases, active_frames, scans, readiness, installing>>
  BY DEF records
<1>3. ThreadStep(t, scans[t], word[t], p, h)
  BY <1>1, <1>2 DEF ThreadStep, SourceTypeOK
<1>4. LeaseStep(t) /\ active_frames' \in Int
  BY <1>1, <1>2 DEF LeaseStep, SourceTypeOK
<1>5. ~Before
  BY OfThread
<1>6. patched => active_frames' = Cardinality(Counted')
  <2>1. LocalStep(t)
    BY <1>1, <1>2, <1>3, <1>4 DEF LocalStep, ThreadStep, LeaseStep, SourceTypeOK
  <2>2. place'[t] = p /\ scans'[t] = scans[t]
    BY <1>1, <1>2 DEF SourceTypeOK
  <2>3. patched => Counted' = Counted
    BY <2>1, <2>2, CountedStays
  <2> QED BY <1>2, <2>3 DEF SourceSound, PatchedSound
<1>7. scans[t] \in Seq(Frames) /\ word[t] \in Words /\ Len(scans[t]) <= Len(scans[t])
  BY <1>1, SourceTypes
<1> QED BY <1>2, <1>3, <1>4, <1>5, <1>6, <1>7, Assemble

LEMMA Moves ==
  ASSUME SourceTypeOK, NEW t \in Scanners, NEW p, Move(t, p), UNCHANGED hand
  PROVE  place' = [place EXCEPT ![t] = p] /\ hand' = [hand EXCEPT ![t] = hand[t]]
BY DEF SourceTypeOK, Move

\* Frames the word does not hold may be on top of those it does, when it holds
\* none.
LEMMA SettledUnrecorded ==
  ASSUME NEW s \in Seq(Frames), NEW w \in Words, NEW p, NEW h, NEW a,
         ScanSound(s, w, p, h, a), s # <<>>,
         \A i \in 1 .. Len(s) : s[i].bank = Unrecorded
  PROVE  ScanSound(s, w, "engine", h, a) /\ Agrees(s, w, Len(s) - 1)
<1>1. Len(s) \in Nat \ {0} /\ Settled(s, p) \in Nat /\ Settled(s, p) <= Len(s)
  BY EmptySeq DEF Settled
<1>2. \A i \in 1 .. Settled(s, p) : s[i].bank = Unrecorded
  BY <1>1
<1>3. w = NoFrames
  BY <1>1, <1>2, AgreesUnrecorded DEF ScanSound, FramesSound
<1>4. Len(s) \in Nat /\ Len(s) - 1 \in Nat /\ \A i \in 1 .. Len(s) - 1 : s[i].bank = Unrecorded
  BY <1>1
<1>5. Agrees(s, w, Len(s)) /\ Agrees(s, w, Len(s) - 1)
  BY <1>3, <1>4, AgreesWithNone
<1>6. Settled(s, "engine") = Len(s)
  BY DEF Settled, Entering, Leaving
<1> QED BY <1>5, <1>6 DEF ScanSound, FramesSound, TopSound, Entering

LEMMA EnterReadyKept ==
  ASSUME SourceSound, NEW t \in Scanners, EnterReady(t)
  PROVE  SourceSound'
<1>1. SourceTypeOK /\ place[t] = "enter" /\ scans[t] # <<>>
  BY OfThread DEF SourceSound, EnterReady
<1>2. scans[t] \in Seq(Frames) /\ word[t] \in Words /\ hand[t] \in SourceBanks
  BY <1>1, SourceTypes
<1>3. 1 \in SourceBanks
  BY SourceAssumption DEF SourceBanks
<1>4. tls => \A p \in {"lease", "push", "engine"}, h \in SourceBanks :
        StackLeased(t, word[t], p, h, leases)
  BY OfThread DEF StackLeased, Holding
<1>5. patched => /\ ScanSound(scans[t], word[t], "enter", hand[t], t \in allotted)
                 /\ \A b \in SourceBanks : leases[b] = t =>
                      \E i \in 1 .. Len(word[t].banks) : word[t].banks[i] = b
  BY <1>1, OfThread DEF SourceSound, PatchedSound, Uses, Holding
<1>6. \A p \in {"lease", "push", "engine"}, i \in 1 .. MaxScans :
        IsCounted(scans[t], p, i) <=> IsCounted(scans[t], place[t], i)
  BY <1>1 DEF IsCounted
<1>7. CASE init_state = 2 /\ tls /\ Last(scans[t]).locked
  <2>1. PICK p \in {"lease", "push"} : Move(t, p) /\ (p = "lease" => word[t].fallback = 0)
    BY <1>7 DEF EnterReady
  <2>2. UNCHANGED <<readiness, records, scans, installing, hand>>
    BY <1>7 DEF EnterReady
  <2>3. place' = [place EXCEPT ![t] = p] /\ hand' = [hand EXCEPT ![t] = hand[t]]
    BY <1>1, <2>1, <2>2, Moves
  <2>4. scans[t][Len(scans[t])].locked
    BY <1>7 DEF Last
  <2>5. patched => ScanSound(scans[t], word[t], p, hand[t], t \in allotted)
    BY <1>1, <1>5, <2>1, <2>4 DEF ScanSound, FramesSound, TopSound, Settled, Entering, Leaving
  <2>6. patched => \A b \in SourceBanks : leases[b] = t => Uses(b, word[t], p, hand[t])
    BY <1>5 DEF Uses
  <2>7. p \in ScanPlaces /\ place[t] # "engine"
    BY <1>1, <2>1 DEF ScanPlaces
  <2>8. (tls => StackLeased(t, word[t], p, hand[t], leases))
        /\ \A i \in 1 .. MaxScans : IsCounted(scans[t], p, i) <=> IsCounted(scans[t], place[t], i)
    BY <1>2, <1>4, <1>6, <2>1
  <2> QED BY <1>1, <1>2, <2>2, <2>3, <2>5, <2>6, <2>7, <2>8, MoveKept
<1>8. CASE ~(init_state = 2 /\ tls /\ Last(scans[t]).locked)
  <2>1. place' = [place EXCEPT ![t] = "engine"] /\ hand' = [hand EXCEPT ![t] = 1]
        /\ UNCHANGED <<readiness, records, scans, installing>>
    BY <1>8 DEF EnterReady, Resume, Move
  <2>2. patched => ScanSound(scans[t], word[t], "engine", hand[t], t \in allotted)
    <3> SUFFICES ASSUME patched
                 PROVE  ScanSound(scans[t], word[t], "engine", hand[t], t \in allotted)
      OBVIOUS
    <3>1. ~Last(scans[t]).locked /\ LockOrder(scans[t])
      BY <1>8, OfThread
    <3>2. FramesSound(scans[t], word[t], "enter", t \in allotted)
      BY <1>5 DEF ScanSound
    <3>3. \A i \in 1 .. Len(scans[t]) : scans[t][i].bank = Unrecorded
      BY <1>1, <1>2, <3>1, <3>2, UnlockedUnrecorded
    <3> QED BY <1>1, <1>2, <1>5, <3>3, SettledUnrecorded
  <2>3. patched => ScanSound(scans[t], word[t], "engine", 1, t \in allotted)
    BY <2>2 DEF ScanSound, TopSound
  <2>4. patched => \A b \in SourceBanks : leases[b] = t => Uses(b, word[t], "engine", 1)
    BY <1>5 DEF Uses
  <2>5. "engine" \in ScanPlaces /\ place[t] # "engine"
    BY <1>1 DEF ScanPlaces
  <2>6. (tls => StackLeased(t, word[t], "engine", 1, leases))
        /\ \A i \in 1 .. MaxScans :
             IsCounted(scans[t], "engine", i) <=> IsCounted(scans[t], place[t], i)
    BY <1>3, <1>4, <1>6
  <2> QED BY <1>3, <2>1, <2>3, <2>4, <2>5, <2>6, MoveKept
<1> QED BY <1>7, <1>8

LEMMA EnterLeaseKept ==
  ASSUME SourceSound, NEW t \in Scanners, EnterLease(t)
  PROVE  SourceSound'
<1> DEFINE b == hand[t]
           s == scans[t]
<1>1. SourceTypeOK /\ place[t] = "lease" /\ s # <<>>
  BY OfThread DEF SourceSound, EnterLease
<1>2. /\ s \in Seq(Frames) /\ word[t] \in Words /\ b \in SourceBanks /\ Len(s) \in Nat
      /\ \A i \in 1 .. Len(word[t].banks) : word[t].banks[i] \in SourceBanks
  BY <1>1, SourceTypes
<1>3. UNCHANGED <<readiness, word, allotted, active_frames, scans, installing>>
  BY DEF EnterLease
<1>4. tls => StackLeased(t, word[t], "lease", b, leases)
  BY <1>1, OfThread
<1>5. patched => /\ ScanSound(s, word[t], "lease", b, t \in allotted)
                 /\ \A c \in SourceBanks : leases[c] = t =>
                      \E i \in 1 .. Len(word[t].banks) : word[t].banks[i] = c
  BY <1>1, OfThread DEF SourceSound, PatchedSound, Uses, Holding
<1>6. \A p \in {"lease", "store", "push"}, i \in 1 .. MaxScans :
        IsCounted(s, p, i) <=> IsCounted(s, place[t], i)
  BY <1>1 DEF IsCounted
<1>7. {"lease", "store", "push"} \subseteq ScanPlaces
  BY DEF ScanPlaces
<1>8. \A p \in {"store", "push"} : \A h : patched => ScanSound(s, word[t], p, h, t \in allotted)
  BY <1>5 DEF ScanSound, FramesSound, TopSound, Settled, Entering, Leaving
<1>9. CASE leases[b] = Unleased
  <2>1. /\ leases' = [leases EXCEPT ![b] = t] /\ UNCHANGED hand
        /\ place' = [place EXCEPT ![t] = "store"] /\ hand' = [hand EXCEPT ![t] = b]
    BY <1>1, <1>9, Moves DEF EnterLease
  <2>2. ThreadStep(t, s, word[t], "store", b)
    BY <1>1, <1>3, <2>1 DEF ThreadStep, SourceTypeOK
  <2>3. LeaseStep(t) /\ leases'[b] = t /\ \A c \in SourceBanks \ {b} : leases'[c] = leases[c]
    BY <1>1, <1>2, <1>9, <2>1 DEF LeaseStep, SourceTypeOK
  <2>4. tls => StackLeased(t, word[t], "store", b, leases')
    <3> SUFFICES ASSUME tls
                 PROVE  StackLeased(t, word[t], "store", b, leases')
      OBVIOUS
    <3>1. \A i \in 1 .. Len(word[t].banks) : leases[word[t].banks[i]] = t /\ word[t].banks[i] # b
      BY <1>4, <1>9, SourceAssumption DEF StackLeased
    <3> QED BY <1>2, <1>4, <2>3, <3>1 DEF StackLeased
  <2>5. patched => \A c \in SourceBanks : leases'[c] = t => Uses(c, word[t], "store", b)
    BY <1>5, <2>3 DEF Uses, Holding
  <2>6. LocalStep(t) /\ scans'[t] = s /\ place'[t] = "store"
    BY <1>1, <1>3, <2>1, <2>3 DEF LocalStep, LeaseStep, SourceTypeOK
  <2>7. patched => active_frames' = Cardinality(Counted')
    <3>1. Counted' = Counted
      BY <1>6, <2>6, CountedStays
    <3> QED BY <1>3, <3>1 DEF SourceSound, PatchedSound
  <2>8. ~Before /\ active_frames' \in Int /\ "store" \in ScanPlaces
    BY <1>1, <1>3, OfThread DEF SourceTypeOK, ScanPlaces
  <2>9. patched => ScanSound(s, word[t], "store", b, t \in allotted')
    BY <1>3, <1>8
  <2> HIDE DEF s, b
  <2> QED BY <1>1, <1>2, <1>3, <2>2, <2>3, <2>4, <2>5, <2>7, <2>8, <2>9, Assemble DEF s
<1>10. CASE leases[b] # Unleased
  <2>1. /\ UNCHANGED <<leases, records>>
        /\ IF b < SourceBankCount
             THEN hand' = [hand EXCEPT ![t] = b + 1] /\ UNCHANGED place
             ELSE Move(t, "push") /\ UNCHANGED hand
    BY <1>3, <1>10 DEF EnterLease, records
  <2>2. CASE b < SourceBankCount
    <3>1. b + 1 \in SourceBanks
      BY <1>2, <2>2, SourceAssumption DEF SourceBanks
    <3>2. place' = [place EXCEPT ![t] = "lease"] /\ hand' = [hand EXCEPT ![t] = b + 1]
      BY <1>1, <2>1, <2>2 DEF SourceTypeOK
    <3>3. tls => StackLeased(t, word[t], "lease", b + 1, leases)
      BY <1>4 DEF StackLeased, Holding
    <3>4. patched => /\ ScanSound(s, word[t], "lease", b + 1, t \in allotted)
                     /\ \A c \in SourceBanks : leases[c] = t => Uses(c, word[t], "lease", b + 1)
      BY <1>5 DEF ScanSound, TopSound, Uses
    <3> QED BY <1>1, <1>3, <1>6, <1>7, <2>1, <3>1, <3>2, <3>3, <3>4, MoveKept
  <2>3. CASE ~(b < SourceBankCount)
    <3>1. place' = [place EXCEPT ![t] = "push"] /\ hand' = [hand EXCEPT ![t] = b]
      BY <1>1, <2>1, <2>3, Moves
    <3>2. tls => StackLeased(t, word[t], "push", b, leases)
      BY <1>4 DEF StackLeased, Holding
    <3>3. patched => \A c \in SourceBanks : leases[c] = t => Uses(c, word[t], "push", b)
      BY <1>5 DEF Uses
    <3> QED BY <1>1, <1>2, <1>3, <1>6, <1>7, <1>8, <2>1, <3>1, <3>2, <3>3, MoveKept
  <2> QED BY <2>2, <2>3
<1> QED BY <1>9, <1>10

\* A frame that is recorded: its bank is set, the rest of the stack stays.
LEMMA RecordedFrame ==
  ASSUME SourceTypeOK, NEW t \in Scanners, scans[t] # <<>>,
         NEW b \in SourceBanks \cup {StockArray}, Recorded(t, b)
  PROVE  \E r \in Seq(Frames) :
           /\ scans' = [scans EXCEPT ![t] = r] /\ r # <<>> /\ Len(r) = Len(scans[t])
           /\ \A i \in 1 .. Len(scans[t]) - 1 : r[i] = scans[t][i]
           /\ r[Len(scans[t])] = [scans[t][Len(scans[t])] EXCEPT !.bank = b]
<1> DEFINE s == scans[t]
           f == [s[Len(s)] EXCEPT !.bank = b]
           r == [s EXCEPT ![Len(s)] = f]
<1>1. s \in Seq(Frames) /\ Len(s) \in Nat \ {0} /\ s[Len(s)] \in Frames
  <2>1. s \in Seq(Frames)
    BY SourceTypes
  <2> QED BY <2>1, FrontAndLast
<1>2. f \in Frames
  BY <1>1 DEF Frames
<1>3. /\ r \in Seq(Frames) /\ r # <<>> /\ Len(r) = Len(s) /\ r[Len(s)] = f
      /\ \A i \in 1 .. Len(s) - 1 : r[i] = s[i]
  BY <1>1, <1>2, TopReplaced
<1>4. scans' = [scans EXCEPT ![t] = r]
  BY DEF Recorded
<1> HIDE DEF r
<1> QED BY <1>3, <1>4

\* A frame that is stored, on top of a word that did not hold it: with its bank,
\* or as one more on the stock array.
LEMMA RecordedKept ==
  ASSUME SourceSound, NEW t \in Scanners, place[t] \in {"store", "push"},
         NEW b \in SourceBanks \cup {StockArray}, NEW v \in Words,
         Store(t, v), Recorded(t, b), Move(t, "count"), UNCHANGED hand,
         UNCHANGED <<readiness, leases, active_frames, installing>>,
         word[t].banks # <<>> => v.banks # <<>> /\ v.banks[1] = word[t].banks[1],
         tls => StackLeased(t, v, "count", hand[t], leases),
         patched => \A r : (\A i \in 1 .. Len(scans[t]) - 1 : r[i] = scans[t][i]) =>
                             (r[Len(scans[t])].bank = b => Agrees(r, v, Len(scans[t]))),
         patched => \A c \in SourceBanks : leases[c] = t => Uses(c, v, "count", hand[t])
  PROVE  SourceSound'
<1> DEFINE s == scans[t]
<1>1. SourceTypeOK /\ s # <<>> /\ place[t] # "engine"
  BY OfThread DEF SourceSound
<1>2. s \in Seq(Frames) /\ Len(s) \in Nat \ {0} /\ hand[t] \in SourceBanks
      /\ \A i \in 1 .. Len(s) : s[i] \in Frames
  BY <1>1, SourceTypes, FrontAndLast
<1>3. PICK r \in Seq(Frames) :
        /\ scans' = [scans EXCEPT ![t] = r] /\ r # <<>> /\ Len(r) = Len(s)
        /\ \A i \in 1 .. Len(s) - 1 : r[i] = s[i]
        /\ r[Len(s)] = [s[Len(s)] EXCEPT !.bank = b]
  BY <1>1, RecordedFrame
<1>4. /\ r[Len(s)].bank = b /\ r[Len(s)].locked = s[Len(s)].locked
      /\ r[Len(s)].storage = s[Len(s)].storage /\ r[Len(s)].count = s[Len(s)].count
  BY <1>2, <1>3 DEF Frames
<1>5. \A i \in 1 .. Len(r) : r[i].locked = s[i].locked
  <2> TAKE i \in 1 .. Len(r)
  <2>1. CASE i = Len(s)
    BY <1>4, <2>1
  <2>2. CASE i # Len(s)
    <3>1. i \in 1 .. Len(s) - 1
      BY <1>2, <1>3, <2>2
    <3> QED BY <1>3, <3>1
  <2> QED BY <2>1, <2>2
<1>6. ThreadStep(t, r, v, "count", hand[t])
  BY <1>1, <1>3, Moves DEF ThreadStep, Store
<1>7. LeaseStep(t) /\ active_frames' \in Int /\ allotted' = allotted \cup {t} /\ UNCHANGED leases
  BY <1>1 DEF LeaseStep, SourceTypeOK, Store
<1>8. LocalStep(t) /\ scans'[t] = r /\ place'[t] = "count"
  BY <1>1, <1>3, <1>6, <1>7 DEF LocalStep, ThreadStep, LeaseStep, SourceTypeOK
<1>9. patched => /\ ScanSound(s, word[t], place[t], hand[t], t \in allotted)
                 /\ s[Len(s)].bank = Unrecorded /\ s[Len(s)].storage = Unused
                 /\ s[Len(s)].locked
  BY <1>1, OfThread DEF ScanSound, TopSound, Entering
<1>10. b # Unrecorded
  BY DEF SourceBanks, StockArray, Unrecorded
<1>11. patched => ScanSound(r, v, "count", hand[t], t \in allotted')
  <2> SUFFICES ASSUME patched
               PROVE  ScanSound(r, v, "count", hand[t], TRUE)
    BY <1>7
  <2>1. Agrees(r, v, Len(r)) /\ Settled(r, "count") = Len(r)
    BY <1>3, <1>4 DEF Settled, Entering, Leaving
  <2>2. \A i \in 1 .. Len(r) : FrameSound(r[i], TRUE)
    <3> TAKE i \in 1 .. Len(r)
    <3>1. CASE i = Len(s)
      BY <1>4, <1>9, <3>1 DEF FrameSound
    <3>2. CASE i # Len(s)
      <4>1. i \in 1 .. Len(s) - 1 /\ i \in 1 .. Len(s)
        BY <1>2, <1>3, <3>2
      <4>2. FrameSound(s[i], t \in allotted)
        BY <1>9, <4>1 DEF ScanSound, FramesSound
      <4> QED BY <1>3, <4>1, <4>2 DEF FrameSound
    <3> QED BY <3>1, <3>2
  <2>3. TopSound(r, v, "count", hand[t])
    BY <1>3, <1>4, <1>9, <1>10 DEF TopSound, Entering
  <2> QED BY <2>1, <2>2, <2>3 DEF ScanSound, FramesSound
<1>12. patched => active_frames' = Cardinality(Counted')
  <2> SUFFICES ASSUME patched
               PROVE  active_frames' = Cardinality(Counted')
    OBVIOUS
  <2>1. \A i \in 1 .. MaxScans : IsCounted(r, "count", i) <=> IsCounted(s, place[t], i)
    <3> TAKE i \in 1 .. MaxScans
    <3>1. CASE i = Len(s)
      BY <1>3, <1>9, <3>1 DEF IsCounted
    <3>2. CASE i # Len(s)
      <4>1. i <= Len(s) => r[i] = s[i]
        BY <1>2, <1>3, <3>2, SourceAssumption
      <4> QED BY <1>3, <3>2, <4>1 DEF IsCounted
    <3> QED BY <3>1, <3>2
  <2>2. Counted' = Counted
    BY <1>8, <2>1, CountedStays
  <2> QED BY <2>2 DEF SourceSound, PatchedSound
<1>13. ~Before /\ "count" \in ScanPlaces /\ Len(r) <= Len(s)
  BY <1>1, <1>2, <1>3, OfThread DEF ScanPlaces
<1>14. /\ tls => StackLeased(t, v, "count", hand[t], leases')
       /\ patched => \A c \in SourceBanks : leases'[c] = t => Uses(c, v, "count", hand[t])
  BY <1>7
<1> HIDE DEF s
<1> QED BY <1>2, <1>3, <1>5, <1>6, <1>7, <1>11, <1>12, <1>13, <1>14, Assemble DEF s

LEMMA EnterStoreKept ==
  ASSUME SourceSound, NEW t \in Scanners, EnterStore(t)
  PROVE  SourceSound'
<1> DEFINE b == hand[t]
           s == scans[t]
           v == [word[t] EXCEPT !.banks = Append(@, b)]
<1>1. SourceTypeOK /\ place[t] = "store" /\ s # <<>>
  BY OfThread DEF SourceSound, EnterStore
<1>2. /\ s \in Seq(Frames) /\ word[t] \in Words /\ b \in SourceBanks
      /\ word[t].banks \in Seq(SourceBanks) /\ Len(word[t].banks) \in Nat
      /\ \A i \in 1 .. Len(word[t].banks) : word[t].banks[i] \in SourceBanks
  BY <1>1, SourceTypes
<1>3. Len(s) \in Nat \ {0} /\ Len(s) - 1 \in Nat /\ (Len(s) - 1) + 1 = Len(s)
  <2>1. Len(s) \in Nat \ {0}
    BY <1>1, <1>2, FrontAndLast
  <2> QED BY <2>1
<1>4. v \in Words /\ v.banks = Append(word[t].banks, b) /\ v.fallback = word[t].fallback
  BY <1>2, Appended DEF Words
<1>5. /\ v.banks # <<>> /\ Len(v.banks) = Len(word[t].banks) + 1
      /\ v.banks[Len(word[t].banks) + 1] = b
      /\ \A i \in 1 .. Len(word[t].banks) : v.banks[i] = word[t].banks[i]
  BY <1>2, <1>4, Appended
<1>6. tls => StackLeased(t, word[t], "store", b, leases)
  BY <1>1, OfThread
<1>7. patched => /\ ScanSound(s, word[t], "store", b, t \in allotted)
                 /\ \A c \in SourceBanks : leases[c] = t => Uses(c, word[t], "store", b)
  BY <1>1, OfThread DEF SourceSound, PatchedSound
<1>8. CASE Store(t, v) /\ Recorded(t, b) /\ Move(t, "count")
  <2>1. UNCHANGED <<readiness, leases, active_frames, hand, installing>>
    BY DEF EnterStore
  <2>2. word[t].banks # <<>> => v.banks # <<>> /\ v.banks[1] = word[t].banks[1]
    <3>1. word[t].banks # <<>> => 1 \in 1 .. Len(word[t].banks)
      BY <1>2, WordParts
    <3> QED BY <1>5, <3>1
  <2>3. tls => StackLeased(t, v, "count", b, leases)
    <3> SUFFICES ASSUME tls
                 PROVE  StackLeased(t, v, "count", b, leases)
      OBVIOUS
    <3>1. /\ leases[b] = t
          /\ \A i \in 1 .. Len(word[t].banks) :
               leases[word[t].banks[i]] = t /\ word[t].banks[i] # b
          /\ \A i, j \in 1 .. Len(word[t].banks) : i # j => word[t].banks[i] # word[t].banks[j]
      BY <1>6 DEF StackLeased, Holding
    <3>2. \A i \in 1 .. Len(v.banks) :
            i \in 1 .. Len(word[t].banks) \/ i = Len(word[t].banks) + 1
      BY <1>2, <1>5
    <3> HIDE DEF v, b
    <3>3. \A i \in 1 .. Len(v.banks) : leases[v.banks[i]] = t
      BY <1>5, <3>1, <3>2
    <3>4. \A i, j \in 1 .. Len(v.banks) : i # j => v.banks[i] # v.banks[j]
      BY <1>5, <3>1, <3>2
    <3> QED BY <3>3, <3>4 DEF StackLeased, Holding
  <2>4. patched => \A r : (\A i \in 1 .. Len(s) - 1 : r[i] = s[i]) =>
                            (r[Len(s)].bank = b => Agrees(r, v, Len(s)))
    <3> SUFFICES ASSUME patched, NEW r, \A i \in 1 .. Len(s) - 1 : r[i] = s[i],
                        r[Len(s)].bank = b
                 PROVE  Agrees(r, v, Len(s))
      OBVIOUS
    <3>1. Agrees(s, word[t], Len(s) - 1) /\ word[t].fallback = 0
      BY <1>7 DEF ScanSound, FramesSound, TopSound, Settled, Entering
    <3>2. Agrees(r, v, (Len(s) - 1) + 1)
      <4> HIDE DEF s, v, b
      <4> QED BY <1>2, <1>3, <1>4, <3>1, AgreesWithBank
    <3> QED BY <1>3, <3>2
  <2>5. patched => \A c \in SourceBanks : leases[c] = t => Uses(c, v, "count", b)
    <3>1. Len(word[t].banks) + 1 \in 1 .. Len(v.banks)
          /\ \A i \in 1 .. Len(word[t].banks) : i \in 1 .. Len(v.banks)
      BY <1>2, <1>5
    <3> QED BY <1>5, <1>7, <3>1 DEF Uses
  <2> HIDE DEF v
  <2> QED BY <1>1, <1>2, <1>4, <1>8, <2>1, <2>2, <2>3, <2>4, <2>5, RecordedKept
<1>9. CASE StoreFails(t) /\ Move(t, "unlease") /\ UNCHANGED scans
  <2>1. /\ place' = [place EXCEPT ![t] = "unlease"] /\ hand' = [hand EXCEPT ![t] = b]
        /\ UNCHANGED <<readiness, records, scans, installing>>
    BY <1>1, <1>9, Moves DEF EnterStore, StoreFails, records
  <2>2. tls => StackLeased(t, word[t], "unlease", b, leases)
    BY <1>6 DEF StackLeased, Holding
  <2>3. patched => ScanSound(s, word[t], "unlease", b, t \in allotted)
    BY <1>7 DEF ScanSound, FramesSound, TopSound, Settled, Entering, Leaving
  <2>4. patched => \A c \in SourceBanks : leases[c] = t => Uses(c, word[t], "unlease", b)
    BY <1>7 DEF Uses, Holding
  <2>5. \A i \in 1 .. MaxScans : IsCounted(s, "unlease", i) <=> IsCounted(s, place[t], i)
    BY <1>1 DEF IsCounted
  <2>6. "unlease" \in ScanPlaces
    BY DEF ScanPlaces
  <2> QED BY <1>1, <1>2, <2>1, <2>2, <2>3, <2>4, <2>5, <2>6, MoveKept
<1> QED BY <1>8, <1>9 DEF EnterStore

\* A lease that is given back by its thread.
LEMMA Unleases ==
  ASSUME SourceTypeOK, NEW t \in Scanners,
         leases' = [leases EXCEPT ![hand[t]] = IF @ = t THEN Unleased ELSE @]
  PROVE  /\ LeaseStep(t) /\ leases'[hand[t]] # t
         /\ \A c \in SourceBanks \ {hand[t]} : leases'[c] = leases[c]
<1>1. hand[t] \in SourceBanks /\ leases \in [SourceBanks -> Scanners \cup {Unleased}]
  BY DEF SourceTypeOK
<1>2. /\ leases'[hand[t]] = IF leases[hand[t]] = t THEN Unleased ELSE leases[hand[t]]
      /\ \A c \in SourceBanks \ {hand[t]} : leases'[c] = leases[c]
      /\ leases' \in [SourceBanks -> Scanners \cup {Unleased}]
  BY <1>1
<1> QED BY <1>1, <1>2, SourceAssumption DEF LeaseStep

LEMMA EnterUnleaseKept ==
  ASSUME SourceSound, NEW t \in Scanners, EnterUnlease(t)
  PROVE  SourceSound'
<1> DEFINE b == hand[t]
           s == scans[t]
<1>1. SourceTypeOK /\ place[t] = "unlease" /\ s # <<>>
  BY OfThread DEF SourceSound, EnterUnlease
<1>2. /\ s \in Seq(Frames) /\ word[t] \in Words /\ b \in SourceBanks /\ Len(s) \in Nat
      /\ \A i \in 1 .. Len(word[t].banks) : word[t].banks[i] \in SourceBanks
  BY <1>1, SourceTypes
<1>3. /\ UNCHANGED <<readiness, word, allotted, active_frames, hand, scans, installing>>
      /\ place' = [place EXCEPT ![t] = "push"] /\ hand' = [hand EXCEPT ![t] = b]
  BY <1>1, Moves DEF EnterUnlease
<1>4. LeaseStep(t) /\ leases'[b] # t /\ \A c \in SourceBanks \ {b} : leases'[c] = leases[c]
  BY <1>1, Unleases DEF EnterUnlease
<1>5. ThreadStep(t, s, word[t], "push", b)
  BY <1>1, <1>3 DEF ThreadStep, SourceTypeOK
<1>6. LocalStep(t) /\ scans'[t] = s /\ place'[t] = "push"
  BY <1>1, <1>3, <1>4, <1>5 DEF LocalStep, ThreadStep, LeaseStep, SourceTypeOK
<1>7. tls => StackLeased(t, word[t], "push", b, leases')
  <2>1. tls => StackLeased(t, word[t], "unlease", b, leases)
    BY <1>1, OfThread
  <2> QED BY <1>2, <1>4, <2>1 DEF StackLeased, Holding
<1>8. patched => /\ ScanSound(s, word[t], "unlease", b, t \in allotted)
                 /\ \A c \in SourceBanks : leases[c] = t => Uses(c, word[t], "unlease", b)
  BY <1>1, OfThread DEF SourceSound, PatchedSound
<1>9. patched => ScanSound(s, word[t], "push", b, t \in allotted')
  BY <1>3, <1>8 DEF ScanSound, FramesSound, TopSound, Settled, Entering, Leaving
<1>10. patched => \A c \in SourceBanks : leases'[c] = t => Uses(c, word[t], "push", b)
  BY <1>4, <1>8 DEF Uses
<1>11. patched => active_frames' = Cardinality(Counted')
  <2>1. \A i \in 1 .. MaxScans : IsCounted(s, "push", i) <=> IsCounted(s, place[t], i)
    BY <1>1 DEF IsCounted
  <2>2. Counted' = Counted
    BY <1>6, <2>1, CountedStays
  <2> QED BY <1>3, <2>2 DEF SourceSound, PatchedSound
<1>12. ~Before /\ active_frames' \in Int /\ "push" \in ScanPlaces
  BY <1>1, <1>3, OfThread DEF SourceTypeOK, ScanPlaces
<1> HIDE DEF s, b
<1> QED BY <1>1, <1>2, <1>3, <1>4, <1>5, <1>7, <1>9, <1>10, <1>11, <1>12, Assemble DEF s

LEMMA EnterPushKept ==
  ASSUME SourceSound, NEW t \in Scanners, EnterPush(t)
  PROVE  SourceSound'
<1> DEFINE s == scans[t]
           v == [word[t] EXCEPT !.fallback = @ + 1]
<1>1. SourceTypeOK /\ place[t] = "push" /\ s # <<>>
  BY OfThread DEF SourceSound, EnterPush
<1>2. /\ s \in Seq(Frames) /\ word[t] \in Words /\ hand[t] \in SourceBanks
      /\ 1 \in SourceBanks
  BY <1>1, SourceTypes, SourceAssumption DEF SourceBanks
<1>3. Len(s) \in Nat \ {0} /\ Len(s) - 1 \in Nat /\ (Len(s) - 1) + 1 = Len(s)
  <2>1. Len(s) \in Nat \ {0}
    BY <1>1, <1>2, FrontAndLast
  <2> QED BY <2>1
<1>4. v \in Words /\ v.banks = word[t].banks /\ v.fallback = word[t].fallback + 1
  BY <1>2 DEF Words
<1>5. tls => \A p \in {"count", "engine"} : \A h : StackLeased(t, word[t], p, h, leases)
  BY OfThread DEF StackLeased, Holding
<1>6. patched => /\ ScanSound(s, word[t], "push", hand[t], t \in allotted)
                 /\ \A c \in SourceBanks : leases[c] = t =>
                      \E i \in 1 .. Len(word[t].banks) : word[t].banks[i] = c
  BY <1>1, OfThread DEF SourceSound, PatchedSound, Uses, Holding
<1>7. CASE Store(t, v) /\ Recorded(t, StockArray) /\ Move(t, "count") /\ UNCHANGED hand
  <2>1. UNCHANGED <<readiness, leases, active_frames, hand, installing>>
    BY <1>7 DEF EnterPush
  <2>2. word[t].banks # <<>> => v.banks # <<>> /\ v.banks[1] = word[t].banks[1]
    BY <1>4
  <2>3. tls => StackLeased(t, v, "count", hand[t], leases)
    BY <1>4, <1>5 DEF StackLeased
  <2>4. patched => \A r : (\A i \in 1 .. Len(s) - 1 : r[i] = s[i]) =>
                            (r[Len(s)].bank = StockArray => Agrees(r, v, Len(s)))
    <3> SUFFICES ASSUME patched, NEW r, \A i \in 1 .. Len(s) - 1 : r[i] = s[i],
                        r[Len(s)].bank = StockArray
                 PROVE  Agrees(r, v, Len(s))
      OBVIOUS
    <3>1. Agrees(s, word[t], Len(s) - 1)
      BY <1>6 DEF ScanSound, FramesSound, Settled, Entering
    <3>2. Agrees(r, v, (Len(s) - 1) + 1)
      <4> HIDE DEF s, v
      <4> QED BY <1>2, <1>3, <1>4, <3>1, AgreesWithStock
    <3> QED BY <1>3, <3>2
  <2>5. patched => \A c \in SourceBanks : leases[c] = t => Uses(c, v, "count", hand[t])
    BY <1>4, <1>6 DEF Uses
  <2> HIDE DEF v
  <2> QED BY <1>1, <1>2, <1>4, <1>7, <2>1, <2>2, <2>3, <2>4, <2>5, RecordedKept
<1>8. CASE StoreFails(t) /\ Resume(t) /\ UNCHANGED scans
  <2>1. /\ place' = [place EXCEPT ![t] = "engine"] /\ hand' = [hand EXCEPT ![t] = 1]
        /\ UNCHANGED <<readiness, records, scans, installing>>
    BY <1>8 DEF EnterPush, StoreFails, records, Resume, Move
  <2>2. patched => ScanSound(s, word[t], "engine", 1, t \in allotted)
    <3> SUFFICES ASSUME patched
                 PROVE  ScanSound(s, word[t], "engine", 1, t \in allotted)
      OBVIOUS
    <3>1. t \notin allotted
      BY <1>8, OfThread DEF StoreFails
    <3>2. \A i \in 1 .. Len(s) : s[i].bank = Unrecorded
      BY <1>6, <3>1 DEF ScanSound, FramesSound, FrameSound
    <3>3. ScanSound(s, word[t], "engine", hand[t], t \in allotted)
      BY <1>1, <1>2, <1>6, <3>2, SettledUnrecorded
    <3> QED BY <3>3 DEF ScanSound, TopSound
  <2>3. patched => \A c \in SourceBanks : leases[c] = t => Uses(c, word[t], "engine", 1)
    BY <1>6 DEF Uses
  <2>4. \A i \in 1 .. MaxScans : IsCounted(s, "engine", i) <=> IsCounted(s, place[t], i)
    BY <1>1 DEF IsCounted
  <2>5. "engine" \in ScanPlaces /\ (tls => StackLeased(t, word[t], "engine", 1, leases))
    BY <1>5 DEF ScanPlaces
  <2> QED BY <1>1, <1>2, <2>1, <2>2, <2>3, <2>4, <2>5, MoveKept
<1> QED BY <1>7, <1>8 DEF EnterPush

LEMMA EnterCountKept ==
  ASSUME SourceSound, NEW t \in Scanners, EnterCount(t)
  PROVE  SourceSound'
<1> DEFINE s == scans[t]
<1>1. SourceTypeOK /\ place[t] = "count" /\ s # <<>>
  BY OfThread DEF SourceSound, EnterCount
<1>2. s \in Seq(Frames) /\ word[t] \in Words /\ 1 \in SourceBanks
  BY <1>1, SourceTypes, SourceAssumption DEF SourceBanks
<1>3. Len(s) \in 1 .. MaxScans
  BY <1>1, <1>2, OfThread, FrontAndLast, SourceAssumption
<1>4. /\ UNCHANGED <<readiness, word, allotted, leases, scans, installing>>
      /\ place' = [place EXCEPT ![t] = "engine"] /\ hand' = [hand EXCEPT ![t] = 1]
      /\ active_frames' = active_frames + 1
  BY DEF EnterCount, Resume, Move
<1>5. ThreadStep(t, s, word[t], "engine", 1) /\ LeaseStep(t)
  BY <1>1, <1>4 DEF ThreadStep, LeaseStep, SourceTypeOK
<1>6. LocalStep(t) /\ scans'[t] = s /\ place'[t] = "engine"
  BY <1>1, <1>4, <1>5 DEF LocalStep, ThreadStep, LeaseStep, SourceTypeOK
<1>7. tls => StackLeased(t, word[t], "engine", 1, leases')
  BY <1>4, OfThread DEF StackLeased, Holding
<1>8. patched => ScanSound(s, word[t], "count", hand[t], t \in allotted)
  BY <1>1, OfThread
<1>9. patched => ScanSound(s, word[t], "engine", 1, t \in allotted')
  BY <1>4, <1>8 DEF ScanSound, FramesSound, TopSound, Settled, Entering, Leaving
<1>10. patched => \A c \in SourceBanks : leases'[c] = t => Uses(c, word[t], "engine", 1)
  BY <1>1, <1>4 DEF SourceSound, PatchedSound, Uses, Holding
<1>11. patched => active_frames' = Cardinality(Counted')
  <2> SUFFICES ASSUME patched
               PROVE  active_frames' = Cardinality(Counted')
    OBVIOUS
  <2>1. ~IsCounted(s, place[t], Len(s))
    BY <1>1 DEF IsCounted
  <2>2. \A i \in 1 .. MaxScans : IsCounted(s, "engine", i) <=>
                                  i = Len(s) \/ IsCounted(s, place[t], i)
    BY <1>1, <1>3, <1>8 DEF IsCounted, ScanSound, TopSound
  <2>3. Cardinality(Counted') = Cardinality(Counted) + 1
    BY <1>3, <1>6, <2>1, <2>2, CountedMore
  <2> QED BY <1>4, <2>3 DEF SourceSound, PatchedSound
<1>12. ~Before /\ active_frames' \in Int /\ "engine" \in ScanPlaces
  BY <1>1, <1>4, OfThread DEF SourceTypeOK, ScanPlaces
<1>13. Len(s) <= Len(s) /\ word[t].banks = word[t].banks
  BY <1>3
<1> HIDE DEF s
<1> QED BY <1>1, <1>2, <1>4, <1>5, <1>7, <1>9, <1>10, <1>11, <1>12, <1>13, Assemble DEF s

\* A frame that is left: it comes off the stack, and off what is counted if it
\* still was.
LEMMA PopKept ==
  ASSUME SourceSound, NEW t \in Scanners, NEW h \in SourceBanks, scans[t] # <<>>,
         place' = [place EXCEPT ![t] = "engine"], hand' = [hand EXCEPT ![t] = h],
         scans' = [scans EXCEPT ![t] = Front(@)],
         UNCHANGED <<word, allotted, readiness, installing>>,
         LeaseStep(t), active_frames' \in Int,
         Before => UNCHANGED <<leases, active_frames>>,
         tls => StackLeased(t, word[t], "engine", h, leases'),
         patched => /\ Agrees(scans[t], word[t], Len(scans[t]) - 1)
                    /\ \A c \in SourceBanks : leases'[c] = t =>
                         \E i \in 1 .. Len(word[t].banks) : word[t].banks[i] = c
                    /\ active_frames' = IF IsCounted(scans[t], place[t], Len(scans[t]))
                                          THEN active_frames - 1 ELSE active_frames
  PROVE  SourceSound'
<1> DEFINE s == scans[t]
           r == Front(s)
<1>1. SourceTypeOK
  BY DEF SourceSound
<1>2. s \in Seq(Frames) /\ word[t] \in Words /\ "engine" \in ScanPlaces
  BY <1>1, SourceTypes DEF ScanPlaces
<1>3. /\ Len(s) \in Nat \ {0} /\ r \in Seq(Frames) /\ Len(r) = Len(s) - 1
      /\ \A i \in 1 .. Len(s) - 1 : r[i] = s[i]
  BY <1>2, FrontAndLast
<1>4. ThreadStep(t, r, word[t], "engine", h)
  BY <1>1 DEF ThreadStep, SourceTypeOK
<1>5. LocalStep(t) /\ scans'[t] = r /\ place'[t] = "engine"
  BY <1>1, <1>4 DEF LocalStep, ThreadStep, LeaseStep, SourceTypeOK
<1> HIDE DEF r
<1>6. Len(r) <= Len(s) /\ \A i \in 1 .. Len(r) : r[i].locked = s[i].locked
  <2>1. \A i \in 1 .. Len(r) : i \in 1 .. Len(s) - 1
    BY <1>3
  <2>2. Len(r) <= Len(s)
    BY <1>3
  <2> QED BY <1>3, <2>1, <2>2
<1>7. Before => Fresh(r)
  BY <1>3, OfThread DEF Fresh
<1>8. patched => ScanSound(r, word[t], "engine", h, t \in allotted')
  <2> SUFFICES ASSUME patched
               PROVE  ScanSound(r, word[t], "engine", h, t \in allotted)
    OBVIOUS
  <2>1. Agrees(r, word[t], Len(s) - 1) /\ Settled(r, "engine") = Len(s) - 1
    BY <1>3, AgreesOnPrefix DEF Settled, Entering, Leaving
  <2>2. \A i \in 1 .. Len(r) : FrameSound(r[i], t \in allotted)
    <3>1. \A i \in 1 .. Len(s) : FrameSound(s[i], t \in allotted)
      BY OfThread DEF ScanSound, FramesSound
    <3> QED BY <1>3, <3>1
  <2> QED BY <2>1, <2>2 DEF ScanSound, FramesSound, TopSound, Entering
<1>9. patched => active_frames' = Cardinality(Counted')
  <2> SUFFICES ASSUME patched
               PROVE  active_frames' = Cardinality(Counted')
    OBVIOUS
  <2>1. \A i \in 1 .. MaxScans :
          IsCounted(r, "engine", i) <=> i # Len(s) /\ IsCounted(s, place[t], i)
    <3> TAKE i \in 1 .. MaxScans
    <3>1. i <= Len(r) <=> i <= Len(s) /\ i # Len(s)
      BY <1>3, SourceAssumption
    <3>2. i <= Len(r) => r[i] = s[i]
      BY <1>3, SourceAssumption
    <3> QED BY <3>1, <3>2 DEF IsCounted
  <2>2. active_frames = Cardinality(Counted)
    BY DEF SourceSound, PatchedSound
  <2>3. Len(s) \in 1 .. MaxScans
    BY <1>3, OfThread, SourceAssumption
  <2>4. CASE IsCounted(s, place[t], Len(s))
    <3>1. Cardinality(Counted') = Cardinality(Counted) - 1
      BY <1>5, <2>1, <2>3, <2>4, CountedLess
    <3> QED BY <2>2, <2>4, <3>1
  <2>5. CASE ~IsCounted(s, place[t], Len(s))
    <3>1. Counted' = Counted
      BY <1>5, <2>1, <2>5, CountedStays
    <3> QED BY <2>2, <2>5, <3>1
  <2> QED BY <2>4, <2>5
<1>10. patched => \A c \in SourceBanks : leases'[c] = t => Uses(c, word[t], "engine", h)
  BY DEF Uses
<1> HIDE DEF s
<1> QED BY <1>2, <1>3, <1>4, <1>6, <1>7, <1>8, <1>9, <1>10, Assemble DEF s

LEMMA Unchanging ==
  ASSUME SourceTypeOK, NEW t \in Scanners, UNCHANGED <<leases, active_frames>>
  PROVE  LeaseStep(t) /\ active_frames' \in Int
BY DEF LeaseStep, SourceTypeOK

LEMMA ReturnScannerKept ==
  ASSUME SourceSound, NEW t \in Scanners, ReturnScanner(t)
  PROVE  SourceSound'
<1> DEFINE s == scans[t]
<1>1. SourceTypeOK /\ place[t] = "engine" /\ s # <<>>
  BY DEF SourceSound, ReturnScanner
<1>2. /\ s \in Seq(Frames) /\ word[t] \in Words /\ hand[t] \in SourceBanks
      /\ {"engine", "leave"} \subseteq ScanPlaces
  BY <1>1, SourceTypes DEF ScanPlaces
<1>3. UNCHANGED <<readiness, records, hand, installing>>
  BY DEF ReturnScanner
<1>4. tls => \A p \in {"engine", "leave"} : StackLeased(t, word[t], p, hand[t], leases)
  BY OfThread DEF StackLeased, Holding
<1>5. patched => /\ ScanSound(s, word[t], "engine", hand[t], t \in allotted)
                 /\ \A c \in SourceBanks : leases[c] = t =>
                      \E i \in 1 .. Len(word[t].banks) : word[t].banks[i] = c
  BY <1>1, OfThread DEF SourceSound, PatchedSound, Uses, Holding
<1>6. CASE patched /\ Last(s).locked
  <2>1. UNCHANGED scans /\ place' = [place EXCEPT ![t] = "leave"]
        /\ hand' = [hand EXCEPT ![t] = hand[t]]
    BY <1>1, <1>3, <1>6, Moves DEF ReturnScanner
  <2>2. ScanSound(s, word[t], "leave", hand[t], t \in allotted)
    BY <1>1, <1>5, <1>6
       DEF ScanSound, FramesSound, TopSound, Settled, Entering, Leaving, Last
  <2>3. \A c \in SourceBanks : leases[c] = t => Uses(c, word[t], "leave", hand[t])
    BY <1>5, <1>6 DEF Uses
  <2>4. \A i \in 1 .. MaxScans : IsCounted(s, "leave", i) <=> IsCounted(s, place[t], i)
    BY <1>1 DEF IsCounted
  <2> QED BY <1>1, <1>2, <1>3, <1>4, <1>6, <2>1, <2>2, <2>3, <2>4, MoveKept
<1>7. CASE ~(patched /\ Last(s).locked)
  <2>1. /\ scans' = [scans EXCEPT ![t] = Front(@)]
        /\ place' = [place EXCEPT ![t] = "engine"] /\ hand' = [hand EXCEPT ![t] = hand[t]]
        /\ UNCHANGED <<word, allotted, leases, active_frames, readiness, installing>>
    BY <1>1, <1>3, <1>7 DEF ReturnScanner, SourceTypeOK, records
  <2>2. LeaseStep(t) /\ active_frames' \in Int
    BY <1>1, <2>1, Unchanging
  <2>3. patched => \A i \in 1 .. Len(s) : s[i].bank = Unrecorded
    BY <1>1, <1>2, <1>5, <1>7, OfThread, UnlockedUnrecorded DEF ScanSound
  <2>4. patched => Agrees(s, word[t], Len(s) - 1)
    BY <1>1, <1>2, <1>5, <2>3, SettledUnrecorded
  <2>5. patched => ~IsCounted(s, place[t], Len(s))
    <3>1. Len(s) \in 1 .. Len(s)
      BY <1>1, <1>2, FrontAndLast
    <3> QED BY <2>3, <3>1 DEF IsCounted
  <2> QED BY <1>1, <1>2, <1>4, <1>5, <2>1, <2>2, <2>4, <2>5, PopKept
<1> QED BY <1>6, <1>7

LEMMA LeaveRefusedKept ==
  ASSUME SourceSound, NEW t \in Scanners, LeaveRefused(t)
  PROVE  SourceSound'
<1> DEFINE s == scans[t]
<1>1. SourceTypeOK /\ place[t] = "leave" /\ s # <<>>
  BY OfThread DEF SourceSound, LeaveRefused
<1>2. s \in Seq(Frames) /\ word[t] \in Words /\ 1 \in SourceBanks
  BY <1>1, SourceTypes, SourceAssumption DEF SourceBanks
<1>3. /\ scans' = [scans EXCEPT ![t] = Front(@)]
      /\ place' = [place EXCEPT ![t] = "engine"] /\ hand' = [hand EXCEPT ![t] = 1]
      /\ UNCHANGED <<word, allotted, leases, active_frames, readiness, installing>>
  BY DEF LeaveRefused, ScanLeft, Resume, Move, records
<1>4. LeaseStep(t) /\ active_frames' \in Int
  BY <1>1, <1>3, Unchanging
<1>5. tls => StackLeased(t, word[t], "engine", 1, leases')
  BY <1>3, OfThread DEF StackLeased, Holding
<1>6. patched => /\ ScanSound(s, word[t], "leave", hand[t], t \in allotted)
                 /\ \A c \in SourceBanks : leases'[c] = t =>
                      \E i \in 1 .. Len(word[t].banks) : word[t].banks[i] = c
  BY <1>1, <1>3, OfThread DEF SourceSound, PatchedSound, Uses, Holding
<1>7. Len(s) \in Nat \ {0}
  BY <1>1, <1>2, FrontAndLast
<1>8. patched => \A i \in 1 .. Len(s) : s[i].bank = Unrecorded
  <2>1. patched => word[t] = NoFrames
    BY OfThread DEF LeaveRefused
  <2>2. patched => Agrees(s, word[t], Len(s))
    BY <1>6 DEF ScanSound, FramesSound, Settled, Entering, Leaving
  <2> QED BY <1>7, <2>1, <2>2, AgreesWithNone
<1>9. patched => Agrees(s, word[t], Len(s) - 1)
  BY <1>1, <1>2, <1>6, <1>8, SettledUnrecorded
<1>10. patched => ~IsCounted(s, place[t], Len(s))
  BY <1>7, <1>8 DEF IsCounted
<1> QED BY <1>1, <1>2, <1>3, <1>4, <1>5, <1>6, <1>9, <1>10, PopKept

LEMMA LeaveFallbackKept ==
  ASSUME SourceSound, NEW t \in Scanners, LeaveFallback(t)
  PROVE  SourceSound'
<1> DEFINE s == scans[t]
           v == [word[t] EXCEPT !.fallback = @ - 1]
<1>1. SourceTypeOK /\ place[t] = "leave" /\ s # <<>> /\ word[t].fallback # 0
  BY OfThread DEF SourceSound, LeaveFallback
<1>2. /\ s \in Seq(Frames) /\ word[t] \in Words /\ hand[t] \in SourceBanks
      /\ word[t].fallback \in Nat
  BY <1>1, SourceTypes
<1>3. v \in Words /\ v.banks = word[t].banks /\ v.fallback = word[t].fallback - 1
  BY <1>1, <1>2 DEF Words
<1>4. /\ UNCHANGED <<readiness, leases, active_frames, scans, installing>>
      /\ word' = [word EXCEPT ![t] = v] /\ allotted' = allotted \cup {t}
      /\ place' = [place EXCEPT ![t] = "uncount"] /\ hand' = [hand EXCEPT ![t] = hand[t]]
  BY <1>1, Moves DEF LeaveFallback, Store
<1>5. LeaseStep(t) /\ active_frames' \in Int
  BY <1>1, <1>4, Unchanging
<1>6. ThreadStep(t, s, v, "uncount", hand[t])
  BY <1>1, <1>4 DEF ThreadStep, SourceTypeOK
<1>7. LocalStep(t) /\ scans'[t] = s /\ place'[t] = "uncount"
  BY <1>1, <1>4, <1>5, <1>6 DEF LocalStep, ThreadStep, LeaseStep, SourceTypeOK
<1>8. tls => StackLeased(t, v, "uncount", hand[t], leases')
  BY <1>3, <1>4, OfThread DEF StackLeased, Holding
<1>9. patched => ScanSound(s, word[t], "leave", hand[t], t \in allotted)
  BY <1>1, OfThread
<1>10. patched => ScanSound(s, v, "uncount", hand[t], t \in allotted')
  <2> SUFFICES ASSUME patched
               PROVE  ScanSound(s, v, "uncount", hand[t], TRUE)
    BY <1>4
  <2>1. Agrees(s, word[t], Len(s)) /\ Settled(s, "uncount") = Len(s) - 1
    BY <1>9 DEF ScanSound, FramesSound, Settled, Entering, Leaving
  <2>2. Agrees(s, v, Len(s) - 1) /\ s[Len(s)].bank = StockArray
    <3>1. Len(s) \in Nat
      BY <1>2, LenProperties
    <3> HIDE DEF s, v
    <3> QED BY <1>1, <1>2, <1>3, <2>1, <3>1, AgreesLessStock
  <2>3. \A i \in 1 .. Len(s) : FrameSound(s[i], TRUE)
    BY <1>9 DEF ScanSound, FramesSound, FrameSound
  <2>4. TopSound(s, v, "uncount", hand[t])
    BY <1>1, <1>9, <2>2 DEF ScanSound, TopSound, Entering
  <2> QED BY <2>1, <2>2, <2>3, <2>4 DEF ScanSound, FramesSound
<1>11. patched => \A c \in SourceBanks : leases'[c] = t => Uses(c, v, "uncount", hand[t])
  BY <1>1, <1>3, <1>4 DEF SourceSound, PatchedSound, Uses, Holding
<1>12. patched => active_frames' = Cardinality(Counted')
  <2>1. \A i \in 1 .. MaxScans : IsCounted(s, "uncount", i) <=> IsCounted(s, place[t], i)
    BY <1>1 DEF IsCounted
  <2>2. Counted' = Counted
    BY <1>7, <2>1, CountedStays
  <2> QED BY <1>4, <2>2 DEF SourceSound, PatchedSound
<1>13. ~Before /\ "uncount" \in ScanPlaces /\ Len(s) <= Len(s)
  BY <1>1, <1>2, OfThread, LenProperties DEF ScanPlaces
<1>14. init_state # 3
  BY DEF LeaveFallback
<1> HIDE DEF s, v
<1> QED BY <1>1, <1>2, <1>3, <1>4, <1>5, <1>6, <1>8, <1>10, <1>11, <1>12, <1>13, <1>14, Assemble
        DEF s

LEMMA LeaveBankKept ==
  ASSUME SourceSound, NEW t \in Scanners, LeaveBank(t)
  PROVE  SourceSound'
<1> DEFINE s == scans[t]
           w == word[t]
           v == [w EXCEPT !.banks = Front(@)]
           b == Last(w.banks)
<1>1. /\ SourceTypeOK /\ place[t] = "leave" /\ s # <<>> /\ w.fallback = 0 /\ w.banks # <<>>
      /\ init_state # 3
  BY OfThread DEF SourceSound, LeaveBank
<1>2. s \in Seq(Frames) /\ w \in Words /\ w.banks \in Seq(SourceBanks)
  BY <1>1, SourceTypes
<1>3. /\ Len(w.banks) \in Nat \ {0} /\ b \in SourceBanks /\ b = w.banks[Len(w.banks)]
      /\ Front(w.banks) \in Seq(SourceBanks) /\ Len(Front(w.banks)) = Len(w.banks) - 1
      /\ \A i \in 1 .. Len(w.banks) - 1 : Front(w.banks)[i] = w.banks[i]
  BY <1>1, <1>2, FrontAndLast
<1>4. v \in Words /\ v.banks = Front(w.banks) /\ v.fallback = 0
  BY <1>1, <1>2, <1>3 DEF Words
<1>5. /\ UNCHANGED <<readiness, leases, active_frames, scans, installing>>
      /\ word' = [word EXCEPT ![t] = v] /\ allotted' = allotted \cup {t}
      /\ place' = [place EXCEPT ![t] = "uncount_bank"] /\ hand' = [hand EXCEPT ![t] = b]
  BY DEF LeaveBank, Store, Move
<1>6. LeaseStep(t) /\ active_frames' \in Int
  BY <1>1, <1>5, Unchanging
<1>7. ThreadStep(t, s, v, "uncount_bank", b)
  BY <1>1, <1>5 DEF ThreadStep, SourceTypeOK
<1>8. LocalStep(t) /\ scans'[t] = s /\ place'[t] = "uncount_bank"
  BY <1>1, <1>5, <1>6, <1>7 DEF LocalStep, ThreadStep, LeaseStep, SourceTypeOK
<1>9. \A i \in 1 .. Len(v.banks) :
        i \in 1 .. Len(w.banks) /\ i # Len(w.banks) /\ v.banks[i] = w.banks[i]
  <2>1. \A i \in 1 .. Len(v.banks) : i \in 1 .. Len(w.banks) - 1
    BY <1>3, <1>4
  <2>2. \A i \in 1 .. Len(w.banks) - 1 : i \in 1 .. Len(w.banks) /\ i # Len(w.banks)
    BY <1>3
  <2> QED BY <1>3, <1>4, <2>1, <2>2
<1>10. \A i \in 1 .. Len(w.banks) : i = Len(w.banks) \/ i \in 1 .. Len(v.banks)
  BY <1>3, <1>4
<1> HIDE DEF v, b
<1>11. tls => StackLeased(t, v, "uncount_bank", b, leases')
  <2> SUFFICES ASSUME tls
               PROVE  StackLeased(t, v, "uncount_bank", b, leases)
    BY <1>5
  <2>1. /\ \A i \in 1 .. Len(w.banks) : leases[w.banks[i]] = t
        /\ \A i, j \in 1 .. Len(w.banks) : i # j => w.banks[i] # w.banks[j]
    BY OfThread DEF StackLeased
  <2>2. Len(w.banks) \in 1 .. Len(w.banks)
    BY <1>3
  <2>3. leases[b] = t /\ \A i \in 1 .. Len(v.banks) : leases[v.banks[i]] = t /\ v.banks[i] # b
    BY <1>3, <1>9, <2>1, <2>2
  <2>4. \A i, j \in 1 .. Len(v.banks) : i # j => v.banks[i] # v.banks[j]
    BY <1>9, <2>1
  <2> QED BY <2>3, <2>4 DEF StackLeased
<1>12. patched => ScanSound(s, w, "leave", hand[t], t \in allotted)
  BY <1>1, OfThread
<1>13. patched => ScanSound(s, v, "uncount_bank", b, t \in allotted')
  <2> SUFFICES ASSUME patched
               PROVE  ScanSound(s, v, "uncount_bank", b, TRUE)
    BY <1>5
  <2>1. Agrees(s, w, Len(s)) /\ Settled(s, "uncount_bank") = Len(s) - 1
    BY <1>12 DEF ScanSound, FramesSound, Settled, Entering, Leaving
  <2>2. Agrees(s, v, Len(s) - 1) /\ s[Len(s)].bank = b
    <3>1. Len(s) \in Nat
      BY <1>2, LenProperties
    <3> HIDE DEF s, w
    <3> QED BY <1>1, <1>2, <1>4, <2>1, <3>1, AgreesLessBank DEF b
  <2>3. \A i \in 1 .. Len(s) : FrameSound(s[i], TRUE)
    BY <1>12 DEF ScanSound, FramesSound, FrameSound
  <2>4. TopSound(s, v, "uncount_bank", b)
    BY <1>1, <1>12, <2>2 DEF ScanSound, TopSound, Entering
  <2> QED BY <2>1, <2>2, <2>3, <2>4 DEF ScanSound, FramesSound
<1>14. patched => \A c \in SourceBanks : leases'[c] = t => Uses(c, v, "uncount_bank", b)
  <2> SUFFICES ASSUME patched, NEW c \in SourceBanks, leases[c] = t
               PROVE  Uses(c, v, "uncount_bank", b)
    BY <1>5
  <2>1. PICK i \in 1 .. Len(w.banks) : w.banks[i] = c
    BY <1>1 DEF SourceSound, PatchedSound, Uses, Holding
  <2> QED BY <1>3, <1>9, <1>10, <2>1 DEF Uses, Holding
<1>15. patched => active_frames' = Cardinality(Counted')
  <2>1. \A i \in 1 .. MaxScans : IsCounted(s, "uncount_bank", i) <=> IsCounted(s, place[t], i)
    BY <1>1 DEF IsCounted
  <2>2. Counted' = Counted
    BY <1>8, <2>1, CountedStays
  <2> QED BY <1>5, <2>2 DEF SourceSound, PatchedSound
<1>16. ~Before /\ "uncount_bank" \in ScanPlaces /\ Len(s) <= Len(s)
  BY <1>1, <1>2, OfThread, LenProperties DEF ScanPlaces
<1> HIDE DEF s, w
<1> QED BY <1>1, <1>2, <1>3, <1>4, <1>5, <1>6, <1>7, <1>11, <1>13, <1>14, <1>15, <1>16, Assemble
        DEF s, w

LEMMA LeaveCountKept ==
  ASSUME SourceSound, NEW t \in Scanners, LeaveCount(t)
  PROVE  SourceSound'
<1> DEFINE s == scans[t]
           b == hand[t]
<1>1. /\ SourceTypeOK /\ s # <<>> /\ place[t] \in {"uncount", "uncount_bank"}
      /\ active_frames' = active_frames - 1
  BY OfThread DEF SourceSound, LeaveCount
<1>2. /\ s \in Seq(Frames) /\ word[t] \in Words /\ 1 \in SourceBanks /\ b \in SourceBanks
      /\ "release" \in ScanPlaces
  BY <1>1, SourceTypes, SourceAssumption DEF SourceBanks, ScanPlaces
<1>3. Len(s) \in 1 .. MaxScans
  BY <1>1, <1>2, OfThread, FrontAndLast, SourceAssumption
<1>4. UNCHANGED <<readiness, word, allotted, leases, installing>>
  BY DEF LeaveCount
<1>5. LeaseStep(t) /\ active_frames' \in Int /\ ~Before
  BY <1>1, <1>4, OfThread DEF LeaseStep, SourceTypeOK
<1>6. patched => ScanSound(s, word[t], place[t], b, t \in allotted)
  BY <1>1, OfThread
<1>7. patched => IsCounted(s, place[t], Len(s))
  <2>1. StockArray # Unrecorded /\ \A c \in SourceBanks : c # Unrecorded
    BY DEF StockArray, Unrecorded, SourceBanks
  <2> QED BY <1>1, <1>2, <1>3, <1>6, <2>1 DEF IsCounted, ScanSound, TopSound
<1>8. CASE place[t] = "uncount"
  <2>1. /\ scans' = [scans EXCEPT ![t] = Front(@)]
        /\ place' = [place EXCEPT ![t] = "engine"] /\ hand' = [hand EXCEPT ![t] = 1]
    BY <1>8 DEF LeaveCount, ScanLeft, Resume, Move
  <2>2. tls => StackLeased(t, word[t], "engine", 1, leases')
    BY <1>4, OfThread DEF StackLeased, Holding
  <2>3. patched => Agrees(s, word[t], Len(s) - 1)
    BY <1>6, <1>8 DEF ScanSound, FramesSound, Settled, Leaving
  <2>4. patched => \A c \in SourceBanks : leases'[c] = t =>
                     \E i \in 1 .. Len(word[t].banks) : word[t].banks[i] = c
    BY <1>4, <1>8 DEF SourceSound, PatchedSound, Uses, Holding
  <2> HIDE DEF b
  <2> QED BY <1>1, <1>2, <1>4, <1>5, <1>7, <2>1, <2>2, <2>3, <2>4, PopKept
<1>9. CASE place[t] = "uncount_bank"
  <2>1. /\ UNCHANGED scans
        /\ place' = [place EXCEPT ![t] = "release"] /\ hand' = [hand EXCEPT ![t] = b]
    BY <1>1, <1>9, Moves DEF LeaveCount
  <2>2. ThreadStep(t, s, word[t], "release", b)
    BY <1>1, <1>4, <2>1 DEF ThreadStep, SourceTypeOK
  <2>3. LocalStep(t) /\ scans'[t] = s /\ place'[t] = "release"
    BY <1>1, <1>4, <1>5, <2>1, <2>2 DEF LocalStep, ThreadStep, LeaseStep, SourceTypeOK
  <2>4. tls => StackLeased(t, word[t], "release", b, leases')
    BY <1>4, <1>9, OfThread DEF StackLeased, Holding
  <2>5. patched => ScanSound(s, word[t], "release", b, t \in allotted')
    BY <1>4, <1>6, <1>9 DEF ScanSound, FramesSound, TopSound, Settled, Entering, Leaving
  <2>6. patched => \A c \in SourceBanks : leases'[c] = t => Uses(c, word[t], "release", b)
    BY <1>4, <1>9 DEF SourceSound, PatchedSound, Uses, Holding
  <2>7. patched => active_frames' = Cardinality(Counted')
    <3> SUFFICES ASSUME patched
                 PROVE  active_frames' = Cardinality(Counted')
      OBVIOUS
    <3>1. \A i \in 1 .. MaxScans : IsCounted(s, "release", i) <=>
                                    i # Len(s) /\ IsCounted(s, place[t], i)
      BY <1>9 DEF IsCounted
    <3>2. Cardinality(Counted') = Cardinality(Counted) - 1
      BY <1>3, <1>7, <2>3, <3>1, CountedLess
    <3> QED BY <1>1, <3>2 DEF SourceSound, PatchedSound
  <2>8. Len(s) <= Len(s)
    BY <1>3
  <2> HIDE DEF s, b
  <2> QED BY <1>1, <1>2, <1>4, <1>5, <2>1, <2>2, <2>4, <2>5, <2>6, <2>7, <2>8, Assemble DEF s
<1> QED BY <1>1, <1>8, <1>9

LEMMA LeaveUnleaseKept ==
  ASSUME SourceSound, NEW t \in Scanners, LeaveUnlease(t)
  PROVE  SourceSound'
<1> DEFINE s == scans[t]
           b == hand[t]
<1>1. SourceTypeOK /\ place[t] = "release" /\ s # <<>>
  BY OfThread DEF SourceSound, LeaveUnlease
<1>2. /\ s \in Seq(Frames) /\ word[t] \in Words /\ 1 \in SourceBanks /\ b \in SourceBanks
      /\ \A i \in 1 .. Len(word[t].banks) : word[t].banks[i] \in SourceBanks
  BY <1>1, SourceTypes, SourceAssumption DEF SourceBanks
<1>3. /\ scans' = [scans EXCEPT ![t] = Front(@)]
      /\ place' = [place EXCEPT ![t] = "engine"] /\ hand' = [hand EXCEPT ![t] = 1]
      /\ UNCHANGED <<word, allotted, active_frames, readiness, installing>>
  BY DEF LeaveUnlease, ScanLeft, Resume, Move
<1>4. LeaseStep(t) /\ leases'[b] # t /\ \A c \in SourceBanks \ {b} : leases'[c] = leases[c]
  BY <1>1, Unleases DEF LeaveUnlease
<1>5. tls => StackLeased(t, word[t], "engine", 1, leases')
  <2>1. tls => StackLeased(t, word[t], "release", b, leases)
    BY <1>1, OfThread
  <2> QED BY <1>2, <1>4, <2>1 DEF StackLeased, Holding
<1>6. patched => ScanSound(s, word[t], "release", b, t \in allotted)
  BY <1>1, OfThread
<1>7. patched => Agrees(s, word[t], Len(s) - 1)
  BY <1>6 DEF ScanSound, FramesSound, Settled, Leaving
<1>8. patched => \A c \in SourceBanks : leases'[c] = t =>
                   \E i \in 1 .. Len(word[t].banks) : word[t].banks[i] = c
  BY <1>1, <1>4 DEF SourceSound, PatchedSound, Uses
<1>9. ~IsCounted(s, place[t], Len(s)) /\ ~Before /\ active_frames' \in Int
  BY <1>1, <1>3, OfThread DEF IsCounted, SourceTypeOK
<1> HIDE DEF b
<1> QED BY <1>1, <1>2, <1>3, <1>4, <1>5, <1>7, <1>8, <1>9, PopKept

\* A scan is given the storage of its own frame.
LEMMA OwnStorage ==
  ASSUME SourceSound, patched, NEW t \in Scanners, place[t] = "engine", scans[t] # <<>>
  PROVE  ActiveStorage(t) = StorageOf(Last(scans[t]))
<1> DEFINE s == scans[t]
           w == word[t]
           b == Last(w.banks)
           v == [w EXCEPT !.banks = Front(@)]
           u == [w EXCEPT !.fallback = @ - 1]
<1>1. SourceTypeOK /\ ScanSound(s, w, "engine", hand[t], t \in allotted)
      /\ init_state = 2 /\ tls /\ StackLeased(t, w, "engine", hand[t], leases)
  BY OfThread DEF SourceSound
<1>2. s \in Seq(Frames) /\ w \in Words /\ w.banks \in Seq(SourceBanks) /\ w.fallback \in Nat
  BY <1>1, SourceTypes
<1>3. Len(s) \in Nat \ {0} /\ Last(s) = s[Len(s)]
  BY <1>2, FrontAndLast
<1>4. Agrees(s, w, Len(s))
  BY <1>1 DEF ScanSound, FramesSound, Settled, Entering, Leaving
<1>5. StockArray \notin SourceBanks /\ Unrecorded \notin SourceBanks
  BY DEF StockArray, Unrecorded, SourceBanks
<1>6. CASE w.fallback = 0 /\ w.banks # <<>>
  <2>1. /\ Len(w.banks) \in Nat \ {0} /\ b \in SourceBanks /\ b = w.banks[Len(w.banks)]
        /\ Front(w.banks) \in Seq(SourceBanks)
    BY <1>2, <1>6, FrontAndLast
  <2>2. v \in Words /\ v.banks = Front(w.banks) /\ v.fallback = 0
    BY <1>2, <1>6, <2>1 DEF Words
  <2>3. s[Len(s)].bank = b
    <3> HIDE DEF s, w, v
    <3> QED BY <1>2, <1>3, <1>4, <1>6, <2>2, AgreesLessBank DEF w
  <2>4. leases[b] = t
    <3>1. Len(w.banks) \in 1 .. Len(w.banks)
      BY <2>1
    <3> QED BY <1>1, <2>1, <3>1 DEF StackLeased
  <2>5. ActiveStorage(t) = b
    BY <1>1, <1>6, <2>4 DEF ActiveStorage
  <2> QED BY <1>3, <2>1, <2>3, <2>5 DEF StorageOf
<1>7. CASE w.fallback # 0
  <2>1. u \in Words /\ u.banks = w.banks /\ u.fallback = w.fallback - 1
    BY <1>2, <1>7 DEF Words
  <2>2. s[Len(s)].bank = StockArray
    <3> HIDE DEF s, w, u
    <3> QED BY <1>2, <1>3, <1>4, <1>7, <2>1, AgreesLessStock
  <2>3. ActiveStorage(t) = StockArray
    BY <1>7 DEF ActiveStorage
  <2> QED BY <1>3, <1>5, <2>2, <2>3 DEF StorageOf
<1>8. CASE w.fallback = 0 /\ w.banks = <<>>
  <2>1. w = NoFrames
    BY <1>2, <1>8 DEF Words, NoFrames
  <2>2. s[Len(s)].bank = Unrecorded
    <3>1. \A i \in 1 .. Len(s) : s[i].bank = Unrecorded
      BY <1>3, <1>4, <2>1, AgreesWithNone
    <3> QED BY <1>3, <3>1
  <2>3. ActiveStorage(t) = StockArray
    BY <1>8 DEF ActiveStorage
  <2> QED BY <1>3, <1>5, <2>2, <2>3 DEF StorageOf
<1> QED BY <1>6, <1>7, <1>8

LEMMA WriteKept ==
  ASSUME SourceSound, NEW t \in Scanners, Write(t)
  PROVE  SourceSound'
<1> DEFINE s == scans[t]
           top == Last(s)
           area == ActiveStorage(t)
           f == [top EXCEPT !.count = @ + 1,
                   !.storage = IF @ \in {Unused, area} THEN area ELSE Unrecorded]
           r == [s EXCEPT ![Len(s)] = f]
<1>1. /\ SourceTypeOK /\ place[t] = "engine" /\ s # <<>> /\ patched
      /\ top.count < Limit(area)
  BY DEF SourceSound, Write
<1>2. /\ s \in Seq(Frames) /\ word[t] \in Words /\ hand[t] \in SourceBanks
      /\ "engine" \in ScanPlaces
  BY <1>1, SourceTypes DEF ScanPlaces
<1>3. Len(s) \in Nat \ {0} /\ top = s[Len(s)] /\ top \in Frames
  BY <1>1, <1>2, FrontAndLast
<1>4. ScanSound(s, word[t], "engine", hand[t], t \in allotted)
  BY <1>1, OfThread
<1>5. FrameSound(top, t \in allotted)
  <2>1. Len(s) \in 1 .. Len(s)
    BY <1>3
  <2> QED BY <1>3, <1>4, <2>1 DEF ScanSound, FramesSound
<1>6. area = StorageOf(top)
  BY <1>1, OwnStorage
<1> HIDE DEF area
<1>7. /\ f \in Frames /\ f.locked = top.locked /\ f.bank = top.bank /\ f.storage = area
      /\ f.count <= Limit(area)
  <2>1. area \in SourceBanks \cup {StockArray} /\ top.storage \in {Unused, area}
    BY <1>5, <1>6 DEF StorageOf, FrameSound
  <2>2. top.count \in Nat /\ Limit(area) \in Nat
    BY <1>3, SourceAssumption DEF Frames, Limit
  <2>3. f = [top EXCEPT !.count = @ + 1, !.storage = area]
    BY <2>1
  <2>4. top.count + 1 \in Nat /\ top.count + 1 <= Limit(area)
    BY <1>1, <2>2
  <2> QED BY <1>3, <2>1, <2>3, <2>4 DEF Frames
<1>8. FrameSound(f, t \in allotted)
  BY <1>5, <1>6, <1>7 DEF FrameSound, StorageOf
<1> HIDE DEF f
<1>9. /\ r \in Seq(Frames) /\ r # <<>> /\ Len(r) = Len(s) /\ r[Len(s)] = f
      /\ \A i \in 1 .. Len(s) - 1 : r[i] = s[i]
  BY <1>1, <1>2, <1>7, TopReplaced
<1>10. UNCHANGED <<word, allotted, leases, active_frames, place, hand, readiness, installing>>
       /\ scans' = [scans EXCEPT ![t] = r]
  BY DEF Write, records, places, area, f
<1> HIDE DEF r, top
<1>11. \A i \in 1 .. Len(s) : /\ r[i].locked = s[i].locked /\ r[i].bank = s[i].bank
                              /\ FrameSound(r[i], t \in allotted)
  <2> TAKE i \in 1 .. Len(s)
  <2>1. CASE i = Len(s)
    BY <1>3, <1>7, <1>8, <1>9, <2>1
  <2>2. CASE i # Len(s)
    <3>1. i \in 1 .. Len(s) - 1
      BY <1>3, <2>2
    <3> QED BY <1>4, <1>9, <3>1 DEF ScanSound, FramesSound
  <2> QED BY <2>1, <2>2
<1>12. LeaseStep(t) /\ active_frames' \in Int
  BY <1>1, <1>10, Unchanging
<1>13. ThreadStep(t, r, word[t], "engine", hand[t])
  BY <1>1, <1>10 DEF ThreadStep, SourceTypeOK
<1>14. LocalStep(t) /\ scans'[t] = r /\ place'[t] = "engine"
  BY <1>1, <1>10, <1>12, <1>13 DEF LocalStep, ThreadStep, LeaseStep, SourceTypeOK
<1>15. tls => StackLeased(t, word[t], "engine", hand[t], leases')
  BY <1>1, <1>10, OfThread
<1>16. ScanSound(r, word[t], "engine", hand[t], t \in allotted')
  <2>1. Agrees(r, word[t], Len(r)) /\ Settled(r, "engine") = Len(r)
    <3>1. Agrees(s, word[t], Len(s))
      BY <1>4 DEF ScanSound, FramesSound, Settled, Entering, Leaving
    <3>2. Agrees(r, word[t], Len(s))
      BY <1>11, <3>1, AgreesOnPrefix
    <3> QED BY <1>9, <3>2 DEF Settled, Entering, Leaving
  <2>2. \A i \in 1 .. Len(r) : FrameSound(r[i], t \in allotted')
    BY <1>9, <1>10, <1>11
  <2> QED BY <1>9, <2>1, <2>2 DEF ScanSound, FramesSound, TopSound, Entering
<1>17. \A c \in SourceBanks : leases'[c] = t => Uses(c, word[t], "engine", hand[t])
  BY <1>1, <1>10 DEF SourceSound, PatchedSound
<1>18. active_frames' = Cardinality(Counted')
  <2>1. \A i \in 1 .. MaxScans : IsCounted(r, "engine", i) <=> IsCounted(s, place[t], i)
    <3> TAKE i \in 1 .. MaxScans
    <3>1. i <= Len(s) => i \in 1 .. Len(s)
      BY <1>3, SourceAssumption
    <3> QED BY <1>1, <1>9, <1>11, <3>1 DEF IsCounted
  <2>2. Counted' = Counted
    BY <1>14, <2>1, CountedStays
  <2> QED BY <1>1, <1>10, <2>2 DEF SourceSound, PatchedSound
<1>19. ~Before /\ Len(r) <= Len(s) /\ \A i \in 1 .. Len(r) : r[i].locked = s[i].locked
  BY <1>1, <1>3, <1>9, <1>11, OfThread
<1> HIDE DEF s
<1> QED BY <1>2, <1>9, <1>10, <1>12, <1>13, <1>15, <1>16, <1>17, <1>18, <1>19, Assemble DEF s

-----------------------------------------------------------------------------
\* The runtime is set up once.
OneRuntime == MaxRuntimes <= 1

\* Steps of the installer that leave what the threads have, and have no hooks in.
LEMMA InstallerKeeps ==
  ASSUME SourceSound, UNCHANGED <<records, places, scans>>, SourceTypeOK', InstallerSound',
         ~patched', tls' => tls, Before' => Before, HoldersAhead'
  PROVE  SourceSound'
<1> USE DEF SourceSound
<1>1. UNCHANGED <<word, allotted, leases, active_frames, place, hand, scans>>
  BY DEF records, places
<1>2. LockSound' /\ DepthSound'
  BY <1>1 DEF LockSound, DepthSound, Locked
<1>3. Before' => Untouched'
  BY <1>1 DEF Untouched
<1>4. StacksSound'
  BY <1>1 DEF StacksSound
<1>5. PatchedSound'
  BY DEF PatchedSound
<1> QED BY <1>2, <1>3, <1>4, <1>5

LEMMA InstallerTypes ==
  ASSUME SourceTypeOK, UNCHANGED <<word, allotted, leases, active_frames, place, hand, scans>>,
         init_state' \in {0, 2, 3}, tls' \in BOOLEAN, patched' \in BOOLEAN,
         runtimes' \in 0 .. MaxRuntimes, lease' \in 0 .. SourceBankCount + 1,
         holders' \subseteq Scanners
  PROVE  SourceTypeOK'
BY DEF SourceTypeOK

LEMMA PreparingKept ==
  ASSUME SourceSound, Configure \/ CommitUndone \/ Cancel \/ Unhook \/ Close
  PROVE  SourceSound'
<1> USE DEF SourceSound
<1>1. UNCHANGED <<records, places, scans, tls, lease, runtimes, holders>>
  BY DEF Configure, CommitUndone, Cancel, Unhook, Close, readiness
<1>2. /\ progress \in {"initialized", "prepared", "active", "close"}
      /\ progress' \in {"prepared", "shutdown", "dirty", "idle"}
      /\ progress' = "prepared" => progress = "initialized"
      /\ progress' = "idle" <=> progress = "close"
      /\ init_state' = IF progress = "close" THEN 0 ELSE init_state
      /\ patched' = FALSE
  BY DEF SourceTypeOK, Configure, CommitUndone, Cancel, Unhook, Close, readiness, Stage, InstallerSound
<1>3. SourceTypeOK'
  <2>1. UNCHANGED <<word, allotted, leases, active_frames, place, hand, scans>>
    BY <1>1 DEF records, places
  <2>2. /\ init_state' \in {0, 2, 3} /\ tls' \in BOOLEAN /\ patched' \in BOOLEAN
        /\ runtimes' \in 0 .. MaxRuntimes /\ lease' \in 0 .. SourceBankCount + 1
        /\ holders' \subseteq Scanners
    BY <1>1, <1>2 DEF SourceTypeOK
  <2> QED BY <2>1, <2>2, InstallerTypes
<1>4. InstallerSound'
  BY <1>1, <1>2 DEF InstallerSound
<1>5. Before' => Before
  BY <1>1, <1>2 DEF Before
<1>6. HoldersAhead'
  BY <1>2 DEF HoldersAhead
<1> QED BY <1>1, <1>2, <1>3, <1>4, <1>5, <1>6, InstallerKeeps

LEMMA ShutdownKept ==
  ASSUME SourceSound, BlockScans \/ CheckFrames \/ ScanLease
  PROVE  SourceSound'
<1> USE DEF SourceSound
<1>1. UNCHANGED <<records, places, scans, tls, patched, runtimes>>
      /\ progress \in {"shutdown", "frames", "scan"}
  BY DEF BlockScans, CheckFrames, ScanLease, Refuse, readiness
<1>2. ~patched /\ tls
  BY <1>1 DEF InstallerSound
<1>3. UNCHANGED <<word, allotted, leases, active_frames, place, hand, scans>>
  BY <1>1 DEF records, places
<1>0. /\ tls' \in BOOLEAN /\ patched' \in BOOLEAN /\ runtimes' \in 0 .. MaxRuntimes
      /\ init_state \in {0, 2, 3} /\ holders \subseteq Scanners
      /\ SourceBankCount \in Nat /\ lease \in 0 .. SourceBankCount + 1
  BY <1>1, SourceAssumption DEF SourceTypeOK
<1>4. CASE BlockScans
  <2>1. /\ init_state' = 3 /\ progress' = "frames" /\ UNCHANGED lease
        /\ holders' = {t \in Scanners : word[t].banks # <<>>} /\ progress = "shutdown"
    BY <1>4 DEF BlockScans, Stage
  <2>2. SourceTypeOK' /\ InstallerSound'
    <3>1. /\ init_state' \in {0, 2, 3} /\ lease' \in 0 .. SourceBankCount + 1
          /\ holders' \subseteq Scanners
      BY <1>0, <2>1
    <3>2. InstallerSound'
      BY <1>1, <1>2, <2>1 DEF InstallerSound
    <3> QED BY <1>0, <1>3, <3>1, <3>2, InstallerTypes
  <2>3. HoldersAhead' /\ (Before' => Before)
    BY <1>1, <1>3, <2>1 DEF HoldersAhead, Before
  <2> QED BY <1>1, <1>2, <2>2, <2>3, InstallerKeeps
<1>5. CASE (CheckFrames \/ ScanLease) /\ Refuse
  <2>1. init_state' = 2 /\ progress' = "dirty" /\ lease' = 0 /\ UNCHANGED holders
    BY <1>5 DEF Refuse, Stage
  <2>2. SourceTypeOK' /\ InstallerSound'
    <3>1. /\ init_state' \in {0, 2, 3} /\ lease' \in 0 .. SourceBankCount + 1
          /\ holders' \subseteq Scanners
      BY <1>0, <2>1
    <3>2. InstallerSound'
      BY <1>0, <1>1, <1>2, <2>1 DEF InstallerSound
    <3> QED BY <1>0, <1>3, <3>1, <3>2, InstallerTypes
  <2>3. HoldersAhead' /\ (Before' => Before)
    BY <1>1, <2>1 DEF HoldersAhead, Before
  <2> QED BY <1>1, <1>2, <2>2, <2>3, InstallerKeeps
<1>6. CASE CheckFrames /\ ~Refuse
  <2>1. /\ progress = "frames" /\ progress' = "scan" /\ lease' = 1
        /\ UNCHANGED <<init_state, holders>>
    BY <1>6 DEF CheckFrames, Stage, readiness
  <2>2. SourceTypeOK' /\ InstallerSound'
    <3>1. /\ init_state' \in {0, 2, 3} /\ lease' \in 0 .. SourceBankCount + 1
          /\ holders' \subseteq Scanners
      BY <1>0, <2>1
    <3>2. InstallerSound'
      BY <1>0, <1>1, <1>2, <2>1 DEF InstallerSound
    <3> QED BY <1>0, <1>3, <3>1, <3>2, InstallerTypes
  <2>3. HoldersAhead'
    <3>1. ASSUME NEW t \in holders
          PROVE  word[t].banks # <<>> /\ 1 <= word[t].banks[1]
      <4>1. t \in Scanners /\ word[t].banks # <<>>
        BY <2>1, <3>1 DEF SourceTypeOK, HoldersAhead
      <4>2. word[t].banks \in Seq(SourceBanks)
        BY <4>1, SourceTypes
      <4>3. 1 \in 1 .. Len(word[t].banks)
        BY <4>1, <4>2, FrontAndLast
      <4>4. word[t].banks[1] \in SourceBanks
        BY <4>2, <4>3, ElementOfSeq
      <4> QED BY <4>1, <4>4 DEF SourceBanks
    <3> QED BY <1>3, <2>1, <3>1 DEF HoldersAhead
  <2>4. Before' => Before
    BY <1>1, <2>1 DEF Before
  <2> QED BY <1>1, <1>2, <2>2, <2>3, <2>4, InstallerKeeps
<1>7. CASE ScanLease /\ ~Refuse
  <2>1. /\ progress = "scan" /\ progress' = "scan" /\ lease' = lease + 1
        /\ lease <= SourceBankCount /\ leases[lease] = Unleased
        /\ UNCHANGED <<init_state, holders>>
    BY <1>7 DEF ScanLease, readiness
  <2>2. SourceTypeOK' /\ InstallerSound'
    <3>1. /\ init_state' \in {0, 2, 3} /\ lease' \in 0 .. SourceBankCount + 1
          /\ holders' \subseteq Scanners
      BY <1>0, <2>1
    <3>2. InstallerSound'
      BY <1>0, <1>1, <1>2, <2>1 DEF InstallerSound
    <3> QED BY <1>0, <1>3, <3>1, <3>2, InstallerTypes
  <2>3. HoldersAhead'
    <3>1. ASSUME NEW t \in holders
          PROVE  word[t].banks # <<>> /\ lease + 1 <= word[t].banks[1]
      <4>1. t \in Scanners /\ word[t].banks # <<>> /\ lease <= word[t].banks[1]
        BY <2>1, <3>1 DEF SourceTypeOK, HoldersAhead
      <4>2. word[t].banks \in Seq(SourceBanks)
        BY <4>1, SourceTypes
      <4>3. 1 \in 1 .. Len(word[t].banks)
        BY <4>1, <4>2, FrontAndLast
      <4>4. word[t].banks[1] \in SourceBanks
        BY <4>2, <4>3, ElementOfSeq
      <4>5. leases[word[t].banks[1]] = t
        BY <1>2, <4>1, <4>3 DEF StacksSound, StackLeased
      <4>6. word[t].banks[1] # lease
        BY <2>1, <4>1, <4>5, SourceAssumption
      <4>7. lease \in Nat /\ word[t].banks[1] \in Nat
        BY <4>4, SourceAssumption DEF SourceTypeOK, SourceBanks
      <4> QED BY <4>1, <4>6, <4>7
    <3> QED BY <1>3, <2>1, <3>1 DEF HoldersAhead
  <2>4. Before' => Before
    BY <1>1, <2>1 DEF Before
  <2> QED BY <1>1, <1>2, <2>2, <2>3, <2>4, InstallerKeeps
<1> QED BY <1>4, <1>5, <1>6, <1>7

LEMMA FreeKept ==
  ASSUME SourceSound, Free
  PROVE  SourceSound' /\ holders = {}
<1> USE DEF SourceSound
<1>1. /\ progress = "scan" /\ lease > SourceBankCount /\ tls' = FALSE /\ progress' = "close"
      /\ word' = [t \in Scanners |-> NoFrames]
      /\ scans' = [t \in Scanners |->
            [i \in 1 .. Len(scans[t]) |-> [scans[t][i] EXCEPT !.bank = Unrecorded]]]
      /\ lease' = 0
      /\ UNCHANGED <<init_state, allotted, leases, active_frames, place, hand, patched,
                     runtimes, holders>>
  BY DEF Free, Stage, places
<1>2. \A t \in Scanners : /\ scans'[t] \in Seq(Frames) /\ Len(scans'[t]) = Len(scans[t])
                          /\ \A i \in 1 .. Len(scans[t]) : scans'[t][i].locked = scans[t][i].locked
                          /\ scans[t] # <<>> => scans'[t] # <<>>
  <2> TAKE t \in Scanners
  <2> DEFINE f == [i \in 1 .. Len(scans[t]) |-> [scans[t][i] EXCEPT !.bank = Unrecorded]]
  <2>1. /\ scans[t] \in Seq(Frames) /\ Len(scans[t]) \in Nat
        /\ \A i \in 1 .. Len(scans[t]) : scans[t][i] \in Frames
    BY SourceTypes
  <2>2. /\ \A i \in 1 .. Len(scans[t]) : f[i] \in Frames /\ f[i].locked = scans[t][i].locked
        /\ f \in [1 .. Len(scans[t]) -> Frames]
    BY <2>1 DEF Frames
  <2>3. f \in Seq(Frames) /\ Len(f) = Len(scans[t])
    BY <2>1, <2>2, SeqDef, LenProperties
  <2>4. scans'[t] = f
    BY <1>1
  <2> HIDE DEF f
  <2>5. scans[t] # <<>> => f # <<>>
    BY <2>1, <2>3, EmptySeq
  <2> QED BY <2>2, <2>3, <2>4, <2>5
<1>3. SourceTypeOK'
  <2>1. scans' \in [Scanners -> Seq(Frames)]
    BY <1>1, <1>2
  <2>2. word' \in [Scanners -> Words]
    <3>1. NoFrames \in Words
      BY DEF NoFrames, Words
    <3> QED BY <1>1, <3>1
  <2>3. 0 \in 0 .. SourceBankCount + 1 /\ FALSE \in BOOLEAN
    BY SourceAssumption
  <2> QED BY <1>1, <2>1, <2>2, <2>3 DEF SourceTypeOK, Frames, Words
<1>4. InstallerSound' /\ ~tls' /\ ~patched' /\ ~Before'
  BY <1>1 DEF InstallerSound, Before
<1>5. LockSound'
  <2>1. \A t \in Scanners : Locked(t)' <=> Locked(t)
    BY <1>2 DEF Locked
  <2>2. \A t \in Scanners : LockOrder(scans'[t])
    BY <1>2 DEF LockSound, LockOrder
  <2>3. \A t, u \in Scanners : Locked(t)' /\ Locked(u)' => t = u
    BY <2>1 DEF LockSound
  <2> QED BY <2>2, <2>3 DEF LockSound
<1>6. DepthSound'
  BY <1>1, <1>2 DEF DepthSound
<1>7. HoldersAhead' /\ StacksSound' /\ PatchedSound'
  BY <1>1, <1>4 DEF HoldersAhead, StacksSound, PatchedSound
<1>8. holders = {}
  <2> SUFFICES ASSUME NEW t \in holders
               PROVE  FALSE
    OBVIOUS
  <2>1. t \in Scanners /\ word[t].banks # <<>> /\ lease <= word[t].banks[1]
    BY <1>1 DEF SourceTypeOK, HoldersAhead
  <2>2. word[t].banks \in Seq(SourceBanks)
    BY <2>1, SourceTypes
  <2>3. 1 \in 1 .. Len(word[t].banks)
    BY <2>1, <2>2, FrontAndLast
  <2>4. word[t].banks[1] \in SourceBanks
    BY <2>2, <2>3, ElementOfSeq
  <2>5. word[t].banks[1] <= SourceBankCount /\ word[t].banks[1] \in Nat /\ lease \in Nat
        /\ SourceBankCount \in Nat
    BY <2>4, SourceAssumption DEF SourceTypeOK, SourceBanks
  <2> QED BY <1>1, <2>1, <2>5
<1> QED BY <1>3, <1>4, <1>5, <1>6, <1>7, <1>8

LEMMA InitializeKept ==
  ASSUME SourceSound, OneRuntime, SourceInitialize
  PROVE  SourceSound'
<1> USE DEF SourceSound
<1>1. runtimes = 0 /\ Before /\ Untouched
  BY SourceAssumption DEF OneRuntime, SourceInitialize, SourceTypeOK, Before
<1>2. /\ progress = "idle" /\ init_state' = 2 /\ tls' = TRUE /\ progress' = "initialized"
      /\ runtimes' = 1 /\ runtimes < MaxRuntimes
      /\ UNCHANGED <<word, allotted, leases, active_frames, place, hand, scans, lease, patched,
                     holders>>
  BY <1>1 DEF SourceInitialize, Untouched, Stage, places
<1>3. SourceTypeOK'
  <2>1. /\ init_state' \in {0, 2, 3} /\ tls' \in BOOLEAN /\ runtimes' \in 0 .. MaxRuntimes
        /\ patched' \in BOOLEAN /\ lease' \in 0 .. SourceBankCount + 1 /\ holders' \subseteq Scanners
    BY <1>2, SourceAssumption DEF SourceTypeOK
  <2> QED BY <1>2, <2>1, InstallerTypes
<1>4. InstallerSound' /\ ~patched'
  BY <1>2 DEF InstallerSound
<1>5. LockSound' /\ DepthSound'
  BY <1>2 DEF LockSound, DepthSound, Locked
<1>6. Untouched'
  BY <1>1, <1>2 DEF Untouched
<1>7. StacksSound'
  <2>1. \A t \in Scanners : word[t].banks = <<>> /\ place[t] = "engine"
    BY <1>1 DEF Untouched, NoFrames
  <2>2. \A t \in Scanners : StackLeased(t, word[t], place[t], hand[t], leases)
    BY <2>1 DEF StackLeased, Holding
  <2> QED BY <1>2, <2>2 DEF StacksSound
<1>8. HoldersAhead' /\ PatchedSound'
  BY <1>2, <1>4 DEF HoldersAhead, PatchedSound
<1> QED BY <1>3, <1>4, <1>5, <1>6, <1>7, <1>8

LEMMA CommitKept ==
  ASSUME SourceSound, Commit
  PROVE  SourceSound'
<1> USE DEF SourceSound
<1>1. /\ progress = "prepared" /\ progress' = "active" /\ patched'
      /\ UNCHANGED <<init_state, tls, word, allotted, leases, active_frames, place, hand, scans,
                     lease, runtimes, holders>>
  BY DEF Commit, Stage, readiness, records, places
<1>2. Untouched /\ runtimes > 0
  BY <1>1 DEF Before, InstallerSound
<1>3. SourceTypeOK' /\ InstallerSound'
  BY <1>1 DEF SourceTypeOK, InstallerSound
<1>4. LockSound' /\ DepthSound' /\ StacksSound' /\ HoldersAhead'
  BY <1>1 DEF LockSound, DepthSound, Locked, StacksSound, HoldersAhead
<1>5. ~Before'
  BY <1>1, <1>2 DEF Before
<1>6. \A t \in Scanners : ScanSound(scans[t], word[t], place[t], hand[t], t \in allotted)
  <2> TAKE t \in Scanners
  <2>1. word[t] = NoFrames /\ place[t] = "engine" /\ Fresh(scans[t])
    BY <1>2 DEF Untouched
  <2>2. Len(scans[t]) \in Nat
    BY SourceTypes
  <2>3. Agrees(scans[t], word[t], Len(scans[t]))
    BY <2>1, <2>2, AgreesWithNone DEF Fresh
  <2>4. \A i \in 1 .. Len(scans[t]) : FrameSound(scans[t][i], t \in allotted)
    BY <2>1 DEF Fresh, FrameSound
  <2> QED BY <2>1, <2>3, <2>4
          DEF ScanSound, FramesSound, TopSound, Settled, Entering, Leaving
<1>7. \A b \in SourceBanks, t \in Scanners :
        leases[b] = t => Uses(b, word[t], place[t], hand[t])
  BY <1>2, SourceAssumption DEF Untouched
<1>8. Counted = {} /\ active_frames = 0
  <2>1. \A t \in Scanners : Fresh(scans[t])
    BY <1>2 DEF Untouched
  <2>2. \A t \in Scanners, i \in 1 .. MaxScans : ~IsCounted(scans[t], place[t], i)
    <3> TAKE t \in Scanners, i \in 1 .. MaxScans
    <3>1. i <= Len(scans[t]) => i \in 1 .. Len(scans[t])
      BY SourceTypes, SourceAssumption
    <3> QED BY <2>1, <3>1 DEF Fresh, IsCounted
  <2> QED BY <1>2, <2>2 DEF Counted, Untouched
<1>9. PatchedSound'
  <2>1. Counted' = Counted
    BY <1>1 DEF Counted
  <2> QED BY <1>1, <1>6, <1>7, <1>8, <2>1, FS_EmptySet DEF PatchedSound
<1> QED BY <1>3, <1>4, <1>5, <1>9

LEMMA SourceStart ==
  ASSUME SourceInit
  PROVE  SourceSound
<1> USE DEF SourceInit
<1>1. SourceTypeOK
  <2>1. NoFrames \in [banks : Seq(SourceBanks), fallback : Nat] /\ 1 \in SourceBanks
    BY SourceAssumption DEF NoFrames, SourceBanks
  <2>2. /\ word \in [Scanners -> [banks : Seq(SourceBanks), fallback : Nat]]
        /\ hand \in [Scanners -> SourceBanks]
    BY <2>1
  <2>3. lease \in 0 .. SourceBankCount + 1 /\ runtimes \in 0 .. MaxRuntimes
    BY SourceAssumption
  <2>4. place \in [Scanners -> ScanPlaces]
    BY DEF ScanPlaces
  <2>5. /\ leases \in [SourceBanks -> Scanners \cup {Unleased}]
        /\ scans \in [Scanners -> Seq(Frames)]
    OBVIOUS
  <2>6. init_state \in {0, 2, 3} /\ active_frames \in Int
    OBVIOUS
  <2>7. tls = FALSE /\ patched = FALSE /\ allotted = {} /\ holders = {}
    OBVIOUS
  <2> HIDE DEF SourceInit
  <2> QED BY <2>2, <2>3, <2>4, <2>5, <2>6, <2>7 DEF SourceTypeOK, Frames
<1>2. \A t \in Scanners : scans[t] = <<>> /\ Len(scans[t]) = 0
  OBVIOUS
<1>3. InstallerSound /\ HoldersAhead /\ StacksSound /\ PatchedSound
  BY DEF InstallerSound, HoldersAhead, StacksSound, PatchedSound
<1>4. LockSound
  <2>1. \A t \in Scanners : ~Locked(t) /\ LockOrder(scans[t])
    BY <1>2 DEF Locked, LockOrder
  <2> QED BY <2>1 DEF LockSound
<1>5. DepthSound /\ Untouched
  BY <1>2, SourceAssumption DEF DepthSound, Untouched, Fresh
<1> QED BY <1>1, <1>3, <1>4, <1>5 DEF SourceSound

LEMMA SourceStutters ==
  ASSUME SourceSound, UNCHANGED source_vars
  PROVE  SourceSound'
<1>1. UNCHANGED <<init_state, tls, word, allotted, leases, active_frames, place, hand, scans,
                  progress, lease, patched, runtimes, holders>>
  BY DEF source_vars, readiness, records, places, installing
<1>2. SourceTypeOK' /\ InstallerSound' /\ HoldersAhead' /\ DepthSound'
  BY <1>1 DEF SourceSound, SourceTypeOK, InstallerSound, HoldersAhead, DepthSound
<1>3. LockSound' /\ StacksSound'
  BY <1>1 DEF SourceSound, LockSound, Locked, StacksSound
<1>4. Before' => Untouched'
  BY <1>1 DEF SourceSound, Before, Untouched
<1>5. PatchedSound'
  BY <1>1 DEF SourceSound, PatchedSound, Counted
<1> QED BY <1>2, <1>3, <1>4, <1>5 DEF SourceSound

LEMMA SourceKept ==
  ASSUME SourceSound, OneRuntime, [SourceNext]_source_vars
  PROVE  SourceSound'
<1>1. CASE Installer
  BY <1>1, InitializeKept, PreparingKept, CommitKept, ShutdownKept, FreeKept DEF Installer
<1>2. ASSUME NEW t \in Scanners, Engine(t)
      PROVE  SourceSound'
  BY <1>2, CallScannerKept, WriteKept, ReturnScannerKept DEF Engine
<1>3. ASSUME NEW t \in Scanners, Enter(t)
      PROVE  SourceSound'
  BY <1>3, EnterReadyKept, EnterLeaseKept, EnterStoreKept, EnterUnleaseKept, EnterPushKept,
     EnterCountKept DEF Enter
<1>4. ASSUME NEW t \in Scanners, Leave(t)
      PROVE  SourceSound'
  BY <1>4, LeaveRefusedKept, LeaveFallbackKept, LeaveBankKept, LeaveCountKept,
     LeaveUnleaseKept DEF Leave
<1> QED BY <1>1, <1>2, <1>3, <1>4, SourceStutters DEF SourceNext

\* Describes is what the invariant says of a thread's frames and word.
LEMMA DescribesAgrees ==
  ASSUME NEW t, NEW n, Agrees(scans[t], word[t], n)
  PROVE  Describes(t, n)
BY DEF Agrees, Layered, Describes

LEMMA SourceSoundGives ==
  ASSUME SourceSound
  PROVE  SourceInv
<1>1. SourceTypeOK
  BY DEF SourceSound
<1>2. FramesAreLeased
  <2> SUFFICES ASSUME tls, NEW t \in Scanners, NEW i \in 1 .. Len(word[t].banks)
               PROVE  /\ leases[word[t].banks[i]] = t
                      /\ \A j \in 1 .. i - 1 : word[t].banks[i] # word[t].banks[j]
    BY DEF FramesAreLeased
  <2>1. StackLeased(t, word[t], place[t], hand[t], leases)
    BY OfThread
  <2>2. \A j \in 1 .. i - 1 : j \in 1 .. Len(word[t].banks) /\ j # i
    BY <1>1, SourceTypes
  <2> QED BY <2>1, <2>2 DEF StackLeased
<1>3. FramesBalance
  <2> SUFFICES ASSUME patched
               PROVE  /\ \A t \in Scanners : place[t] = "engine" => Describes(t, Len(scans[t]))
                      /\ (\A t \in Scanners : place[t] = "engine" /\ scans[t] = <<>>) =>
                           active_frames = 0 /\ \A b \in SourceBanks : leases[b] = Unleased
    BY DEF FramesBalance
  <2>1. ASSUME NEW t \in Scanners, place[t] = "engine"
        PROVE  Agrees(scans[t], word[t], Len(scans[t])) /\ Describes(t, Len(scans[t]))
    <3>1. Agrees(scans[t], word[t], Len(scans[t]))
      BY <2>1, OfThread DEF ScanSound, FramesSound, Settled, Entering, Leaving
    <3> QED BY <3>1, DescribesAgrees
  <2>2. ASSUME \A t \in Scanners : place[t] = "engine" /\ scans[t] = <<>>
        PROVE  active_frames = 0 /\ \A b \in SourceBanks : leases[b] = Unleased
    <3>1. \A t \in Scanners : Len(scans[t]) = 0
      BY <2>2
    <3>2. Counted = {}
      <4>1. \A t \in Scanners, i \in 1 .. MaxScans : ~IsCounted(scans[t], place[t], i)
        BY <3>1 DEF IsCounted
      <4> QED BY <4>1 DEF Counted
    <3>3. ASSUME NEW b \in SourceBanks, leases[b] # Unleased
          PROVE  FALSE
      <4>1. PICK t \in Scanners : leases[b] = t
        BY <1>1, <3>3 DEF SourceTypeOK
      <4>2. word[t] = NoFrames
        <5>1. Agrees(scans[t], word[t], 0) /\ word[t] \in Words /\ 0 \in Nat
          BY <1>1, <2>1, <2>2, <3>1, SourceTypes
        <5>2. \A i \in 1 .. 0 : scans[t][i].bank = Unrecorded
          OBVIOUS
        <5> QED BY <5>1, <5>2, AgreesUnrecorded
      <4>3. Uses(b, word[t], "engine", hand[t])
        BY <2>2, <4>1 DEF SourceSound, PatchedSound
      <4> QED BY <4>2, <4>3 DEF Uses, Holding, NoFrames
    <3> QED BY <3>2, <3>3, FS_EmptySet DEF SourceSound, PatchedSound
  <2> QED BY <2>1, <2>2
<1>4. OneStoragePerScan
  <2> SUFFICES ASSUME patched, NEW t \in Scanners, NEW i \in 1 .. Len(scans[t]),
                      scans[t][i].storage # Unused
               PROVE  /\ scans[t][i].storage = IF scans[t][i].bank \in SourceBanks
                                               THEN scans[t][i].bank ELSE StockArray
                      /\ scans[t][i].count <= Limit(scans[t][i].storage)
    BY DEF OneStoragePerScan
  <2>1. FrameSound(scans[t][i], t \in allotted)
    BY OfThread DEF ScanSound, FramesSound
  <2> QED BY <2>1 DEF FrameSound, StorageOf
<1> QED BY <1>1, <1>2, <1>3, <1>4 DEF SourceInv

\* With the runtime set up once: every frame on a word holds its lease and is
\* the scan's own from entry to leave, nothing stays counted or leased, and each
\* scan writes to one storage and not past its end.
THEOREM SourceBanksSound ==
  ASSUME OneRuntime
  PROVE  SourceSpec => []SourceInv
<1>1. SourceInit => SourceSound
  BY SourceStart
<1>2. SourceSound /\ [SourceNext]_source_vars => SourceSound'
  BY SourceKept
<1>3. SourceSound => SourceInv
  BY SourceSoundGives
<1> QED BY <1>1, <1>2, <1>3, PTL DEF SourceSpec

\* And the shutdown never frees the TLS slot under a frame that had a bank when
\* it began, counted or not: it would have met the lease of that bank.
THEOREM SlotOutlivesItsFrames ==
  ASSUME OneRuntime
  PROVE  SourceSpec => SlotOutlivesFrames
<1>1. SourceInit => SourceSound
  BY SourceStart
<1>2. SourceSound /\ [SourceNext]_source_vars => SourceSound'
  BY SourceKept
<1>3. SourceSound /\ [SourceNext]_source_vars => [tls /\ ~tls' => holders = {}]_source_vars
  <2> SUFFICES ASSUME SourceSound, SourceNext, tls, ~tls'
               PROVE  holders = {}
    OBVIOUS
  <2>1. CASE Free
    BY <2>1, FreeKept
  <2>2. CASE ~Free
    BY <2>2 DEF SourceNext, Installer, Engine, Enter, Leave, SourceInitialize, Configure, Commit,
       CommitUndone, Cancel, Unhook, BlockScans, CheckFrames, ScanLease, Refuse, Close,
       CallScanner, Write, ReturnScanner, EnterReady, EnterLease, EnterStore, EnterUnlease,
       EnterPush, EnterCount, LeaveRefused, LeaveFallback, LeaveBank, LeaveCount, LeaveUnlease,
       readiness
  <2> QED BY <2>1, <2>2
<1> QED BY <1>1, <1>2, <1>3, PTL DEF SourceSpec, SlotOutlivesFrames

-----------------------------------------------------------------------------
(***************************************************************************)
(* The plant banks.  They are created once as well: gu_universal_prepare   *)
(* creates both kinds.                                                     *)
(***************************************************************************)
OneInstall == MaxInstalls <= 1

Generated      == [bank : Sources, source : Sources \cup {Unresolved}, total : Nat]
LeaseFrames    == [previous : Sources, leased : Sources]
ContextRecords == [owner : Threads \cup {Nobody}, frames : Seq(LeaseFrames), active : Sources,
                   overflow : Nat, before : Sources]

\* The types that TypeOK leaves open.
PlantTypes ==
  /\ TypeOK
  /\ nest \in [Threads -> Seq(Generated)]
  /\ contexts \in [Contexts -> ContextRecords]

\* The installer: where it is says what of the runtime there is.
PlantInstaller ==
  /\ hooked <=> stage \in {"active", "failing"}
  /\ stage = "initializing" => installs = 0 /\ installs < MaxInstalls
  /\ installs = 0 => stage \in {"idle", "initializing"}
  /\ cell # 0 => initialize_state = 1 /\ stage \in {"set", "clear", "shutdown"}
  /\ InUse => initialize_state = 2

\* Until the hooks are written, nobody has come through them.
Calm == installs = 0 \/ stage \in {"set", "prepared"}
PlantsUntouched ==
  /\ contexts = [c \in Contexts |-> NoContext]
  /\ bank_owner = [b \in Banks |-> 0]
  /\ \A t \in Threads : pc[t] = "engine" /\ nest[t] = <<>>

\* Of a thread t at the place p, with probe index n, context k in hand and the
\* generations s, and of the registry ctx: a context in hand is its own, and a
\* thread that looks for one to claim has none.
Placed(t, p, n, k, s, ctx) ==
  /\ Len(s) <= MaxNest
  /\ p \in {"enter", "lookup", "claim", "bank"} => Len(s) < MaxNest
  /\ p = "claim" => n \in Contexts /\ \A c \in Contexts : ctx[c].owner # t
  /\ p = "bank" => n \in Banks
  /\ p \notin {"claim", "bank"} => n = 1
  /\ p \in {"bank", "pop", "release"} => k \in Contexts /\ ctx[k].owner = t
AllPlaced == \A t \in Threads : Placed(t, pc[t], at[t], mine[t], nest[t], contexts)

OneContext == \A c, d \in Contexts :
  contexts[c].owner = contexts[d].owner /\ contexts[c].owner # Nobody => c = d

\* While the installer scans, whoever had a context when entry was blocked has
\* it ahead of the scan or has given it back, and then it comes for none again.
ElderAhead(c, t, p, owner) ==
  /\ p # "claim"
  /\ owner # t => p # "lookup"
  /\ owner = t => cell <= BankCount + c
EldersAhead == cell # 0 =>
  \A e \in elders : ElderAhead(e[1], e[2], pc[e[2]], contexts[e[1]].owner)

\* While the banks are in use: the context k, which is c, of a thread at p with
\* the generations s.  The outer ones had no context; then come those of its
\* frames, then those that overflowed.
Height(s, p) == IF p \in {"leave", "pop"} THEN Len(s) + 1 ELSE Len(s)
Outside(s, p, k) == Height(s, p) - Len(k.frames) - k.overflow
Leased(f) == IF f = <<>> THEN Stock ELSE f[Len(f)].leased
Chained(f) ==
  \A i \in 1 .. Len(f) : f[i].previous = IF i = 1 THEN Stock ELSE f[i - 1].leased
FramesLease(f, c, owner) ==
  /\ \A i \in 1 .. Len(f) : f[i].leased # Stock => owner[f[i].leased] = c
  /\ \A i, j \in 1 .. Len(f) : i # j /\ f[i].leased # Stock => f[i].leased # f[j].leased
Mirrors(s, f, o) ==
  \A i \in 1 .. Len(s) :
    s[i].bank = IF i > o /\ i <= o + Len(f) THEN f[i - o].leased ELSE Stock
ContextSound(s, p, k, c, owner) ==
  /\ Outside(s, p, k) >= 0
  /\ Mirrors(s, k.frames, Outside(s, p, k))
  /\ Chained(k.frames) /\ FramesLease(k.frames, c, owner)
  /\ k.active = IF k.overflow = 0 THEN Leased(k.frames) ELSE Stock
  /\ k.overflow > 0 => Len(k.frames) >= FrameDepth /\ k.before = Leased(k.frames)
  /\ p \notin {"bank", "release"} => k.frames # <<>>
  /\ p = "release" => k.frames = <<>>

GenerationOK(g) ==
  /\ g.source \in {Unresolved, g.bank}
  /\ g.total <= IF g.bank = Stock THEN 0 ELSE Capacity

ThreadSound(t, s, p, ctx, owner) ==
  /\ \A c \in Contexts : ctx[c].owner = t => ContextSound(s, p, ctx[c], c, owner)
  /\ (\A c \in Contexts : ctx[c].owner # t) => \A i \in 1 .. Len(s) : s[i].bank = Stock
  /\ \A i \in 1 .. Len(s) : GenerationOK(s[i])

HasFrame(b, k) == k.owner # Nobody /\ \E i \in 1 .. Len(k.frames) : k.frames[i].leased = b
BanksHeld == \A b \in Banks : bank_owner[b] # 0 => HasFrame(b, contexts[bank_owner[b]])

PlantSound ==
  /\ PlantTypes /\ PlantInstaller /\ AllPlaced /\ OneContext /\ EldersAhead
  /\ Calm => PlantsUntouched
  /\ InUse => BanksHeld /\ \A t \in Threads :
                ThreadSound(t, nest[t], pc[t], contexts, bank_owner)

\* What the invariant gives of a context and of a thread.
LEMMA ContextParts ==
  ASSUME NEW k \in ContextRecords
  PROVE  /\ k.owner \in Threads \cup {Nobody} /\ k.frames \in Seq(LeaseFrames)
         /\ k.active \in Sources /\ k.before \in Sources /\ k.overflow \in Nat
         /\ Len(k.frames) \in Nat /\ (k.frames = <<>> <=> Len(k.frames) = 0)
         /\ \A i \in 1 .. Len(k.frames) : /\ k.frames[i] \in LeaseFrames
                                          /\ k.frames[i].leased \in Sources
                                          /\ k.frames[i].previous \in Sources
<1>1. \A f \in LeaseFrames : f.leased \in Sources /\ f.previous \in Sources
  BY DEF LeaseFrames
<1>2. k.owner \in Threads \cup {Nobody} /\ k.frames \in Seq(LeaseFrames)
      /\ k.active \in Sources /\ k.before \in Sources /\ k.overflow \in Nat
  BY DEF ContextRecords
<1> QED BY <1>1, <1>2, ElementOfSeq, EmptySeq, LenProperties

LEMMA PlantParts ==
  ASSUME PlantTypes, NEW t \in Threads
  PROVE  /\ nest[t] \in Seq(Generated) /\ Len(nest[t]) \in Nat
         /\ \A i \in 1 .. Len(nest[t]) : nest[t][i] \in Generated
         /\ pc[t] \in Places /\ at[t] \in 1 .. BankCount + ContextCount
         /\ mine[t] \in Contexts \cup {0}
         /\ \A c \in Contexts : contexts[c] \in ContextRecords
         /\ \A b \in Banks : bank_owner[b] \in Contexts \cup {0}
<1>1. nest[t] \in Seq(Generated)
  BY DEF PlantTypes
<1>2. /\ pc[t] \in Places /\ at[t] \in 1 .. BankCount + ContextCount
      /\ mine[t] \in Contexts \cup {0}
      /\ \A b \in Banks : bank_owner[b] \in Contexts \cup {0}
  BY DEF PlantTypes, TypeOK
<1>3. \A c \in Contexts : contexts[c] \in ContextRecords
  BY DEF PlantTypes
<1> QED BY <1>1, <1>2, <1>3, ElementOfSeq, LenProperties

LEMMA EmptyContext ==
  ASSUME NEW t \in Threads \cup {Nobody}
  PROVE  LET k == [NoContext EXCEPT !.owner = t] IN
         /\ k \in ContextRecords /\ k.owner = t /\ k.frames = <<>> /\ k.active = Stock
         /\ k.overflow = 0 /\ k.before = Stock /\ Len(k.frames) = 0
<1>1. <<>> \in Seq(LeaseFrames) /\ Len(<<>>) = 0
  BY EmptySeq
<1>2. Stock \in Sources
  BY DEF Sources
<1> QED BY <1>1, <1>2 DEF NoContext, ContextRecords

LEMMA NoContextParts ==
  /\ NoContext \in ContextRecords /\ NoContext.owner = Nobody
  /\ NoContext.frames = <<>> /\ Len(NoContext.frames) = 0
<1>1. <<>> \in Seq(LeaseFrames) /\ Len(<<>>) = 0
  BY EmptySeq
<1>2. Stock \in Sources
  BY DEF Sources
<1> QED BY <1>1, <1>2 DEF NoContext, ContextRecords

\* The places of a thread and its probes are in range.
LEMMA CountsTyped ==
  /\ BankCount \in Nat \ {0} /\ ContextCount \in Nat \ {0} /\ FrameDepth \in Nat \ {0}
  /\ Capacity \in Nat \ {0} /\ Multiplier \in Nat \ {0}
  /\ \A b \in Banks : b \in Nat \ {0} /\ b <= BankCount /\ b \in 1 .. BankCount + ContextCount
  /\ \A c \in Contexts : /\ c \in Nat \ {0} /\ c <= ContextCount
                         /\ c \in 1 .. BankCount + ContextCount
  /\ Stock \notin Banks /\ 1 \in Banks /\ 1 \in Contexts
BY PlantAssumption DEF Banks, Contexts, Stock

\* The types after a step of a thread.
LEMMA ThreadTypes ==
  ASSUME PlantTypes, UNCHANGED <<runtime, installer>>,
         pc' \in [Threads -> Places],
         at' \in [Threads -> 1 .. BankCount + ContextCount],
         mine' \in [Threads -> Contexts \cup {0}],
         nest' \in [Threads -> Seq(Generated)],
         contexts' \in [Contexts -> ContextRecords],
         \A c \in Contexts : Len(contexts'[c].frames) <= FrameDepth,
         bank_owner' \in [Banks -> Contexts \cup {0}]
  PROVE  PlantTypes'
<1>1. \A c \in Contexts : IsContext(contexts'[c])
  <2> TAKE c \in Contexts
  <2>1. contexts'[c] \in ContextRecords
    OBVIOUS
  <2> QED BY <2>1, ContextParts DEF IsContext, LeaseFrames
<1>2. \A t \in Threads : \A i \in 1 .. Len(nest'[t]) : nest'[t][i] \in Generated
  BY ElementOfSeq
<1>3. TypeOK'
  BY <1>1, <1>2 DEF PlantTypes, TypeOK, runtime, installer, Generated
<1> QED BY <1>3 DEF PlantTypes

-----------------------------------------------------------------------------
\* A bank goes to the context c, or comes back from it.
Handed(x, y, c) == (x = 0 /\ y = c) \/ (x = c /\ y = 0)

\* A step of thread t touches nothing of the others, nor their contexts.
PlantThread(t) ==
  /\ \A u \in Threads \ {t} : /\ pc'[u] = pc[u] /\ at'[u] = at[u]
                              /\ mine'[u] = mine[u] /\ nest'[u] = nest[u]
  /\ \A c \in Contexts : \/ contexts'[c] = contexts[c]
                         \/ {contexts[c].owner, contexts'[c].owner} \subseteq {t, Nobody}
  /\ \A b \in Banks : \/ bank_owner'[b] = bank_owner[b]
                      \/ \E c \in Contexts : /\ contexts[c].owner = t
                                             /\ Handed(bank_owner[b], bank_owner'[b], c)
  /\ UNCHANGED <<runtime, installer>>

ElderStep(t) == cell # 0 => \A c \in Contexts :
  <<c, t>> \in elders => ElderAhead(c, t, pc'[t], contexts'[c].owner)

UseStep(t) == InUse =>
  /\ ThreadSound(t, nest'[t], pc'[t], contexts', bank_owner')
  /\ \A b \in Banks :
       \/ bank_owner'[b] = 0
       \/ bank_owner'[b] = bank_owner[b] /\ contexts'[bank_owner[b]] = contexts[bank_owner[b]]
       \/ HasFrame(b, contexts'[bank_owner'[b]])

LEMMA PlacedOfOther ==
  ASSUME NEW t \in Threads, NEW u \in Threads, u # t, PlantThread(t), AllPlaced
  PROVE  Placed(u, pc'[u], at'[u], mine'[u], nest'[u], contexts')
<1>1. \A c \in Contexts : contexts'[c].owner = u <=> contexts[c].owner = u
  BY PlantAssumption DEF PlantThread
<1>2. Placed(u, pc[u], at[u], mine[u], nest[u], contexts)
  BY DEF AllPlaced
<1>3. pc'[u] = pc[u] /\ at'[u] = at[u] /\ mine'[u] = mine[u] /\ nest'[u] = nest[u]
  BY DEF PlantThread
<1> QED BY <1>1, <1>2, <1>3 DEF Placed

LEMMA EldersKept ==
  ASSUME NEW t \in Threads, PlantTypes, EldersAhead, PlantThread(t), ElderStep(t)
  PROVE  EldersAhead'
<1>1. cell' = cell /\ elders' = elders
  BY DEF PlantThread, installer
<1>2. ASSUME cell # 0, NEW e \in elders
      PROVE  ElderAhead(e[1], e[2], pc'[e[2]], contexts'[e[1]].owner)
  <2>1. e[1] \in Contexts /\ e[2] \in Threads /\ e = <<e[1], e[2]>>
    BY <1>2 DEF PlantTypes, TypeOK
  <2>2. CASE e[2] = t
    BY <1>2, <2>1, <2>2 DEF ElderStep
  <2>3. CASE e[2] # t
    <3>1. ElderAhead(e[1], e[2], pc[e[2]], contexts[e[1]].owner)
      BY <1>2 DEF EldersAhead
    <3>2. pc'[e[2]] = pc[e[2]] /\ (contexts'[e[1]].owner = e[2] <=> contexts[e[1]].owner = e[2])
      BY <2>1, <2>3, PlantAssumption DEF PlantThread
    <3> QED BY <3>1, <3>2 DEF ElderAhead
  <2> QED BY <2>2, <2>3
<1>3. \A c, u, p, o : ElderAhead(c, u, p, o)' <=> ElderAhead(c, u, p, o)
  BY <1>1 DEF ElderAhead
<1> QED BY <1>1, <1>2 DEF EldersAhead, ElderAhead

LEMMA SoundOfOther ==
  ASSUME NEW t \in Threads, NEW u \in Threads, u # t, PlantTypes, PlantThread(t),
         ThreadSound(u, nest[u], pc[u], contexts, bank_owner)
  PROVE  ThreadSound(u, nest'[u], pc'[u], contexts', bank_owner')
<1>1. pc'[u] = pc[u] /\ nest'[u] = nest[u]
  BY DEF PlantThread
<1>2. \A c \in Contexts : /\ contexts'[c].owner = u <=> contexts[c].owner = u
                          /\ contexts[c].owner = u => contexts'[c] = contexts[c]
  BY PlantAssumption DEF PlantThread
<1>3. ASSUME NEW c \in Contexts, contexts[c].owner = u
      PROVE  ContextSound(nest[u], pc[u], contexts[c], c, bank_owner')
  <2>1. ContextSound(nest[u], pc[u], contexts[c], c, bank_owner)
    BY <1>3 DEF ThreadSound
  <2>2. c # 0
    BY CountsTyped
  <2>3. \A b \in Banks : bank_owner[b] = c => bank_owner'[b] = c
    BY <1>3, <2>2, PlantAssumption DEF PlantThread, Handed
  <2>4. \A i \in 1 .. Len(contexts[c].frames) : contexts[c].frames[i].leased \in Banks \cup {Stock}
    BY PlantParts, ContextParts DEF Sources
  <2>5. FramesLease(contexts[c].frames, c, bank_owner')
    BY <2>1, <2>3, <2>4 DEF ContextSound, FramesLease
  <2> QED BY <2>1, <2>5 DEF ContextSound
<1> QED BY <1>1, <1>2, <1>3 DEF ThreadSound

LEMMA PlantThreadKeeps ==
  ASSUME NEW t \in Threads, PlantSound, ~Calm, PlantTypes', OneContext', PlantThread(t),
         Placed(t, pc'[t], at'[t], mine'[t], nest'[t], contexts'), ElderStep(t), UseStep(t)
  PROVE  PlantSound'
<1> USE DEF PlantSound
<1>1. PlantInstaller' /\ Calm' = Calm /\ InUse' = InUse
  BY DEF PlantInstaller, PlantThread, runtime, installer, Calm, InUse
<1>2. AllPlaced'
  BY PlacedOfOther DEF AllPlaced
<1>3. EldersAhead'
  BY EldersKept
<1>4. ASSUME InUse
      PROVE  BanksHeld' /\ \A u \in Threads :
               ThreadSound(u, nest'[u], pc'[u], contexts', bank_owner')
  <2>1. \A u \in Threads : ThreadSound(u, nest'[u], pc'[u], contexts', bank_owner')
    <3> TAKE u \in Threads
    <3>1. CASE u = t
      BY <1>4, <3>1 DEF UseStep
    <3>2. CASE u # t
      BY <1>4, <3>2, SoundOfOther
    <3> QED BY <3>1, <3>2
  <2>2. \A b \in Banks : bank_owner'[b] # 0 => HasFrame(b, contexts'[bank_owner'[b]])
    BY <1>4 DEF UseStep, BanksHeld
  <2> QED BY <2>1, <2>2 DEF BanksHeld
<1> QED BY <1>1, <1>2, <1>3, <1>4

-----------------------------------------------------------------------------
\* What a step of a thread starts from.
LEMMA AtThread ==
  ASSUME PlantSound, NEW t \in Threads
  PROVE  /\ Placed(t, pc[t], at[t], mine[t], nest[t], contexts)
         /\ InUse => /\ initialize_state = 2 /\ cell = 0
                     /\ ThreadSound(t, nest[t], pc[t], contexts, bank_owner)
         /\ pc[t] # "engine" \/ hooked \/ nest[t] # <<>> => ~Calm
         /\ cell # 0 => initialize_state = 1
         /\ OneContext /\ PlantTypes
<1>1. InUse /\ cell # 0 => FALSE
  BY DEF PlantSound, PlantInstaller, InUse
<1>2. pc[t] # "engine" \/ hooked \/ nest[t] # <<>> => ~Calm
  BY DEF PlantSound, PlantsUntouched, PlantInstaller, Calm
<1> QED BY <1>1, <1>2 DEF PlantSound, AllPlaced, PlantInstaller

LEMMA SameRow ==
  ASSUME NEW S, NEW R, NEW f \in [S -> R], NEW t \in S
  PROVE  f = [f EXCEPT ![t] = f[t]]
OBVIOUS

\* A thread moves, and its generations may change, but not the registry.
LEMMA QuietKept ==
  ASSUME PlantSound, NEW t \in Threads, ~Calm,
         NEW p \in Places, NEW n \in 1 .. BankCount + ContextCount,
         NEW k \in Contexts \cup {0}, NEW s \in Seq(Generated),
         pc' = [pc EXCEPT ![t] = p], at' = [at EXCEPT ![t] = n],
         mine' = [mine EXCEPT ![t] = k], nest' = [nest EXCEPT ![t] = s],
         UNCHANGED <<runtime, registry, installer>>,
         Placed(t, p, n, k, s, contexts),
         cell # 0 => p # "lookup",
         p = "claim" => pc[t] = "claim" \/ (pc[t] = "lookup" /\ Own(t) = {}),
         InUse => ThreadSound(t, s, p, contexts, bank_owner)
  PROVE  PlantSound'
<1> USE DEF PlantSound
<1>1. contexts' = contexts /\ bank_owner' = bank_owner
  BY DEF registry
<1>2. /\ pc' \in [Threads -> Places] /\ at' \in [Threads -> 1 .. BankCount + ContextCount]
      /\ mine' \in [Threads -> Contexts \cup {0}] /\ nest' \in [Threads -> Seq(Generated)]
      /\ pc'[t] = p /\ at'[t] = n /\ mine'[t] = k /\ nest'[t] = s
      /\ \A u \in Threads \ {t} : /\ pc'[u] = pc[u] /\ at'[u] = at[u]
                                  /\ mine'[u] = mine[u] /\ nest'[u] = nest[u]
  BY DEF PlantTypes, TypeOK
<1>3. \A c \in Contexts : Len(contexts[c].frames) <= FrameDepth
  BY DEF PlantTypes, TypeOK, IsContext
<1>4. contexts \in [Contexts -> ContextRecords] /\ bank_owner \in [Banks -> Contexts \cup {0}]
  BY DEF PlantTypes, TypeOK
<1>5. PlantTypes'
  BY <1>1, <1>2, <1>3, <1>4, ThreadTypes
<1>6. OneContext'
  BY <1>1 DEF OneContext
<1>7. PlantThread(t)
  BY <1>1, <1>2 DEF PlantThread
<1>8. ElderStep(t)
  <2> SUFFICES ASSUME cell # 0, NEW c \in Contexts, <<c, t>> \in elders
               PROVE  ElderAhead(c, t, p, contexts[c].owner)
    BY <1>1, <1>2 DEF ElderStep
  <2>1. ElderAhead(c, t, pc[t], contexts[c].owner)
    BY DEF EldersAhead
  <2>2. p # "claim"
    BY <2>1 DEF ElderAhead, Own
  <2> QED BY <2>1, <2>2 DEF ElderAhead
<1>9. UseStep(t)
  BY <1>1, <1>2 DEF UseStep
<1> QED BY <1>1, <1>2, <1>5, <1>6, <1>7, <1>8, <1>9, PlantThreadKeeps

\* Where a thread has a context and nothing changes but its place.
LEMMA PlaceChanged ==
  ASSUME NEW t, NEW s, NEW ctx, NEW owner, NEW p, NEW q, ThreadSound(t, s, p, ctx, owner),
         \/ /\ p \in {"engine", "enter", "lookup", "claim"}
            /\ q \in {"engine", "enter", "lookup", "claim", "bank"}
         \/ p \in {"leave", "pop"} /\ q \in {"leave", "pop"}
         \/ p = q
         \/ \A c \in Contexts : ctx[c].owner # t
  PROVE  ThreadSound(t, s, q, ctx, owner)
<1>1. ASSUME NEW c \in Contexts, ctx[c].owner = t
      PROVE  ContextSound(s, q, ctx[c], c, owner)
  <2>1. ContextSound(s, p, ctx[c], c, owner)
    BY <1>1 DEF ThreadSound
  <2>2. p # q => Height(s, q) = Height(s, p) /\ p \notin {"bank", "release"} /\ q # "release"
    BY <1>1 DEF Height
  <2> QED BY <2>1, <2>2 DEF ContextSound, Outside
<1> QED BY <1>1 DEF ThreadSound

LEMMA CallWrapperKept ==
  ASSUME PlantSound, NEW t \in Threads, CallWrapper(t)
  PROVE  PlantSound'
<1>1. /\ pc[t] = "engine" /\ hooked /\ Len(nest[t]) < MaxNest
      /\ pc' = [pc EXCEPT ![t] = "enter"]
      /\ UNCHANGED <<runtime, registry, at, mine, nest, installer>>
  BY DEF CallWrapper, Goto
<1>2. /\ at' = [at EXCEPT ![t] = at[t]] /\ mine' = [mine EXCEPT ![t] = mine[t]]
      /\ nest' = [nest EXCEPT ![t] = nest[t]]
  BY <1>1, AtThread, SameRow DEF PlantTypes, TypeOK
<1>3. Placed(t, "enter", at[t], mine[t], nest[t], contexts)
  BY <1>1, AtThread DEF Placed
<1>4. InUse => ThreadSound(t, nest[t], "enter", contexts, bank_owner)
  BY <1>1, AtThread, PlaceChanged
<1>5. ~Calm /\ "enter" \in Places
  BY <1>1, AtThread DEF Places
<1>6. /\ nest[t] \in Seq(Generated) /\ at[t] \in 1 .. BankCount + ContextCount
      /\ mine[t] \in Contexts \cup {0}
  BY AtThread, PlantParts
<1> QED BY <1>1, <1>2, <1>3, <1>4, <1>5, <1>6, QuietKept

\* A generation that starts on the stock arrays, of a thread without a context.
LEMMA StartedOnStock ==
  ASSUME PlantTypes, NEW t \in Threads, NEW b \in Sources
  PROVE  LET e == [bank |-> b, source |-> Unresolved, total |-> 0]
             r == Append(nest[t], e)
         IN  /\ r \in Seq(Generated) /\ Len(r) = Len(nest[t]) + 1 /\ r[Len(nest[t]) + 1] = e
             /\ \A i \in 1 .. Len(nest[t]) : r[i] = nest[t][i]
             /\ GenerationOK(e)
<1>1. nest[t] \in Seq(Generated)
  BY PlantParts
<1>2. [bank |-> b, source |-> Unresolved, total |-> 0] \in Generated
  BY DEF Generated
<1>3. GenerationOK([bank |-> b, source |-> Unresolved, total |-> 0])
  BY PlantAssumption DEF GenerationOK
<1> QED BY <1>1, <1>2, <1>3, Appended

LEMMA EnteredOutside ==
  ASSUME PlantSound, NEW t \in Threads, Entered(t, Stock),
         UNCHANGED <<runtime, registry, installer>>,
         pc[t] \in {"enter", "claim"}, InUse => \A c \in Contexts : contexts[c].owner # t
  PROVE  PlantSound'
<1> DEFINE e == [bank |-> Stock, source |-> Unresolved, total |-> 0]
           s == Append(nest[t], e)
<1>1. pc' = [pc EXCEPT ![t] = "engine"] /\ at' = [at EXCEPT ![t] = 1]
      /\ mine' = [mine EXCEPT ![t] = 0] /\ nest' = [nest EXCEPT ![t] = s]
  BY DEF Entered, Goto
<1>2. /\ s \in Seq(Generated) /\ Len(s) = Len(nest[t]) + 1 /\ s[Len(nest[t]) + 1] = e
      /\ \A i \in 1 .. Len(nest[t]) : s[i] = nest[t][i]
      /\ GenerationOK(e) /\ e.bank = Stock
  BY AtThread, StartedOnStock DEF Sources
<1>3. Len(nest[t]) \in Nat /\ MaxNest \in Nat
  BY AtThread, PlantParts, PlantAssumption
<1> HIDE DEF s, e
<1>4. Placed(t, "engine", 1, 0, s, contexts)
  BY <1>2, <1>3, AtThread DEF Placed
<1>5. InUse => ThreadSound(t, s, "engine", contexts, bank_owner)
  BY <1>2, <1>3, AtThread DEF ThreadSound
<1>6. ~Calm /\ "engine" \in Places /\ 1 \in 1 .. BankCount + ContextCount
  BY AtThread, CountsTyped DEF Places
<1> QED BY <1>1, <1>2, <1>4, <1>5, <1>6, QuietKept

LEMMA EnterCheckKept ==
  ASSUME PlantSound, NEW t \in Threads, EnterCheck(t)
  PROVE  PlantSound'
<1>1. pc[t] = "enter" /\ UNCHANGED <<runtime, registry, installer>>
  BY DEF EnterCheck
<1>2. CASE initialize_state = 2
  <2>1. pc' = [pc EXCEPT ![t] = "lookup"] /\ UNCHANGED <<at, mine, nest>>
    BY <1>2 DEF EnterCheck, Goto
  <2>2. /\ at' = [at EXCEPT ![t] = at[t]] /\ mine' = [mine EXCEPT ![t] = mine[t]]
        /\ nest' = [nest EXCEPT ![t] = nest[t]]
    BY <2>1, AtThread, SameRow DEF PlantTypes, TypeOK
  <2>3. Placed(t, "lookup", at[t], mine[t], nest[t], contexts)
    BY <1>1, AtThread DEF Placed
  <2>4. InUse => ThreadSound(t, nest[t], "lookup", contexts, bank_owner)
    BY <1>1, AtThread, PlaceChanged
  <2>5. ~Calm /\ "lookup" \in Places /\ cell = 0
    BY <1>1, <1>2, AtThread DEF Places
  <2>6. /\ nest[t] \in Seq(Generated) /\ at[t] \in 1 .. BankCount + ContextCount
        /\ mine[t] \in Contexts \cup {0}
    BY AtThread, PlantParts
  <2> QED BY <1>1, <2>1, <2>2, <2>3, <2>4, <2>5, <2>6, QuietKept
<1>3. CASE initialize_state # 2
  <2>1. Entered(t, Stock) /\ ~InUse
    BY <1>3, AtThread DEF EnterCheck
  <2> QED BY <1>1, <2>1, EnteredOutside
<1> QED BY <1>2, <1>3

LEMMA EnterLookupKept ==
  ASSUME PlantSound, NEW t \in Threads, EnterLookup(t)
  PROVE  PlantSound'
<1>1. pc[t] = "lookup" /\ UNCHANGED <<runtime, registry, at, nest, installer>>
  BY DEF EnterLookup
<1>2. /\ at' = [at EXCEPT ![t] = at[t]] /\ nest' = [nest EXCEPT ![t] = nest[t]]
      /\ mine = [mine EXCEPT ![t] = mine[t]]
  BY <1>1, AtThread, SameRow DEF PlantTypes, TypeOK
<1>3. /\ nest[t] \in Seq(Generated) /\ at[t] \in 1 .. BankCount + ContextCount
      /\ mine[t] \in Contexts \cup {0} /\ at[t] = 1 /\ 1 \in Contexts /\ 1 \in Banks /\ ~Calm
      /\ {"claim", "bank"} \subseteq Places
  BY <1>1, AtThread, PlantParts, CountsTyped DEF Placed, Places
<1>4. CASE Own(t) = {}
  <2>1. pc' = [pc EXCEPT ![t] = "claim"] /\ mine' = [mine EXCEPT ![t] = mine[t]]
    BY <1>2, <1>4 DEF EnterLookup, Goto
  <2>2. Placed(t, "claim", at[t], mine[t], nest[t], contexts)
    BY <1>1, <1>3, <1>4, AtThread DEF Placed, Own
  <2>3. InUse => ThreadSound(t, nest[t], "claim", contexts, bank_owner)
    BY <1>1, AtThread, PlaceChanged
  <2> QED BY <1>1, <1>2, <1>3, <1>4, <2>1, <2>2, <2>3, QuietKept
<1>5. CASE Own(t) # {}
  <2>1. PICK c \in Own(t) : pc' = [pc EXCEPT ![t] = "bank"] /\ mine' = [mine EXCEPT ![t] = c]
    BY <1>5 DEF EnterLookup, Goto
  <2>2. c \in Contexts /\ contexts[c].owner = t
    BY <2>1 DEF Own
  <2>3. Placed(t, "bank", at[t], c, nest[t], contexts)
    BY <1>1, <1>3, <2>2, AtThread DEF Placed
  <2>4. InUse => ThreadSound(t, nest[t], "bank", contexts, bank_owner)
    BY <1>1, AtThread, PlaceChanged
  <2> QED BY <1>1, <1>2, <1>3, <2>1, <2>2, <2>3, <2>4, QuietKept
<1> QED BY <1>4, <1>5

-----------------------------------------------------------------------------
\* Inside a generation.  While the banks are in use, the storage the runtime
\* answers is that of the innermost generation.
LEMMA OwnIsOne ==
  ASSUME PlantSound, NEW t \in Threads, NEW c \in Contexts, contexts[c].owner = t
  PROVE  \A d \in Contexts : contexts[d].owner = t <=> d = c
BY PlantAssumption DEF PlantSound, OneContext

LEMMA TopOfFrames ==
  ASSUME NEW k \in ContextRecords, NEW c \in Contexts, NEW owner, Leased(k.frames) # Stock,
         FramesLease(k.frames, c, owner)
  PROVE  Leased(k.frames) \in Banks /\ owner[Leased(k.frames)] = c
<1>1. k.frames # <<>>
  BY DEF Leased
<1>2. Len(k.frames) \in 1 .. Len(k.frames) /\ Leased(k.frames) = k.frames[Len(k.frames)].leased
  BY <1>1, ContextParts DEF Leased
<1>3. k.frames[Len(k.frames)].leased \in Sources
  BY <1>2, ContextParts
<1> QED BY <1>2, <1>3 DEF FramesLease, Sources

LEMMA TopStorage ==
  ASSUME PlantSound, NEW t \in Threads, InUse, pc[t] = "engine", nest[t] # <<>>
  PROVE  ActiveSelector(t) = nest[t][Len(nest[t])].bank
<1> DEFINE s == nest[t]
           n == Len(s)
<1>1. /\ s \in Seq(Generated) /\ n \in Nat \ {0} /\ n \in 1 .. n
      /\ initialize_state = 2 /\ ThreadSound(t, s, "engine", contexts, bank_owner)
  BY AtThread, PlantParts, EmptySeq
<1>2. CASE Own(t) = {}
  <2>1. s[n].bank = Stock
    BY <1>1, <1>2 DEF ThreadSound, Own
  <2>2. ActiveSelector(t) = Stock
    BY <1>2 DEF ActiveSelector
  <2> QED BY <2>1, <2>2
<1>3. CASE Own(t) # {}
  <2>1. PICK c \in Contexts : contexts[c].owner = t
    BY <1>3 DEF Own
  <2>2. Own(t) = {c}
    BY <2>1, OwnIsOne DEF Own
  <2> DEFINE k == contexts[c]
             f == k.frames
             m == Len(f)
             v == k.overflow
             o == Outside(s, "engine", k)
  <2>3. k \in ContextRecords /\ ContextSound(s, "engine", k, c, bank_owner)
    BY <1>1, <2>1, AtThread, PlantParts DEF ThreadSound
  <2>4. ActiveSelector(t) =
          IF k.active \in Banks /\ bank_owner[k.active] = c THEN k.active ELSE Stock
    <3>1. \A x \in {c} : x = c
      OBVIOUS
    <3>2. (CHOOSE x \in Own(t) : TRUE) = c
      BY <2>2
    <3> QED BY <1>1, <2>2, <3>2 DEF ActiveSelector
  <2>5. /\ m \in Nat \ {0} /\ v \in Nat /\ o = n - m - v /\ o >= 0
        /\ k.active = IF v = 0 THEN Leased(f) ELSE Stock
    BY <1>1, <2>3, ContextParts DEF ContextSound, Outside, Height
  <2>6. s[n].bank = IF n > o /\ n <= o + m THEN f[n - o].leased ELSE Stock
    BY <1>1, <2>3 DEF ContextSound, Mirrors
  <2> HIDE DEF n, o, v, m
  <2>0. n \in Nat /\ o \in Nat /\ m \in Nat \ {0} /\ v \in Nat /\ n = o + m + v
    <3>1. n \in Nat /\ m \in Nat \ {0} /\ v \in Nat /\ o = n - m - v /\ o >= 0
      BY <1>1, <2>5
    <3> QED BY ONLY <3>1
  <2>7. CASE v = 0
    <3>1. n > o /\ n <= o + m /\ n - o = m
      BY ONLY <2>0, <2>7
    <3>2. k.active = Leased(f) /\ Leased(f) = f[m].leased /\ FramesLease(f, c, bank_owner)
      BY <2>3, <2>5, <2>7, ContextParts DEF ContextSound, Leased, m, v
    <3>3. s[n].bank = Leased(f)
      BY <2>6, <3>1, <3>2
    <3>4. Leased(f) # Stock => Leased(f) \in Banks /\ bank_owner[Leased(f)] = c
      BY <2>3, <3>2, TopOfFrames
    <3> QED BY <2>4, <3>2, <3>3, <3>4 DEF n
  <2>8. CASE v # 0
    <3>1. ~(n <= o + m)
      BY ONLY <2>0, <2>8
    <3>2. k.active = Stock
      BY <2>5, <2>8
    <3> QED BY <2>4, <2>6, <3>1, <3>2 DEF n
  <2> QED BY <2>7, <2>8
<1> QED BY <1>2, <1>3

\* The innermost generation is replaced by one on the same storage.
LEMMA TopKept ==
  ASSUME PlantSound, NEW t \in Threads, pc[t] = "engine", nest[t] # <<>>,
         NEW e \in Generated, SetTop(t, e), UNCHANGED <<runtime, registry, locals, installer>>,
         e.bank = Last(nest[t]).bank, InUse => GenerationOK(e)
  PROVE  PlantSound'
<1> DEFINE s == nest[t]
           n == Len(s)
           r == Append(Front(s), e)
<1>1. /\ n \in Nat \ {0} /\ Front(s) \in Seq(Generated) /\ Len(Front(s)) = n - 1
      /\ \A i \in 1 .. n - 1 : Front(s)[i] = s[i]
      /\ Last(s) = s[n]
  BY AtThread, PlantParts, FrontAndLast
<1>2. /\ r \in Seq(Generated) /\ Len(r) = n /\ r[n] = e
      /\ \A i \in 1 .. n - 1 : r[i] = s[i]
  BY <1>1, Appended
<1>3. \A i \in 1 .. n : r[i].bank = s[i].bank
  BY <1>1, <1>2
<1>4. /\ pc' = [pc EXCEPT ![t] = "engine"] /\ at' = [at EXCEPT ![t] = at[t]]
      /\ mine' = [mine EXCEPT ![t] = mine[t]] /\ nest' = [nest EXCEPT ![t] = r]
  BY AtThread, SameRow DEF PlantTypes, TypeOK, SetTop, locals
<1> HIDE DEF r
<1>5. Placed(t, "engine", at[t], mine[t], r, contexts)
  BY <1>2, AtThread DEF Placed
<1>6. ASSUME InUse PROVE ThreadSound(t, r, "engine", contexts, bank_owner)
  <2>1. ThreadSound(t, s, "engine", contexts, bank_owner)
    BY <1>6, AtThread
  <2>2. \A k : Mirrors(s, k.frames, Outside(s, "engine", k)) =>
                 Mirrors(r, k.frames, Outside(r, "engine", k))
    BY <1>2, <1>3 DEF Mirrors, Outside, Height
  <2>3. \A k : Outside(r, "engine", k) = Outside(s, "engine", k)
    BY <1>2 DEF Outside, Height
  <2>4. \A c \in Contexts : contexts[c].owner = t =>
          ContextSound(r, "engine", contexts[c], c, bank_owner)
    BY <2>1, <2>2, <2>3 DEF ThreadSound, ContextSound
  <2>5. \A i \in 1 .. Len(r) : GenerationOK(r[i])
    BY <1>1, <1>2, <1>6, <2>1 DEF ThreadSound
  <2> QED BY <1>2, <1>3, <2>1, <2>4, <2>5 DEF ThreadSound
<1>7. /\ ~Calm /\ "engine" \in Places /\ at[t] \in 1 .. BankCount + ContextCount
      /\ mine[t] \in Contexts \cup {0}
  BY AtThread, PlantParts DEF Places
<1> QED BY <1>2, <1>4, <1>5, <1>6, <1>7, QuietKept

LEMMA ResolveKept ==
  ASSUME PlantSound, NEW t \in Threads, Resolve(t)
  PROVE  PlantSound'
<1> DEFINE g == Last(nest[t])
           e == [g EXCEPT !.source = ActiveSelector(t)]
<1>1. /\ pc[t] = "engine" /\ nest[t] # <<>> /\ SetTop(t, e)
      /\ UNCHANGED <<runtime, registry, locals, installer>>
  BY DEF Resolve, Generating
<1>2. g \in Generated /\ g = nest[t][Len(nest[t])] /\ Len(nest[t]) \in 1 .. Len(nest[t])
  BY <1>1, AtThread, PlantParts, FrontAndLast
<1>3. ActiveSelector(t) \in Sources
  BY DEF ActiveSelector, Sources
<1>4. e \in Generated /\ e.bank = g.bank /\ e.source = ActiveSelector(t) /\ e.total = g.total
  BY <1>2, <1>3 DEF Generated
<1>5. InUse => GenerationOK(g) /\ ActiveSelector(t) = g.bank
  BY <1>1, <1>2, AtThread, TopStorage DEF ThreadSound
<1> HIDE DEF e, g
<1>6. InUse => GenerationOK(e)
  BY <1>4, <1>5 DEF GenerationOK
<1> QED BY <1>1, <1>4, <1>6, TopKept DEF g

LEMMA CountKept ==
  ASSUME PlantSound, NEW t \in Threads, NEW a \in Authored, Count(t, a)
  PROVE  PlantSound'
<1>1. PICK m \in {1} \cup (IF selector THEN {Multiplier} ELSE {}) :
        SetTop(t, [Last(nest[t]) EXCEPT !.total = @ + Emitted(t, a * m)])
  BY DEF Count
<1> DEFINE g == Last(nest[t])
           asked == a * m
           e == [g EXCEPT !.total = @ + Emitted(t, asked)]
<1>2. /\ pc[t] = "engine" /\ nest[t] # <<>> /\ SetTop(t, e)
      /\ UNCHANGED <<runtime, registry, locals, installer>>
  BY <1>1 DEF Count, Generating
<1>3. g \in Generated /\ g = nest[t][Len(nest[t])] /\ Len(nest[t]) \in 1 .. Len(nest[t])
  BY <1>2, AtThread, PlantParts, FrontAndLast
<1>4. asked \in Nat
  <2>1. a \in Nat /\ m \in Nat
    BY <1>1, PlantAssumption
  <2> QED BY <2>1
<1>5. g.total \in Nat /\ Capacity \in Nat
  BY <1>3, CountsTyped DEF Generated
<1> HIDE DEF asked, g
<1>6. Emitted(t, asked) = IF ActiveSelector(t) = Stock THEN 0
                          ELSE IF asked < Capacity - g.total THEN asked ELSE Capacity - g.total
  BY DEF Emitted, g
<1>7. /\ g.total + Emitted(t, asked) \in Nat
      /\ ActiveSelector(t) = Stock => g.total + Emitted(t, asked) = g.total
      /\ g.total <= Capacity => g.total + Emitted(t, asked) <= Capacity
  BY <1>4, <1>5, <1>6
<1>8. /\ e \in Generated /\ e.bank = g.bank /\ e.source = g.source
      /\ e.total = g.total + Emitted(t, asked)
  BY <1>3, <1>7 DEF Generated
<1>9. InUse => GenerationOK(g) /\ ActiveSelector(t) = g.bank
  BY <1>2, <1>3, AtThread, TopStorage DEF ThreadSound
<1> HIDE DEF e
<1>10. InUse => GenerationOK(e)
  BY <1>5, <1>7, <1>8, <1>9 DEF GenerationOK
<1> QED BY <1>2, <1>8, <1>10, TopKept DEF g

-----------------------------------------------------------------------------
\* Leaving, as long as the registry stays.
LEMMA ReturnKept ==
  ASSUME PlantSound, NEW t \in Threads, Return(t)
  PROVE  PlantSound'
<1> DEFINE s == nest[t]
           r == Front(s)
<1>1. /\ pc[t] = "engine" /\ s # <<>> /\ nest' = [nest EXCEPT ![t] = r]
      /\ pc' = [pc EXCEPT ![t] = "leave"]
      /\ UNCHANGED <<runtime, registry, at, mine, installer>>
  BY DEF Return, Goto
<1>2. /\ Len(s) \in Nat \ {0} /\ r \in Seq(Generated) /\ Len(r) = Len(s) - 1
      /\ \A i \in 1 .. Len(s) - 1 : r[i] = s[i]
  BY <1>1, AtThread, PlantParts, FrontAndLast
<1>3. at' = [at EXCEPT ![t] = at[t]] /\ mine' = [mine EXCEPT ![t] = mine[t]]
  BY <1>1, AtThread, SameRow DEF PlantTypes, TypeOK
<1> HIDE DEF r
<1>4. MaxNest \in Nat /\ Len(s) <= MaxNest
  BY AtThread, PlantAssumption DEF Placed
<1>5. Placed(t, "leave", at[t], mine[t], r, contexts)
  BY <1>1, <1>2, <1>4, AtThread DEF Placed
<1>6. ASSUME InUse PROVE ThreadSound(t, r, "leave", contexts, bank_owner)
  <2>1. ThreadSound(t, s, "engine", contexts, bank_owner)
    BY <1>1, <1>6, AtThread
  <2>2. \A k : Outside(r, "leave", k) = Outside(s, "engine", k)
    BY <1>2 DEF Outside, Height
  <2>3. \A f, o : Mirrors(s, f, o) => Mirrors(r, f, o)
    BY <1>2 DEF Mirrors
  <2>4. \A c \in Contexts : contexts[c].owner = t =>
          ContextSound(r, "leave", contexts[c], c, bank_owner)
    BY <2>1, <2>2, <2>3 DEF ThreadSound, ContextSound
  <2> QED BY <1>2, <2>1, <2>4 DEF ThreadSound
<1>7. /\ ~Calm /\ "leave" \in Places /\ at[t] \in 1 .. BankCount + ContextCount
      /\ mine[t] \in Contexts \cup {0}
  BY <1>1, AtThread, PlantParts DEF Places
<1> QED BY <1>1, <1>2, <1>3, <1>5, <1>6, <1>7, QuietKept

LEMMA LeaveLookupKept ==
  ASSUME PlantSound, NEW t \in Threads, LeaveLookup(t)
  PROVE  PlantSound'
<1>1. pc[t] = "leave" /\ UNCHANGED <<runtime, registry, at, nest, installer>>
  BY DEF LeaveLookup
<1>2. at' = [at EXCEPT ![t] = at[t]] /\ nest' = [nest EXCEPT ![t] = nest[t]]
  BY <1>1, AtThread, SameRow DEF PlantTypes, TypeOK
<1>3. /\ nest[t] \in Seq(Generated) /\ at[t] \in 1 .. BankCount + ContextCount /\ ~Calm
      /\ {"engine", "pop"} \subseteq Places
  BY <1>1, AtThread, PlantParts DEF Places
<1>4. CASE initialize_state = 2 /\ Own(t) # {}
  <2>1. PICK c \in Own(t) : pc' = [pc EXCEPT ![t] = "pop"] /\ mine' = [mine EXCEPT ![t] = c]
    BY <1>4 DEF LeaveLookup, Goto
  <2>2. c \in Contexts /\ contexts[c].owner = t
    BY <2>1 DEF Own
  <2>3. Placed(t, "pop", at[t], c, nest[t], contexts)
    BY <1>1, <2>2, AtThread DEF Placed
  <2>4. InUse => ThreadSound(t, nest[t], "pop", contexts, bank_owner)
    BY <1>1, AtThread, PlaceChanged
  <2> QED BY <1>1, <1>2, <1>3, <2>1, <2>2, <2>3, <2>4, QuietKept
<1>5. CASE ~(initialize_state = 2 /\ Own(t) # {})
  <2>1. pc' = [pc EXCEPT ![t] = "engine"] /\ mine' = [mine EXCEPT ![t] = 0]
    BY <1>5 DEF LeaveLookup, Left, Goto
  <2>2. Placed(t, "engine", at[t], 0, nest[t], contexts)
    BY <1>1, AtThread DEF Placed
  <2>3. InUse => \A c \in Contexts : contexts[c].owner # t
    BY <1>5, AtThread DEF Own
  <2>4. InUse => ThreadSound(t, nest[t], "engine", contexts, bank_owner)
    BY <1>1, <2>3, AtThread, PlaceChanged
  <2> QED BY <1>1, <1>2, <1>3, <2>1, <2>2, <2>4, QuietKept
<1> QED BY <1>4, <1>5

-----------------------------------------------------------------------------
\* A thread changes its context c to x, or claims c.
LEMMA ContextKept ==
  ASSUME PlantSound, NEW t \in Threads,
         NEW p \in Places, NEW n \in 1 .. BankCount + ContextCount,
         NEW k \in Contexts \cup {0}, NEW s \in Seq(Generated),
         NEW c \in Contexts, NEW x \in ContextRecords,
         pc' = [pc EXCEPT ![t] = p], at' = [at EXCEPT ![t] = n],
         mine' = [mine EXCEPT ![t] = k], nest' = [nest EXCEPT ![t] = s],
         contexts' = [contexts EXCEPT ![c] = x],
         UNCHANGED <<runtime, installer>>,
         contexts[c].owner = t \/ (contexts[c].owner = Nobody /\ pc[t] = "claim"),
         x.owner \in {t, Nobody}, Len(x.frames) <= FrameDepth,
         bank_owner' \in [Banks -> Contexts \cup {0}],
         \A b \in Banks : \/ bank_owner'[b] = bank_owner[b]
                          \/ contexts[c].owner = t /\ Handed(bank_owner[b], bank_owner'[b], c),
         ~Calm, p \in {"engine", "bank", "release"}, Placed(t, p, n, k, s, contexts'),
         InUse => /\ \A i \in 1 .. Len(s) : GenerationOK(s[i])
                  /\ IF x.owner = t THEN ContextSound(s, p, x, c, bank_owner')
                                    ELSE \A i \in 1 .. Len(s) : s[i].bank = Stock
                  /\ \A b \in Banks : bank_owner'[b] = c => HasFrame(b, x)
  PROVE  PlantSound'
<1> USE DEF PlantSound
<1>1. /\ pc' \in [Threads -> Places] /\ at' \in [Threads -> 1 .. BankCount + ContextCount]
      /\ mine' \in [Threads -> Contexts \cup {0}] /\ nest' \in [Threads -> Seq(Generated)]
      /\ pc'[t] = p /\ at'[t] = n /\ mine'[t] = k /\ nest'[t] = s
      /\ \A u \in Threads \ {t} : /\ pc'[u] = pc[u] /\ at'[u] = at[u]
                                  /\ mine'[u] = mine[u] /\ nest'[u] = nest[u]
  BY DEF PlantTypes, TypeOK
<1>2. /\ contexts' \in [Contexts -> ContextRecords] /\ contexts'[c] = x
      /\ \A d \in Contexts \ {c} : contexts'[d] = contexts[d]
  BY DEF PlantTypes
<1>3. \A d \in Contexts : Len(contexts'[d].frames) <= FrameDepth
  BY <1>2 DEF PlantTypes, TypeOK, IsContext
<1>4. PlantTypes'
  BY <1>1, <1>2, <1>3, ThreadTypes
<1>5. \A d \in Contexts \ {c} : contexts[d].owner # t
  <2>1. CASE contexts[c].owner = t
    BY <2>1, OwnIsOne
  <2>2. CASE pc[t] = "claim"
    BY <2>2, AtThread DEF Placed
  <2> QED BY <2>1, <2>2
<1>6. OneContext'
  BY <1>2, <1>5, PlantAssumption DEF OneContext
<1>7. PlantThread(t)
  BY <1>1, <1>2 DEF PlantThread
<1>8. ElderStep(t)
  <2> SUFFICES ASSUME cell # 0, NEW d \in Contexts, <<d, t>> \in elders
               PROVE  ElderAhead(d, t, p, contexts'[d].owner)
    BY <1>1 DEF ElderStep
  <2>1. ElderAhead(d, t, pc[t], contexts[d].owner)
    BY DEF EldersAhead
  <2>2. contexts'[d].owner = t => contexts[d].owner = t
    BY <1>2, <2>1 DEF ElderAhead
  <2> QED BY <2>1, <2>2 DEF ElderAhead
<1>9. ASSUME InUse PROVE ThreadSound(t, s, p, contexts', bank_owner')
  <2>1. \A d \in Contexts : contexts'[d].owner = t => d = c /\ x.owner = t
    BY <1>2, <1>5
  <2>2. (\A d \in Contexts : contexts'[d].owner # t) => x.owner # t
    BY <1>2
  <2> QED BY <1>2, <1>9, <2>1, <2>2 DEF ThreadSound
<1>10. UseStep(t)
  <2>1. ASSUME InUse, NEW b \in Banks
        PROVE  \/ bank_owner'[b] = 0
               \/ bank_owner'[b] = bank_owner[b] /\ contexts'[bank_owner[b]] = contexts[bank_owner[b]]
               \/ HasFrame(b, contexts'[bank_owner'[b]])
    <3>1. CASE bank_owner'[b] = c
      BY <1>2, <2>1, <3>1
    <3>2. CASE bank_owner'[b] # c /\ bank_owner'[b] # 0
      <4>1. bank_owner'[b] = bank_owner[b] /\ bank_owner[b] \in Contexts \ {c}
        BY <3>2 DEF PlantTypes, TypeOK, Handed
      <4> QED BY <1>2, <4>1
    <3> QED BY <3>1, <3>2
  <2> QED BY <1>1, <1>9, <2>1 DEF UseStep
<1> QED BY <1>1, <1>4, <1>6, <1>7, <1>8, <1>10, PlantThreadKeeps

LEMMA EnterClaimKept ==
  ASSUME PlantSound, NEW t \in Threads, EnterClaim(t)
  PROVE  PlantSound'
<1> DEFINE c == at[t]
           s == nest[t]
           x == [NoContext EXCEPT !.owner = t]
<1>1. pc[t] = "claim" /\ UNCHANGED <<runtime, bank_owner, installer>>
  BY DEF EnterClaim
<1>2. /\ c \in Contexts /\ \A d \in Contexts : contexts[d].owner # t
      /\ ~Calm /\ s \in Seq(Generated) /\ Len(s) \in Nat /\ mine[t] \in Contexts \cup {0}
  BY <1>1, AtThread, PlantParts DEF Placed
<1>3. CASE contexts[c].owner = Nobody
  <2>1. /\ contexts' = [contexts EXCEPT ![c] = x] /\ mine' = [mine EXCEPT ![t] = c]
        /\ at' = [at EXCEPT ![t] = 1] /\ pc' = [pc EXCEPT ![t] = "bank"] /\ UNCHANGED nest
    BY <1>3 DEF EnterClaim, Goto, SetContext
  <2>2. nest' = [nest EXCEPT ![t] = s]
    BY <2>1, AtThread, SameRow DEF PlantTypes
  <2>3. /\ x \in ContextRecords /\ x.owner = t /\ x.frames = <<>> /\ x.active = Stock
        /\ x.overflow = 0 /\ Len(x.frames) = 0
    BY EmptyContext
  <2>4. contexts'[c] = x /\ contexts \in [Contexts -> ContextRecords]
    BY <1>2, <2>1, AtThread DEF PlantTypes
  <2>5. Placed(t, "bank", 1, c, s, contexts')
    BY <1>1, <1>2, <2>3, <2>4, AtThread, CountsTyped DEF Placed
  <2> HIDE DEF x
  <2>6. ASSUME InUse
        PROVE  /\ \A i \in 1 .. Len(s) : GenerationOK(s[i])
               /\ ContextSound(s, "bank", x, c, bank_owner)
               /\ \A b \in Banks : bank_owner[b] # c
    <3>1. ThreadSound(t, s, "claim", contexts, bank_owner)
      BY <1>1, <2>6, AtThread
    <3>2. \A i \in 1 .. Len(s) : GenerationOK(s[i]) /\ s[i].bank = Stock
      BY <1>2, <3>1 DEF ThreadSound
    <3>3. Outside(s, "bank", x) = Len(s)
      BY <1>2, <2>3 DEF Outside, Height
    <3>4. ContextSound(s, "bank", x, c, bank_owner)
      BY <1>2, <2>3, <3>2, <3>3 DEF ContextSound, Mirrors, Chained, FramesLease, Leased
    <3>5. \A b \in Banks : bank_owner[b] # c
      BY <1>2, <1>3, <2>6, CountsTyped DEF PlantSound, BanksHeld, HasFrame
    <3> QED BY <3>2, <3>4, <3>5
  <2>7. bank_owner \in [Banks -> Contexts \cup {0}] /\ 0 <= FrameDepth /\ "bank" \in Places
        /\ 1 \in 1 .. BankCount + ContextCount
    BY AtThread, CountsTyped DEF PlantTypes, TypeOK, Places
  <2>8. InUse => /\ \A i \in 1 .. Len(s) : GenerationOK(s[i])
                 /\ IF x.owner = t THEN ContextSound(s, "bank", x, c, bank_owner')
                                   ELSE \A i \in 1 .. Len(s) : s[i].bank = Stock
                 /\ \A b \in Banks : bank_owner'[b] = c => HasFrame(b, x)
    BY <1>1, <2>3, <2>6
  <2>9. bank_owner' \in [Banks -> Contexts \cup {0}] /\ bank_owner' = bank_owner
        /\ UNCHANGED <<runtime, installer>> /\ Len(x.frames) <= FrameDepth
    BY <1>1, <2>3, <2>7
  <2> HIDE DEF c, s
  <2> QED BY <1>1, <1>2, <1>3, <2>1, <2>2, <2>3, <2>5, <2>7, <2>8, <2>9, ContextKept
<1>4. CASE contexts[c].owner # Nobody /\ c < ContextCount
  <2>1. at' = [at EXCEPT ![t] = c + 1] /\ UNCHANGED <<contexts, pc, mine, nest>>
    BY <1>2, <1>4, CountsTyped DEF EnterClaim
  <2>2. /\ pc' = [pc EXCEPT ![t] = "claim"] /\ nest' = [nest EXCEPT ![t] = s]
        /\ mine' = [mine EXCEPT ![t] = mine[t]]
    BY <1>1, <2>1, AtThread, SameRow DEF PlantTypes, TypeOK
  <2>3. c + 1 \in Contexts /\ c + 1 \in 1 .. BankCount + ContextCount /\ "claim" \in Places
    BY <1>2, <1>4, CountsTyped DEF Contexts, Places
  <2>4. Placed(t, "claim", c + 1, mine[t], s, contexts)
    BY <1>1, <2>3, AtThread DEF Placed
  <2>5. InUse => ThreadSound(t, s, "claim", contexts, bank_owner)
    BY <1>1, AtThread
  <2>6. UNCHANGED <<runtime, registry, installer>>
    BY <1>1, <2>1 DEF registry
  <2>7. at' = [at EXCEPT ![t] = at[t] + 1]
    BY <2>1
  <2> QED BY <1>1, <1>2, <2>2, <2>3, <2>4, <2>5, <2>6, <2>7, QuietKept
<1>5. CASE contexts[c].owner # Nobody /\ c = ContextCount
  <2>1. Entered(t, Stock) /\ UNCHANGED <<runtime, registry, installer>>
    BY <1>1, <1>2, <1>5, CountsTyped DEF EnterClaim, registry
  <2> QED BY <1>1, <1>2, <2>1, EnteredOutside
<1> QED BY <1>3, <1>4, <1>5 DEF EnterClaim

LEMMA LeaveReleaseKept ==
  ASSUME PlantSound, NEW t \in Threads, LeaveRelease(t)
  PROVE  PlantSound'
<1> DEFINE c == mine[t]
           s == nest[t]
           x == NoContext
<1>1. /\ pc[t] = "release" /\ contexts' = [contexts EXCEPT ![c] = x]
      /\ pc' = [pc EXCEPT ![t] = "engine"] /\ mine' = [mine EXCEPT ![t] = 0]
      /\ UNCHANGED <<runtime, bank_owner, at, nest, installer>>
  BY DEF LeaveRelease, Left, Goto, SetContext
<1>2. /\ c \in Contexts /\ contexts[c].owner = t /\ ~Calm /\ s \in Seq(Generated)
      /\ Len(s) \in Nat /\ at[t] \in 1 .. BankCount + ContextCount
      /\ contexts[c] \in ContextRecords
  BY <1>1, AtThread, PlantParts DEF Placed
<1>3. at' = [at EXCEPT ![t] = at[t]] /\ nest' = [nest EXCEPT ![t] = s]
  BY <1>1, AtThread, SameRow DEF PlantTypes, TypeOK
<1>4. Placed(t, "engine", at[t], 0, s, contexts')
  BY <1>1, AtThread DEF Placed
<1>5. ASSUME InUse
      PROVE  /\ \A i \in 1 .. Len(s) : GenerationOK(s[i]) /\ s[i].bank = Stock
             /\ \A b \in Banks : bank_owner[b] # c
  <2>1. ThreadSound(t, s, "release", contexts, bank_owner)
    BY <1>1, <1>5, AtThread
  <2>2. ContextSound(s, "release", contexts[c], c, bank_owner)
    BY <1>2, <2>1 DEF ThreadSound
  <2>3. contexts[c].frames = <<>> /\ Len(contexts[c].frames) = 0
    BY <1>2, <2>2, ContextParts DEF ContextSound
  <2>4. \A i \in 1 .. Len(s) : s[i].bank = Stock
    <3>1. PICK o : o = Outside(s, "release", contexts[c]) /\ o \in Int
      BY <1>2, <2>3, ContextParts DEF Outside, Height
    <3>2. \A i \in 1 .. Len(s) : ~(i > o /\ i <= o + 0)
      BY <3>1
    <3> QED BY <2>2, <2>3, <3>1, <3>2 DEF ContextSound, Mirrors
  <2>5. \A b \in Banks : bank_owner[b] # c
    BY <1>2, <1>5, <2>3, CountsTyped DEF PlantSound, BanksHeld, HasFrame
  <2> QED BY <2>1, <2>4, <2>5 DEF ThreadSound
<1>6. /\ bank_owner \in [Banks -> Contexts \cup {0}] /\ 0 <= FrameDepth /\ "engine" \in Places
      /\ x \in ContextRecords /\ x.owner = Nobody /\ Len(x.frames) = 0
      /\ Nobody # t
  BY AtThread, CountsTyped, NoContextParts, PlantAssumption DEF PlantTypes, TypeOK, Places
<1>7. InUse => /\ \A i \in 1 .. Len(s) : GenerationOK(s[i])
               /\ IF x.owner = t THEN ContextSound(s, "engine", x, c, bank_owner')
                                         ELSE \A i \in 1 .. Len(s) : s[i].bank = Stock
               /\ \A b \in Banks : bank_owner'[b] = c => HasFrame(b, x)
  BY <1>1, <1>5, <1>6
<1>8. bank_owner' \in [Banks -> Contexts \cup {0}] /\ bank_owner' = bank_owner
      /\ UNCHANGED <<runtime, installer>> /\ Len(x.frames) <= FrameDepth
  BY <1>1, <1>6
<1> HIDE DEF c, s, x
<1>9. \A b \in Banks : bank_owner'[b] = bank_owner[b]
  BY <1>8
<1>10. /\ contexts' = [contexts EXCEPT ![c] = x] /\ pc' = [pc EXCEPT ![t] = "engine"]
       /\ mine' = [mine EXCEPT ![t] = 0]
  BY <1>1
<1>11. x.owner \in {t, Nobody} /\ x \in ContextRecords
  BY <1>6
<1>12. {"engine", "bank", "release"} \subseteq Places /\ 0 \in Contexts \cup {0}
  BY DEF Places
<1> QED BY <1>2, <1>3, <1>4, <1>7, <1>8, <1>9, <1>12, <1>10, <1>11, ContextKept

-----------------------------------------------------------------------------
\* A frame on top of a context that has room, and one off its top.
LEMMA PushedContext ==
  ASSUME PlantSound, NEW t \in Threads, NEW c \in Contexts, NEW b \in Sources, NEW s,
         NEW r, NEW x, NEW owner, Len(s) \in Nat, Len(r) = Len(s) + 1,
         \A i \in 1 .. Len(s) : r[i] = s[i], r[Len(s) + 1].bank = b,
         ContextSound(s, "bank", contexts[c], c, bank_owner), contexts[c].overflow = 0,
         x.frames = Append(contexts[c].frames, [previous |-> contexts[c].active, leased |-> b]),
         x.active = b, x.overflow = 0,
         \A d \in Banks : bank_owner[d] = c => owner[d] = c /\ d # b,
         b # Stock => owner[b] = c
  PROVE  ContextSound(r, "engine", x, c, owner)
<1> DEFINE k == contexts[c]
           f == k.frames
           e == [previous |-> k.active, leased |-> b]
           g == x.frames
           m == Len(f)
           o == Outside(s, "bank", k)
<1>1. k \in ContextRecords
  BY AtThread, PlantParts
<1>2. /\ f \in Seq(LeaseFrames) /\ m \in Nat /\ e \in LeaseFrames
      /\ \A i \in 1 .. m : f[i].leased \in Sources
  BY <1>1, ContextParts DEF LeaseFrames
<1>3. /\ Len(g) = m + 1 /\ g[m + 1] = e /\ g # <<>> /\ e.leased = b /\ e.previous = k.active
      /\ \A i \in 1 .. m : g[i] = f[i]
  <2>1. g = Append(f, e) /\ e.leased = b /\ e.previous = k.active
    OBVIOUS
  <2> HIDE DEF f, g, e, k
  <2>2. f \in Seq(LeaseFrames) /\ e \in LeaseFrames
    BY <1>2
  <2> QED BY <2>1, <2>2, Appended
<1>4. /\ o >= 0 /\ Mirrors(s, f, o) /\ Chained(f) /\ FramesLease(f, c, bank_owner)
      /\ k.active = Leased(f) /\ o = Len(s) - m
  <2>1. /\ o >= 0 /\ Mirrors(s, f, o) /\ Chained(f) /\ FramesLease(f, c, bank_owner)
        /\ k.active = Leased(f)
    BY DEF ContextSound
  <2>2. Height(s, "bank") = Len(s) /\ k.overflow = 0
    BY DEF Height
  <2>3. o = Len(s) - m - 0
    BY <2>2 DEF Outside
  <2>4. m \in Nat /\ Len(s) \in Nat
    BY <1>2
  <2> HIDE DEF m, o
  <2>5. o = Len(s) - m
    BY ONLY <2>3, <2>4
  <2> QED BY <2>1, <2>5
<1> HIDE DEF f, e, g, m, o, k
<1>0. m \in Nat /\ o \in Nat /\ Len(s) \in Nat /\ Len(s) = o + m
  <2>1. m \in Nat /\ Len(s) \in Nat /\ o = Len(s) - m /\ o >= 0
    BY <1>2, <1>4
  <2> QED BY ONLY <2>1
<1>5. Outside(r, "engine", x) = o
  <2>1. Len(x.frames) = m + 1 /\ Height(r, "engine") = Len(s) + 1
    BY <1>3 DEF g, Height
  <2>2. Outside(r, "engine", x) = (Len(s) + 1) - (m + 1) - 0
    BY <2>1 DEF Outside
  <2> QED BY ONLY <1>0, <2>2
<1>6. Mirrors(r, g, o)
  <2> SUFFICES ASSUME NEW i \in 1 .. Len(r)
               PROVE  r[i].bank = IF i > o /\ i <= o + (m + 1) THEN g[i - o].leased ELSE Stock
    BY <1>3 DEF Mirrors
  <2>1. CASE i = Len(s) + 1
    <3>1. i > o /\ i <= o + (m + 1) /\ i - o = m + 1
      BY ONLY <1>0, <2>1
    <3> QED BY <1>3, <2>1, <3>1
  <2>2. CASE i # Len(s) + 1
    <3>1. i \in 1 .. Len(s) /\ (i <= o + (m + 1) <=> i <= o + m)
          /\ (i > o => i - o \in 1 .. m)
      <4>1. Len(r) = Len(s) + 1 /\ i \in 1 .. Len(r)
        OBVIOUS
      <4> QED BY ONLY <1>0, <2>2, <4>1
    <3>2. r[i].bank = IF i > o /\ i <= o + m THEN f[i - o].leased ELSE Stock
      BY <1>4, <3>1 DEF Mirrors, m
    <3> QED BY <1>3, <3>1, <3>2
  <2> QED BY <2>1, <2>2
<1>7. Leased(g) = b
  BY <1>3 DEF Leased
<1>8. Chained(g)
  <2> SUFFICES ASSUME NEW i \in 1 .. m + 1
               PROVE  g[i].previous = IF i = 1 THEN Stock ELSE g[i - 1].leased
    BY <1>3 DEF Chained
  <2>1. CASE i = m + 1
    <3>1. Leased(f) = IF m = 0 THEN Stock ELSE f[m].leased
      BY <1>2, EmptySeq DEF Leased, m
    <3>2. m # 0 => m \in 1 .. m /\ i - 1 = m
      BY ONLY <1>0, <2>1
    <3> QED BY <1>0, <1>3, <1>4, <2>1, <3>1, <3>2
  <2>2. CASE i # m + 1
    <3>1. i \in 1 .. m /\ (i # 1 => i - 1 \in 1 .. m)
      BY ONLY <1>0, <2>2, i \in 1 .. m + 1
    <3> QED BY <1>3, <1>4, <3>1 DEF Chained, m
  <2> QED BY <2>1, <2>2
<1>9. FramesLease(g, c, owner)
  <2>1. \A i \in 1 .. m + 1 : i \in 1 .. m \/ i = m + 1
    BY <1>2
  <2>2. \A i \in 1 .. m : f[i].leased # Stock => /\ f[i].leased \in Banks
                                                 /\ bank_owner[f[i].leased] = c
    BY <1>2, <1>4 DEF FramesLease, Sources, m
  <2>3. \A i \in 1 .. m : f[i].leased # Stock => owner[f[i].leased] = c /\ f[i].leased # b
    BY <2>2
  <2>4. \A i \in 1 .. m + 1 : g[i].leased # Stock => owner[g[i].leased] = c
    BY <1>3, <2>1, <2>3
  <2>5. \A i, j \in 1 .. m : i # j /\ f[i].leased # Stock => f[i].leased # f[j].leased
    BY <1>4 DEF FramesLease, m
  <2>6. \A i, j \in 1 .. m + 1 : i # j /\ g[i].leased # Stock => g[i].leased # g[j].leased
    BY <1>3, <2>1, <2>3, <2>5
  <2> QED BY <1>3, <2>4, <2>6 DEF FramesLease
<1> QED BY <1>3, <1>4, <1>0, <1>5, <1>6, <1>7, <1>8, <1>9 DEF ContextSound, g

LEMMA PoppedContext ==
  ASSUME PlantSound, NEW t \in Threads, NEW c \in Contexts, NEW s, NEW q, NEW x, NEW owner,
         Len(s) \in Nat, ContextSound(s, "pop", contexts[c], c, bank_owner),
         contexts[c].overflow = 0,
         x.frames = Front(contexts[c].frames), x.overflow = 0,
         x.active = Last(contexts[c].frames).previous,
         q = IF Len(contexts[c].frames) = 1 THEN "release" ELSE "engine",
         \A d \in Banks : bank_owner[d] = c /\ d # Last(contexts[c].frames).leased => owner[d] = c
  PROVE  ContextSound(s, q, x, c, owner)
<1> DEFINE k == contexts[c]
           f == k.frames
           g == x.frames
           m == Len(f)
           o == Outside(s, "pop", k)
<1>1. k \in ContextRecords
  BY AtThread, PlantParts
<1>2. f \in Seq(LeaseFrames) /\ f # <<>> /\ \A i \in 1 .. m : f[i].leased \in Sources
  BY <1>1, ContextParts DEF ContextSound
<1>3. /\ m \in Nat \ {0} /\ Len(g) = m - 1 /\ Last(f) = f[m] /\ g \in Seq(LeaseFrames)
      /\ \A i \in 1 .. m - 1 : g[i] = f[i]
  <2>1. g = Front(f)
    OBVIOUS
  <2> HIDE DEF f, g
  <2> QED BY <1>2, <2>1, FrontAndLast
<1>4. /\ o >= 0 /\ Mirrors(s, f, o) /\ Chained(f) /\ FramesLease(f, c, bank_owner)
      /\ o = (Len(s) + 1) - m
  <2>1. o >= 0 /\ Mirrors(s, f, o) /\ Chained(f) /\ FramesLease(f, c, bank_owner)
    BY DEF ContextSound
  <2>2. Height(s, "pop") = Len(s) + 1 /\ k.overflow = 0
    BY DEF Height
  <2>3. o = (Len(s) + 1) - m - 0
    BY <2>2 DEF Outside
  <2>4. m \in Nat /\ Len(s) \in Nat
    BY <1>3
  <2> HIDE DEF m, o
  <2>5. o = (Len(s) + 1) - m
    BY ONLY <2>3, <2>4
  <2> QED BY <2>1, <2>5
<1> HIDE DEF f, g, m, o, k
<1>0. m \in Nat \ {0} /\ o \in Nat /\ Len(s) \in Nat /\ Len(s) + 1 = o + m
  <2>1. m \in Nat \ {0} /\ Len(s) \in Nat /\ o = (Len(s) + 1) - m /\ o >= 0
    BY <1>3, <1>4
  <2> QED BY ONLY <2>1
<1>5. Outside(s, q, x) = o
  <2>1. Height(s, q) = Len(s) /\ Len(x.frames) = m - 1
    BY <1>3 DEF Height, g
  <2>2. Outside(s, q, x) = Len(s) - (m - 1) - 0
    BY <2>1 DEF Outside
  <2> QED BY ONLY <1>0, <2>2
<1>6. Mirrors(s, g, o)
  <2> SUFFICES ASSUME NEW i \in 1 .. Len(s)
               PROVE  s[i].bank = IF i > o /\ i <= o + (m - 1) THEN g[i - o].leased ELSE Stock
    BY <1>3 DEF Mirrors
  <2>1. i <= o + (m - 1) /\ i <= o + m /\ (i > o => i - o \in 1 .. m - 1)
    BY ONLY <1>0, i \in 1 .. Len(s)
  <2>2. s[i].bank = IF i > o /\ i <= o + m THEN f[i - o].leased ELSE Stock
    BY <1>4 DEF Mirrors, m
  <2> QED BY <1>3, <2>1, <2>2
<1>7. Chained(g) /\ x.active = Leased(g)
  <2>1. \A i \in 1 .. m - 1 : i \in 1 .. m /\ (i # 1 => i - 1 \in 1 .. m - 1)
    BY ONLY <1>0
  <2>2. \A i \in 1 .. m : f[i].previous = IF i = 1 THEN Stock ELSE f[i - 1].leased
    BY <1>4 DEF Chained, m
  <2>3. Chained(g)
    <3> SUFFICES ASSUME NEW i \in 1 .. Len(g)
                 PROVE  g[i].previous = IF i = 1 THEN Stock ELSE g[i - 1].leased
      BY DEF Chained
    <3>1. i \in 1 .. m - 1 /\ g[i] = f[i]
      BY <1>3
    <3>2. i \in 1 .. m /\ (i # 1 => g[i - 1] = f[i - 1])
      BY <1>3, <2>1, <3>1
    <3> QED BY <2>2, <3>1, <3>2
  <2>4. x.active = IF m = 1 THEN Stock ELSE f[m - 1].leased
    BY <1>0, <1>3, <2>2 DEF f, k
  <2>5. Leased(g) = IF m = 1 THEN Stock ELSE g[m - 1].leased
    <3>1. g = <<>> <=> m = 1
      BY <1>0, <1>3, EmptySeq
    <3> QED BY <1>3, <3>1 DEF Leased
  <2>6. m # 1 => m - 1 \in 1 .. m - 1
    BY ONLY <1>0
  <2> QED BY <1>3, <2>3, <2>4, <2>5, <2>6
<1>8. FramesLease(g, c, owner)
  <2>1. \A i \in 1 .. m - 1 : i \in 1 .. m /\ i # m /\ m \in 1 .. m
    BY ONLY <1>0
  <2>2. \A i \in 1 .. m : f[i].leased # Stock => /\ f[i].leased \in Banks
                                                 /\ bank_owner[f[i].leased] = c
    BY <1>2, <1>4 DEF FramesLease, Sources, m
  <2>3. \A i, j \in 1 .. m : i # j /\ f[i].leased # Stock => f[i].leased # f[j].leased
    BY <1>4 DEF FramesLease, m
  <2>4. \A i \in 1 .. m - 1 : f[i].leased # Stock => owner[f[i].leased] = c
    BY <1>3, <2>1, <2>2, <2>3 DEF f, k
  <2> QED BY <1>3, <2>1, <2>3, <2>4 DEF FramesLease
<1>9. q # "release" <=> g # <<>>
  <2>1. g = <<>> <=> m = 1
    BY <1>0, <1>3, EmptySeq
  <2> QED BY <2>1 DEF m, f, k
<1> QED BY <1>0, <1>5, <1>6, <1>7, <1>8, <1>9 DEF ContextSound, g

\* A generation that overflows, and one that leaves again.
LEMMA OverflowedContext ==
  ASSUME NEW k \in ContextRecords, NEW x, NEW c, NEW owner, NEW s, NEW r,
         Len(s) \in Nat, Len(r) = Len(s) + 1,
         \A i \in 1 .. Len(s) : r[i] = s[i], r[Len(s) + 1].bank = Stock,
         ContextSound(s, "bank", k, c, owner), Len(k.frames) >= FrameDepth,
         x.frames = k.frames, x.active = Stock, x.overflow = k.overflow + 1,
         x.before = IF k.overflow = 0 THEN k.active ELSE k.before
  PROVE  ContextSound(r, "engine", x, c, owner)
<1> DEFINE f == k.frames
           m == Len(f)
           v == k.overflow
           o == Outside(s, "bank", k)
<1>1. m \in Nat /\ v \in Nat /\ (f = <<>> <=> m = 0) /\ FrameDepth \in Nat \ {0}
  BY ContextParts, CountsTyped
<1>2. /\ o >= 0 /\ Mirrors(s, f, o) /\ Chained(f) /\ FramesLease(f, c, owner)
      /\ k.active = IF v = 0 THEN Leased(f) ELSE Stock
      /\ v > 0 => k.before = Leased(f)
  BY DEF ContextSound
<1>3. o = Len(s) - m - v /\ Outside(r, "engine", x) = (Len(s) + 1) - m - (v + 1)
  BY DEF Outside, Height
<1> HIDE DEF m, v, o
<1>4. m \in Nat /\ v \in Nat /\ o \in Nat /\ Len(s) \in Nat /\ Len(s) = o + m + v
  <2>1. m \in Nat /\ v \in Nat /\ Len(s) \in Nat /\ o = Len(s) - m - v /\ o >= 0
    BY <1>1, <1>2, <1>3
  <2> QED BY ONLY <2>1
<1>5. Outside(r, "engine", x) = o
  BY ONLY <1>3, <1>4
<1>6. Mirrors(r, f, o)
  <2> SUFFICES ASSUME NEW i \in 1 .. Len(s) + 1
               PROVE  r[i].bank = IF i > o /\ i <= o + m THEN f[i - o].leased ELSE Stock
    BY DEF Mirrors, m
  <2>1. CASE i = Len(s) + 1
    <3>1. ~(i <= o + m)
      BY ONLY <1>4, <2>1
    <3> QED BY <2>1, <3>1
  <2>2. CASE i # Len(s) + 1
    <3>1. i \in 1 .. Len(s)
      BY ONLY <1>4, <2>2, i \in 1 .. Len(s) + 1
    <3> QED BY <1>2, <3>1 DEF Mirrors, m
  <2> QED BY <2>1, <2>2
<1>7. x.before = Leased(f) /\ x.overflow > 0 /\ x.overflow # 0 /\ f # <<>>
  <2>1. x.before = Leased(f)
    BY <1>1, <1>2 DEF v
  <2>2. v + 1 > 0
    BY ONLY <1>4
  <2>3. f # <<>>
    BY <1>1 DEF m
  <2> QED BY <2>1, <2>2, <2>3 DEF v
<1> QED BY <1>2, <1>4, <1>5, <1>6, <1>7 DEF ContextSound

LEMMA ReturnedContext ==
  ASSUME NEW k \in ContextRecords, NEW x, NEW c, NEW owner, NEW s, Len(s) \in Nat,
         ContextSound(s, "pop", k, c, owner), k.overflow > 0,
         x.frames = k.frames, x.overflow = k.overflow - 1, x.before = k.before,
         x.active = IF k.overflow = 1 THEN k.before ELSE k.active
  PROVE  ContextSound(s, "engine", x, c, owner)
<1> DEFINE f == k.frames
           m == Len(f)
           v == k.overflow
           o == Outside(s, "pop", k)
<1>1. m \in Nat /\ v \in Nat /\ v > 0
  BY ContextParts
<1>2. /\ o >= 0 /\ Mirrors(s, f, o) /\ Chained(f) /\ FramesLease(f, c, owner)
      /\ k.active = IF v = 0 THEN Leased(f) ELSE Stock
      /\ Len(f) >= FrameDepth /\ k.before = Leased(f) /\ f # <<>>
  BY DEF ContextSound
<1>3. o = (Len(s) + 1) - m - v /\ Outside(s, "engine", x) = Len(s) - m - (v - 1)
  BY DEF Outside, Height
<1> HIDE DEF m, o
<1>5. Outside(s, "engine", x) = o
  <2>1. m \in Nat /\ v \in Nat /\ Len(s) \in Nat
    BY <1>1
  <2> HIDE DEF v
  <2> QED BY ONLY <1>3, <2>1
<1>6. /\ v = 1 => x.overflow = 0 /\ x.active = Leased(f)
      /\ v # 1 => x.overflow # 0 /\ x.active = Stock
  BY <1>1, <1>2
<1> QED BY <1>2, <1>5, <1>6 DEF ContextSound

LEMMA EnterBankKept ==
  ASSUME PlantSound, NEW t \in Threads, EnterBank(t)
  PROVE  PlantSound'
<1> DEFINE n == at[t]
           c == mine[t]
           s == nest[t]
           k == contexts[c]
           f == k.frames
<1>1. pc[t] = "bank" /\ UNCHANGED <<runtime, installer>>
  BY DEF EnterBank
<1>2. /\ n \in Banks /\ c \in Contexts /\ k.owner = t /\ k \in ContextRecords /\ ~Calm
      /\ s \in Seq(Generated) /\ Len(s) \in Nat /\ Len(s) < MaxNest
      /\ InUse => ThreadSound(t, s, "bank", contexts, bank_owner)
  BY <1>1, AtThread, PlantParts DEF Placed
<1>3. /\ contexts \in [Contexts -> ContextRecords] /\ bank_owner \in [Banks -> Contexts \cup {0}]
      /\ Len(f) <= FrameDepth /\ MaxNest \in Nat /\ FrameDepth \in Nat \ {0}
      /\ 1 \in 1 .. BankCount + ContextCount /\ "engine" \in Places /\ 0 \in Contexts \cup {0}
  BY <1>2, AtThread, CountsTyped, PlantAssumption DEF PlantTypes, TypeOK, IsContext, Places
<1>4. InUse => /\ ContextSound(s, "bank", k, c, bank_owner)
               /\ \A i \in 1 .. Len(s) : GenerationOK(s[i])
  BY <1>2 DEF ThreadSound
<1>5. InUse => \A b \in Banks : bank_owner[b] = c =>
        \E i \in 1 .. Len(f) : f[i].leased = b
  BY <1>2, CountsTyped DEF PlantSound, BanksHeld, HasFrame
<1>6. ContextCount \in Nat /\ Stock \in Sources /\ n \in Sources /\ c # 0 /\ Stock \notin Banks
      /\ Nobody # t
  BY <1>2, CountsTyped, PlantAssumption DEF Sources
\* The generation that starts.
<1> DEFINE e(b) == [bank |-> b, source |-> Unresolved, total |-> 0]
           r(b) == Append(s, e(b))
<1>7. ASSUME NEW b \in Sources
      PROVE  /\ r(b) \in Seq(Generated) /\ Len(r(b)) = Len(s) + 1
             /\ r(b)[Len(s) + 1].bank = b
             /\ \A i \in 1 .. Len(s) : r(b)[i] = s[i]
             /\ InUse => \A i \in 1 .. Len(r(b)) : GenerationOK(r(b)[i])
             /\ \A ctx : Placed(t, "engine", 1, 0, r(b), ctx)
  <2>1. /\ r(b) \in Seq(Generated) /\ Len(r(b)) = Len(s) + 1 /\ r(b)[Len(s) + 1] = e(b)
        /\ \A i \in 1 .. Len(s) : r(b)[i] = s[i]
        /\ GenerationOK(e(b)) /\ e(b).bank = b
    BY AtThread, StartedOnStock
  <2>2. Len(r(b)) <= MaxNest
    BY <1>2, <1>3, <2>1
  <2> HIDE DEF e, r
  <2>3. \A i \in 1 .. Len(s) + 1 : i \in 1 .. Len(s) \/ i = Len(s) + 1
    BY <1>2
  <2>4. InUse => \A i \in 1 .. Len(r(b)) : GenerationOK(r(b)[i])
    BY <1>4, <2>1, <2>3
  <2> QED BY <2>1, <2>2, <2>4 DEF Placed
<1> DEFINE Enters(b) == /\ pc' = [pc EXCEPT ![t] = "engine"] /\ at' = [at EXCEPT ![t] = 1]
                        /\ mine' = [mine EXCEPT ![t] = 0] /\ nest' = [nest EXCEPT ![t] = r(b)]
<1>8. \A b : Entered(t, b) => Enters(b)
  BY DEF Entered, Goto
\* A frame pushed, with a bank or without.
<1> DEFINE p(b) == [previous |-> k.active, leased |-> b]
<1>9. ASSUME NEW b \in Sources, ~TooDeep(t), Push(t, b),
             bank_owner' \in [Banks -> Contexts \cup {0}],
             \A d \in Banks : bank_owner'[d] = IF d = b THEN c ELSE bank_owner[d],
             b # Stock => bank_owner[b] = 0
      PROVE  PlantSound'
  <2> DEFINE y == [k EXCEPT !.frames = Append(@, p(b)), !.active = b]
             g == r(b)
  <2>1. contexts' = [contexts EXCEPT ![c] = y] /\ Enters(b)
    <3>1. Entered(t, b) /\ contexts' = [contexts EXCEPT ![c] = y]
      BY <1>9 DEF Push, SetContext
    <3> QED BY <1>8, <3>1
  <2>2. f \in Seq(LeaseFrames) /\ Len(f) \in Nat /\ p(b) \in LeaseFrames /\ Len(f) < FrameDepth
    <3>1. f \in Seq(LeaseFrames) /\ Len(f) \in Nat /\ k.active \in Sources
      BY <1>2, ContextParts
    <3>2. p(b) \in LeaseFrames
      BY <1>9, <3>1 DEF LeaseFrames
    <3>3. Len(f) < FrameDepth
      BY <1>3, <1>9, <3>1 DEF TooDeep
    <3> QED BY <3>1, <3>2, <3>3
  <2>3. /\ Append(f, p(b)) \in Seq(LeaseFrames) /\ Len(Append(f, p(b))) = Len(f) + 1
        /\ \A i \in 1 .. Len(f) : Append(f, p(b))[i] = f[i]
        /\ Append(f, p(b))[Len(f) + 1] = p(b)
    BY <2>2, Appended
  <2>4. /\ y \in ContextRecords /\ y.owner = t /\ y.frames = Append(f, p(b))
        /\ y.active = b /\ y.overflow = k.overflow
    BY <1>2, <2>3 DEF ContextRecords
  <2>5. Len(y.frames) <= FrameDepth /\ Len(y.frames) = Len(f) + 1 /\ p(b).leased = b
    BY <1>3, <2>2, <2>3, <2>4
  <2> HIDE DEF y
  <2>6. ASSUME InUse PROVE ContextSound(r(b), "engine", y, c, bank_owner')
    <3>1. k.overflow = 0
      <4>1. k.overflow > 0 => Len(f) >= FrameDepth
        BY <1>4, <2>6 DEF ContextSound
      <4>2. k.overflow \in Nat
        BY <1>2, ContextParts
      <4> QED BY <1>3, <2>2, <4>1, <4>2
    <3>2. /\ \A d \in Banks : bank_owner[d] = c => bank_owner'[d] = c /\ d # b
          /\ b # Stock => bank_owner'[b] = c
      BY <1>6, <1>9 DEF Sources
    <3>3. ContextSound(s, "bank", contexts[c], c, bank_owner)
      BY <1>4, <2>6
    <3>4. /\ y.frames = Append(contexts[c].frames,
                                  [previous |-> contexts[c].active, leased |-> b])
          /\ y.active = b /\ y.overflow = 0
      BY <2>4, <3>1
    <3>5. /\ Len(s) \in Nat /\ Len(r(b)) = Len(s) + 1 /\ r(b)[Len(s) + 1].bank = b
          /\ \A i \in 1 .. Len(s) : r(b)[i] = s[i]
      BY <1>2, <1>7, <1>9
    <3> HIDE DEF s, r, c
    <3> QED BY <1>2, <1>9, <3>1, <3>2, <3>3, <3>4, <3>5, PushedContext
  <2>7. InUse => \A d \in Banks : bank_owner'[d] = c => HasFrame(d, y)
    <3> SUFFICES ASSUME InUse, NEW d \in Banks, bank_owner'[d] = c
                 PROVE  \E i \in 1 .. Len(f) + 1 : y.frames[i].leased = d
      BY <1>6, <2>4, <2>5 DEF HasFrame
    <3>1. CASE d = b
      <4>1. Len(f) + 1 \in 1 .. Len(f) + 1
        BY <2>2
      <4> QED BY <2>3, <2>4, <2>5, <3>1, <4>1
    <3>2. CASE d # b
      <4>1. PICK i \in 1 .. Len(f) : f[i].leased = d
        BY <1>5, <1>9, <3>2
      <4>2. i \in 1 .. Len(f) + 1
        BY <2>2, <4>1
      <4> QED BY <2>3, <2>4, <4>1, <4>2
    <3> QED BY <3>1, <3>2
  <2>8. /\ g \in Seq(Generated) /\ Placed(t, "engine", 1, 0, g, contexts')
        /\ InUse => \A i \in 1 .. Len(g) : GenerationOK(g[i])
    BY <1>7, <1>9
  <2>9. \A d \in Banks : \/ bank_owner'[d] = bank_owner[d]
                         \/ contexts[c].owner = t /\ Handed(bank_owner[d], bank_owner'[d], c)
    <3> TAKE d \in Banks
    <3>1. CASE d = b
      BY <1>2, <1>6, <1>9, <3>1 DEF Handed
    <3>2. CASE d # b
      BY <1>9, <3>2
    <3> QED BY <3>1, <3>2
  <2>10. InUse => /\ \A i \in 1 .. Len(g) : GenerationOK(g[i])
                  /\ IF y.owner = t THEN ContextSound(g, "engine", y, c, bank_owner')
                                       ELSE \A i \in 1 .. Len(g) : g[i].bank = Stock
                  /\ \A d \in Banks : bank_owner'[d] = c => HasFrame(d, y)
    BY <2>4, <2>6, <2>7, <2>8
  <2>11. y.owner \in {t, Nobody} /\ y \in ContextRecords /\ contexts[c].owner = t
    BY <1>2, <2>4
  <2>12. {"engine", "bank", "release"} \subseteq Places /\ bank_owner' \in [Banks -> Contexts \cup {0}]
    BY <1>9 DEF Places
  <2>13. c \in Contexts /\ ~Calm
    BY <1>2
  <2>14. contexts' = [contexts EXCEPT ![c] = y] /\ nest' = [nest EXCEPT ![t] = g]
         /\ pc' = [pc EXCEPT ![t] = "engine"] /\ at' = [at EXCEPT ![t] = 1]
         /\ mine' = [mine EXCEPT ![t] = 0]
    BY <2>1
  <2> HIDE DEF c, s, g
  <2>15. PlantSound /\ t \in Threads /\ UNCHANGED <<runtime, installer>>
         /\ 1 \in 1 .. BankCount + ContextCount /\ 0 \in Contexts \cup {0}
    BY <1>1, <1>3
  <2> QED BY ONLY <2>5, <2>8, <2>9, <2>10, <2>11, <2>12, <2>13, <2>14, <2>15, ContextKept
<1>10. CASE TooDeep(t) /\ Overflow(t) /\ UNCHANGED bank_owner
  <2> DEFINE y == [k EXCEPT !.overflow = @ + 1, !.active = Stock,
                            !.before = IF k.overflow = 0 THEN k.active ELSE @]
  <2>1. contexts' = [contexts EXCEPT ![c] = y] /\ Enters(Stock)
    <3>1. Entered(t, Stock) /\ contexts' = [contexts EXCEPT ![c] = y]
      BY <1>10 DEF Overflow, SetContext
    <3> QED BY <1>8, <3>1
  <2>2. /\ k.overflow \in Nat /\ k.active \in Sources /\ k.before \in Sources
        /\ k.overflow + 1 \in Nat
    BY <1>2, ContextParts
  <2>3. /\ y \in ContextRecords /\ y.owner = t /\ y.frames = f /\ y.active = Stock
        /\ y.overflow = k.overflow + 1
        /\ y.before = IF k.overflow = 0 THEN k.active ELSE k.before
    BY <1>2, <1>6, <2>2 DEF ContextRecords
  <2> HIDE DEF y
  <2>4. Len(f) >= FrameDepth
    BY <1>10 DEF TooDeep
  <2>5. ASSUME InUse PROVE ContextSound(r(Stock), "engine", y, c, bank_owner)
    <3>1. ContextSound(s, "bank", k, c, bank_owner)
      BY <1>4, <2>5
    <3>2. /\ Len(s) \in Nat /\ Len(r(Stock)) = Len(s) + 1 /\ r(Stock)[Len(s) + 1].bank = Stock
          /\ \A i \in 1 .. Len(s) : r(Stock)[i] = s[i]
      BY <1>2, <1>6, <1>7
    <3> HIDE DEF s, r, c, k
    <3> QED BY <1>2, <2>3, <2>4, <3>1, <3>2, OverflowedContext
  <2>6. InUse => \A d \in Banks : bank_owner[d] = c => HasFrame(d, y)
    BY <1>5, <1>6, <2>3 DEF HasFrame
  <2>7. /\ r(Stock) \in Seq(Generated) /\ Placed(t, "engine", 1, 0, r(Stock), contexts')
        /\ InUse => \A i \in 1 .. Len(r(Stock)) : GenerationOK(r(Stock)[i])
    BY <1>6, <1>7
  <2>8. InUse => /\ \A i \in 1 .. Len(r(Stock)) : GenerationOK(r(Stock)[i])
                 /\ IF y.owner = t THEN ContextSound(r(Stock), "engine", y, c, bank_owner')
                                   ELSE \A i \in 1 .. Len(r(Stock)) : r(Stock)[i].bank = Stock
                 /\ \A d \in Banks : bank_owner'[d] = c => HasFrame(d, y)
    BY <1>10, <2>3, <2>5, <2>6, <2>7
  <2>9. /\ \A d \in Banks : bank_owner'[d] = bank_owner[d]
        /\ bank_owner' \in [Banks -> Contexts \cup {0}]
    BY <1>3, <1>10
  <2>10. y.owner \in {t, Nobody} /\ y \in ContextRecords /\ contexts[c].owner = t
         /\ Len(y.frames) <= FrameDepth
    BY <1>2, <1>3, <2>3
  <2> HIDE DEF c, s, r
  <2> QED BY <1>1, <1>2, <1>3, <2>1, <2>7, <2>8, <2>9, <2>10, ContextKept
<1>11. CASE ~TooDeep(t) /\ bank_owner[n] = 0 /\ bank_owner' = [bank_owner EXCEPT ![n] = c]
            /\ Push(t, n)
  <2>1. /\ bank_owner' \in [Banks -> Contexts \cup {0}]
        /\ \A d \in Banks : bank_owner'[d] = IF d = n THEN c ELSE bank_owner[d]
    BY <1>2, <1>3, <1>11
  <2> QED BY <1>6, <1>9, <1>11, <2>1
<1>12. CASE ~TooDeep(t) /\ Push(t, Stock) /\ UNCHANGED bank_owner
  <2>1. /\ bank_owner' \in [Banks -> Contexts \cup {0}]
        /\ \A d \in Banks : bank_owner'[d] = IF d = Stock THEN c ELSE bank_owner[d]
    BY <1>3, <1>6, <1>12
  <2> QED BY <1>6, <1>9, <1>12, <2>1
<1>13. CASE n < BankCount /\ at' = [at EXCEPT ![t] = n + 1] /\ UNCHANGED <<registry, pc, mine, nest>>
  <2>1. /\ pc' = [pc EXCEPT ![t] = "bank"] /\ nest' = [nest EXCEPT ![t] = s]
        /\ mine' = [mine EXCEPT ![t] = c]
    BY <1>1, <1>13, AtThread, SameRow DEF PlantTypes, TypeOK
  <2>2. n + 1 \in Banks /\ n + 1 \in 1 .. BankCount + ContextCount /\ "bank" \in Places
    BY <1>2, <1>13, CountsTyped DEF Banks, Places
  <2>3. Placed(t, "bank", n + 1, c, s, contexts)
    BY <1>1, <2>2, AtThread DEF Placed
  <2> QED BY <1>1, <1>2, <1>13, <2>1, <2>2, <2>3, QuietKept
<1> QED BY <1>10, <1>11, <1>12, <1>13 DEF EnterBank

LEMMA LeaveOverflowKept ==
  ASSUME PlantSound, NEW t \in Threads, LeaveOverflow(t)
  PROVE  PlantSound'
<1> DEFINE c == mine[t]
           s == nest[t]
           k == contexts[c]
           y == [k EXCEPT !.overflow = @ - 1, !.active = IF k.overflow = 1 THEN k.before ELSE @]
<1>1. /\ pc[t] = "pop" /\ k.overflow > 0 /\ contexts' = [contexts EXCEPT ![c] = y]
      /\ pc' = [pc EXCEPT ![t] = "engine"] /\ mine' = [mine EXCEPT ![t] = 0]
      /\ UNCHANGED <<runtime, bank_owner, at, nest, installer>>
  BY DEF LeaveOverflow, Left, Goto, SetContext
<1>2. /\ c \in Contexts /\ k.owner = t /\ k \in ContextRecords /\ ~Calm
      /\ s \in Seq(Generated) /\ Len(s) \in Nat /\ at[t] \in 1 .. BankCount + ContextCount
      /\ InUse => ThreadSound(t, s, "pop", contexts, bank_owner)
  BY <1>1, AtThread, PlantParts DEF Placed
<1>3. /\ bank_owner \in [Banks -> Contexts \cup {0}] /\ Len(k.frames) <= FrameDepth
      /\ "engine" \in Places /\ 0 \in Contexts \cup {0} /\ c # 0
  BY <1>2, AtThread, CountsTyped DEF PlantTypes, TypeOK, IsContext, Places
<1>4. k.overflow \in Nat /\ k.active \in Sources /\ k.before \in Sources /\ k.overflow - 1 \in Nat
  BY <1>1, <1>2, ContextParts
<1>5. /\ y \in ContextRecords /\ y.owner = t /\ y.frames = k.frames /\ y.before = k.before
      /\ y.overflow = k.overflow - 1
      /\ y.active = IF k.overflow = 1 THEN k.before ELSE k.active
  BY <1>2, <1>4 DEF ContextRecords
<1> HIDE DEF y
<1>6. ASSUME InUse
      PROVE  /\ \A i \in 1 .. Len(s) : GenerationOK(s[i])
             /\ ContextSound(s, "engine", y, c, bank_owner)
             /\ \A b \in Banks : bank_owner[b] = c => HasFrame(b, y)
  <2>1. /\ \A i \in 1 .. Len(s) : GenerationOK(s[i])
        /\ ContextSound(s, "pop", k, c, bank_owner)
    BY <1>2, <1>6 DEF ThreadSound
  <2>2. \A b \in Banks : bank_owner[b] = c => HasFrame(b, y)
    BY <1>2, <1>3, <1>5, <1>6 DEF PlantSound, BanksHeld, HasFrame
  <2> HIDE DEF c, s, k
  <2>3. ContextSound(s, "engine", y, c, bank_owner)
    BY <1>1, <1>2, <1>5, <2>1, ReturnedContext
  <2> QED BY <2>1, <2>2, <2>3
<1>7. /\ at' = [at EXCEPT ![t] = at[t]] /\ nest' = [nest EXCEPT ![t] = s]
      /\ Placed(t, "engine", at[t], 0, s, contexts')
  BY <1>1, AtThread, SameRow DEF PlantTypes, TypeOK, Placed
<1>8. /\ \A b \in Banks : bank_owner'[b] = bank_owner[b]
      /\ bank_owner' \in [Banks -> Contexts \cup {0}] /\ UNCHANGED <<runtime, installer>>
      /\ contexts[c].owner = t /\ y.owner \in {t, Nobody} /\ Len(y.frames) <= FrameDepth
  BY <1>1, <1>2, <1>3, <1>5
<1>9. InUse => /\ \A i \in 1 .. Len(s) : GenerationOK(s[i])
               /\ IF y.owner = t THEN ContextSound(s, "engine", y, c, bank_owner')
                                 ELSE \A i \in 1 .. Len(s) : s[i].bank = Stock
               /\ \A b \in Banks : bank_owner'[b] = c => HasFrame(b, y)
  BY <1>1, <1>5, <1>6
<1>10. /\ contexts' = [contexts EXCEPT ![c] = y] /\ pc' = [pc EXCEPT ![t] = "engine"]
       /\ mine' = [mine EXCEPT ![t] = 0]
  BY <1>1
<1> HIDE DEF c, s
<1> QED BY <1>2, <1>3, <1>5, <1>7, <1>8, <1>9, <1>10, ContextKept

LEMMA LeavePopKept ==
  ASSUME PlantSound, NEW t \in Threads, LeavePop(t)
  PROVE  PlantSound'
<1> DEFINE c == mine[t]
           s == nest[t]
           k == contexts[c]
           f == k.frames
           b == Last(f).leased
           held == b = Stock \/ bank_owner[b] = c
           y == [k EXCEPT !.frames = Front(@),
                          !.active = IF held THEN Last(f).previous ELSE Stock]
           q == IF Len(f) = 1 THEN "release" ELSE "engine"
           h == IF Len(f) = 1 THEN c ELSE 0
<1>1. /\ pc[t] = "pop" /\ k.overflow = 0 /\ f # <<>>
      /\ bank_owner' = IF b # Stock /\ held THEN [bank_owner EXCEPT ![b] = 0] ELSE bank_owner
      /\ contexts' = [contexts EXCEPT ![c] = y]
      /\ IF Len(f) = 1 THEN pc' = [pc EXCEPT ![t] = "release"] /\ UNCHANGED mine
         ELSE pc' = [pc EXCEPT ![t] = "engine"] /\ mine' = [mine EXCEPT ![t] = 0]
      /\ UNCHANGED <<runtime, at, nest, installer>>
  BY DEF LeavePop, Left, Goto, SetContext
<1>2. /\ c \in Contexts /\ k.owner = t /\ k \in ContextRecords /\ ~Calm /\ mine[t] \in Contexts
      /\ s \in Seq(Generated) /\ Len(s) \in Nat /\ at[t] \in 1 .. BankCount + ContextCount
      /\ InUse => ThreadSound(t, s, "pop", contexts, bank_owner)
  BY <1>1, AtThread, PlantParts DEF Placed
<1>3. /\ bank_owner \in [Banks -> Contexts \cup {0}] /\ Len(f) <= FrameDepth
      /\ {"engine", "release"} \subseteq Places /\ h \in Contexts \cup {0} /\ c # 0
      /\ q \in {"engine", "release"} /\ Stock \in Sources /\ FrameDepth \in Nat
  BY <1>2, AtThread, CountsTyped DEF PlantTypes, TypeOK, IsContext, Places, Sources
<1>4. /\ f \in Seq(LeaseFrames) /\ Len(f) \in Nat \ {0} /\ Front(f) \in Seq(LeaseFrames)
      /\ Len(Front(f)) = Len(f) - 1 /\ \A i \in 1 .. Len(f) - 1 : Front(f)[i] = f[i]
      /\ Last(f) \in LeaseFrames /\ Last(f) = f[Len(f)]
  <2>1. f \in Seq(LeaseFrames) /\ f # <<>>
    BY <1>1, <1>2, ContextParts
  <2> HIDE DEF f
  <2> QED BY <2>1, FrontAndLast
<1>5. b \in Sources /\ Last(f).previous \in Sources
  BY <1>4 DEF LeaseFrames
<1>6. /\ y \in ContextRecords /\ y.owner = t /\ y.frames = Front(f) /\ y.overflow = 0
      /\ y.active = IF held THEN Last(f).previous ELSE Stock
  BY <1>1, <1>2, <1>3, <1>4, <1>5 DEF ContextRecords
<1> HIDE DEF y
<1>7. Len(y.frames) <= FrameDepth
  BY <1>3, <1>4, <1>6
<1>8. /\ bank_owner' \in [Banks -> Contexts \cup {0}]
      /\ \A d \in Banks : \/ bank_owner'[d] = bank_owner[d]
                          \/ bank_owner[d] = c /\ bank_owner'[d] = 0
      /\ \A d \in Banks : d # b => bank_owner'[d] = bank_owner[d]
      /\ b \in Banks /\ bank_owner[b] = c => bank_owner'[b] = 0
  <2>1. CASE b # Stock /\ held
    <3>1. b \in Banks /\ bank_owner' = [bank_owner EXCEPT ![b] = 0] /\ bank_owner[b] = c
      BY <1>1, <1>5, <2>1 DEF Sources
    <3> HIDE DEF b
    <3> QED BY <1>2, <1>3, <3>1
  <2>2. CASE ~(b # Stock /\ held)
    <3>1. bank_owner' = bank_owner
      BY <1>1, <2>2
    <3> QED BY <1>3, <2>2, <3>1, CountsTyped
  <2> QED BY <2>1, <2>2
<1>9. ASSUME InUse
      PROVE  /\ \A i \in 1 .. Len(s) : GenerationOK(s[i])
             /\ ContextSound(s, q, y, c, bank_owner')
             /\ \A d \in Banks : bank_owner'[d] = c => HasFrame(d, y)
  <2>1. /\ \A i \in 1 .. Len(s) : GenerationOK(s[i])
        /\ ContextSound(s, "pop", k, c, bank_owner)
    BY <1>2, <1>9 DEF ThreadSound
  <2>2. FramesLease(f, c, bank_owner) /\ Len(f) \in 1 .. Len(f)
    BY <1>4, <2>1 DEF ContextSound
  <2>3. held
    BY <1>4, <2>2 DEF FramesLease
  <2>4. y.active = Last(f).previous
    BY <1>6, <2>3
  <2>5. ContextSound(s, q, y, c, bank_owner')
    <3>1. \A d \in Banks : bank_owner[d] = c /\ d # Last(contexts[c].frames).leased =>
            bank_owner'[d] = c
      BY <1>8
    <3>2. /\ y.frames = Front(contexts[c].frames) /\ contexts[c].overflow = 0
          /\ y.active = Last(contexts[c].frames).previous
          /\ q = IF Len(contexts[c].frames) = 1 THEN "release" ELSE "engine"
          /\ ContextSound(s, "pop", contexts[c], c, bank_owner)
      BY <1>1, <1>6, <2>1, <2>4
    <3> HIDE DEF c, s, q
    <3> QED BY <1>2, <1>6, <3>1, <3>2, PoppedContext
  <2>6. ASSUME NEW d \in Banks, bank_owner'[d] = c
        PROVE  HasFrame(d, y)
    <3>1. d # b /\ bank_owner[d] = c
      <4>1. bank_owner[d] = c
        BY <1>3, <1>8, <2>6
      <4>2. d # b
        BY <1>3, <1>8, <2>6, <4>1
      <4> QED BY <4>1, <4>2
    <3>2. PICK i \in 1 .. Len(f) : f[i].leased = d
      BY <1>3, <1>9, <3>1 DEF PlantSound, BanksHeld, HasFrame
    <3>3. i \in 1 .. Len(f) - 1
      BY <1>4, <3>1, <3>2
    <3>4. y.owner # Nobody /\ y.frames[i].leased = d /\ i \in 1 .. Len(y.frames)
      BY <1>4, <1>6, <3>2, <3>3, PlantAssumption
    <3> QED BY <3>4 DEF HasFrame
  <2> QED BY <2>1, <2>5, <2>6
<1>10. /\ at' = [at EXCEPT ![t] = at[t]] /\ nest' = [nest EXCEPT ![t] = s]
       /\ pc' = [pc EXCEPT ![t] = q] /\ mine' = [mine EXCEPT ![t] = h]
  BY <1>1, AtThread, SameRow DEF PlantTypes, TypeOK
<1>11. Placed(t, q, at[t], h, s, contexts')
  <2>1. contexts'[c].owner = t
    BY <1>1, <1>2, <1>6, AtThread DEF PlantTypes
  <2>2. q = "release" => h = c
    OBVIOUS
  <2>3. Placed(t, "pop", at[t], c, s, contexts)
    BY <1>1, AtThread
  <2> HIDE DEF q, h, c
  <2> QED BY <1>2, <1>3, <2>1, <2>2, <2>3 DEF Placed
<1>12. InUse => /\ \A i \in 1 .. Len(s) : GenerationOK(s[i])
                /\ IF y.owner = t THEN ContextSound(s, q, y, c, bank_owner')
                                  ELSE \A i \in 1 .. Len(s) : s[i].bank = Stock
                /\ \A d \in Banks : bank_owner'[d] = c => HasFrame(d, y)
  BY <1>6, <1>9
<1>13. /\ contexts' = [contexts EXCEPT ![c] = y] /\ UNCHANGED <<runtime, installer>>
       /\ contexts[c].owner = t /\ y.owner \in {t, Nobody} /\ q \in Places
       /\ q \in {"engine", "bank", "release"}
       /\ \A d \in Banks : \/ bank_owner'[d] = bank_owner[d]
                           \/ contexts[c].owner = t /\ Handed(bank_owner[d], bank_owner'[d], c)
  BY <1>1, <1>2, <1>3, <1>6, <1>8 DEF Handed
<1> HIDE DEF c, s, q, h, b
<1> QED BY <1>2, <1>3, <1>6, <1>7, <1>8, <1>10, <1>11, <1>12, <1>13, ContextKept

-----------------------------------------------------------------------------
\* The installer.  Where nobody has come through the hooks, all is sound.
LEMMA CalmIsSound ==
  ASSUME PlantTypes, PlantsUntouched
  PROVE  BanksHeld /\ \A t \in Threads : ThreadSound(t, nest[t], pc[t], contexts, bank_owner)
<1>1. BanksHeld
  BY DEF PlantsUntouched, BanksHeld
<1>2. ASSUME NEW t \in Threads
      PROVE  ThreadSound(t, nest[t], pc[t], contexts, bank_owner)
  <2>1. \A c \in Contexts : contexts[c].owner # t
    BY NoContextParts, PlantAssumption DEF PlantsUntouched
  <2>2. nest[t] = <<>> /\ Len(nest[t]) = 0
    BY EmptySeq DEF PlantsUntouched
  <2> QED BY <2>1, <2>2 DEF ThreadSound
<1> QED BY <1>1, <1>2

LEMMA InstallKeeps ==
  ASSUME PlantSound, UNCHANGED Others,
         initialize_state' \in 0 .. 2, storage' \in 0 .. MaxInstalls,
         installs' \in 0 .. MaxInstalls, selector' \in BOOLEAN, hooked' \in BOOLEAN,
         stage' \in Stages, cell' \in 0 .. BankCount + ContextCount + 1,
         elders' \subseteq Contexts \X Threads,
         PlantInstaller', EldersAhead', Calm' => Calm, InUse' => InUse \/ Calm
  PROVE  PlantSound'
<1> USE DEF PlantSound
<1>1. /\ bank_owner' = bank_owner /\ contexts' = contexts /\ nest' = nest
      /\ pc' = pc /\ at' = at /\ mine' = mine
  BY DEF Others, registry, locals
<1>2. TypeOK'
  BY <1>1 DEF PlantTypes, TypeOK, IsContext
<1>3. PlantTypes'
  BY <1>1, <1>2 DEF PlantTypes
<1>4. AllPlaced' /\ OneContext'
  BY <1>1 DEF AllPlaced, OneContext, Placed
<1>5. Calm' => PlantsUntouched'
  BY <1>1 DEF PlantsUntouched
<1>6. InUse' => BanksHeld /\ \A t \in Threads :
                  ThreadSound(t, nest[t], pc[t], contexts, bank_owner)
  BY CalmIsSound
<1>7. InUse' => BanksHeld' /\ \A t \in Threads :
                  ThreadSound(t, nest'[t], pc'[t], contexts', bank_owner')
  BY <1>1, <1>6 DEF BanksHeld
<1> QED BY <1>3, <1>4, <1>5, <1>7

LEMMA InstallTypes ==
  ASSUME PlantSound
  PROVE  /\ initialize_state \in 0 .. 2 /\ storage \in 0 .. MaxInstalls
         /\ installs \in 0 .. MaxInstalls /\ selector \in BOOLEAN /\ hooked \in BOOLEAN
         /\ stage \in Stages /\ cell \in 0 .. BankCount + ContextCount + 1
         /\ elders \subseteq Contexts \X Threads /\ PlantInstaller
         /\ BankCount \in Nat \ {0} /\ ContextCount \in Nat \ {0} /\ MaxInstalls \in Nat
BY PlantAssumption, CountsTyped DEF PlantSound, PlantTypes, TypeOK

\* The elders do not change, and the scan is over or stands where it stood.
LEMMA EldersStand ==
  ASSUME PlantSound, UNCHANGED <<pc, contexts, elders>>, cell' = cell \/ cell' = 0
  PROVE  EldersAhead'
BY DEF PlantSound, EldersAhead, ElderAhead

LEMMA PreparingPlantsKept ==
  ASSUME OneInstall, PlantSound,
         Initialize \/ InitializeFails \/ SourceBankBusy \/ CommitPrepared
         \/ AbortPrepared \/ RollbackFailedCommit \/ Uninstall
  PROVE  PlantSound'
<1>1. UNCHANGED <<Others, cell, elders>> /\ UNCHANGED <<pc, contexts>>
  BY DEF Initialize, InitializeFails, SourceBankBusy, CommitPrepared, AbortPrepared,
         RollbackFailedCommit, Uninstall, Others, registry, locals
<1>2. EldersAhead'
  BY <1>1, EldersStand
<1> USE InstallTypes DEF PlantInstaller, InUse, Calm, Stages
<1>3. CASE Initialize
  BY <1>1, <1>2, <1>3, InstallKeeps DEF Initialize, OneInstall
<1>4. CASE InitializeFails
  BY <1>1, <1>2, <1>4, InstallKeeps DEF InitializeFails
<1>5. CASE SourceBankBusy
  BY <1>1, <1>2, <1>5, InstallKeeps DEF SourceBankBusy, runtime
<1>6. CASE CommitPrepared
  BY <1>1, <1>2, <1>6, InstallKeeps DEF CommitPrepared, runtime
<1>7. CASE AbortPrepared
  BY <1>1, <1>2, <1>7, InstallKeeps DEF AbortPrepared, runtime
<1>8. CASE RollbackFailedCommit
  BY <1>1, <1>2, <1>8, InstallKeeps DEF RollbackFailedCommit, runtime
<1>9. CASE Uninstall
  BY <1>1, <1>2, <1>9, InstallKeeps DEF Uninstall, runtime
<1> QED BY <1>3, <1>4, <1>5, <1>6, <1>7, <1>8, <1>9

LEMMA ScanEndKept ==
  ASSUME PlantSound, ScanBusy \/ SetSelector \/ ClearSelector \/ Shutdown
  PROVE  PlantSound'
<1>1. UNCHANGED <<Others, elders>> /\ UNCHANGED <<pc, contexts>> /\ cell' = 0
  BY DEF ScanBusy, SetSelector, ClearSelector, Shutdown, Others, registry, locals
<1>2. EldersAhead'
  BY <1>1, EldersStand
<1>3. cell # 0
  BY InstallTypes DEF ScanBusy, SetSelector, ClearSelector, Shutdown, Scanned
<1> USE InstallTypes DEF PlantInstaller, InUse, Calm, Stages
<1>4. CASE ScanBusy
  <2>1. stage' \in {"clear", "shutdown", "dirty"}
    BY <1>3, <1>4 DEF ScanBusy
  <2> QED BY <1>1, <1>2, <1>3, <1>4, <2>1, InstallKeeps DEF ScanBusy
<1>5. CASE SetSelector
  BY <1>1, <1>2, <1>3, <1>5, InstallKeeps DEF SetSelector
<1>6. CASE ClearSelector
  <2>1. selector' \in BOOLEAN
    BY <1>6 DEF ClearSelector
  <2> QED BY <1>1, <1>2, <1>3, <1>6, <2>1, InstallKeeps DEF ClearSelector
<1>7. CASE Shutdown
  <2>1. selector' \in BOOLEAN
    BY <1>7 DEF Shutdown
  <2> QED BY <1>1, <1>2, <1>3, <1>7, <2>1, InstallKeeps DEF Shutdown
<1> QED BY <1>4, <1>5, <1>6, <1>7

LEMMA BlockKept ==
  ASSUME PlantSound, Block
  PROVE  PlantSound'
<1>1. /\ stage \in {"set", "clear", "shutdown"} /\ initialize_state' = 1 /\ cell' = 1
      /\ elders' = {<<c, contexts[c].owner>> : c \in {x \in Contexts : contexts[x].owner # Nobody}}
      /\ UNCHANGED <<storage, selector, stage, hooked, installs>> /\ UNCHANGED Others
      /\ UNCHANGED <<pc, contexts>>
  BY DEF Block, Others, registry, locals
<1>2. \A c \in Contexts : contexts[c].owner \in Threads \cup {Nobody}
  BY DEF PlantSound, PlantTypes, ContextRecords
<1>3. elders' \subseteq Contexts \X Threads
  BY <1>1, <1>2
<1>4. EldersAhead'
  <2> SUFFICES ASSUME NEW e \in elders'
               PROVE  /\ pc[e[2]] # "claim" /\ contexts[e[1]].owner = e[2]
                      /\ 1 <= BankCount + e[1]
    BY <1>1 DEF EldersAhead, ElderAhead
  <2>1. e[1] \in Contexts /\ e[2] \in Threads /\ contexts[e[1]].owner = e[2]
    BY <1>1, <1>2
  <2>2. pc[e[2]] # "claim"
    BY <2>1, AtThread DEF Placed
  <2>3. 1 <= BankCount + e[1]
    BY <2>1, CountsTyped
  <2> QED BY <2>1, <2>2, <2>3
<1>5. PlantInstaller' /\ (Calm' => Calm) /\ ~InUse'
  BY <1>1, InstallTypes DEF PlantInstaller, Calm, InUse
<1> QED BY <1>1, <1>3, <1>4, <1>5, InstallTypes, InstallKeeps

LEMMA ScanOnKept ==
  ASSUME PlantSound, ScanOn
  PROVE  PlantSound'
<1>1. /\ cell # 0 /\ cell' = cell + 1 /\ ~Scanned /\ ~CellBusy
      /\ UNCHANGED <<initialize_state, storage, selector, stage, hooked, installs, elders>>
      /\ UNCHANGED Others /\ UNCHANGED <<pc, contexts>>
  BY DEF ScanOn, Others, registry, locals, runtime
<1>2. cell' \in 0 .. BankCount + ContextCount + 1 /\ cell' # 0
  BY <1>1, InstallTypes DEF Scanned
<1>3. EldersAhead'
  <2> SUFFICES ASSUME NEW e \in elders
               PROVE  ElderAhead(e[1], e[2], pc[e[2]], contexts[e[1]].owner)'
    BY <1>1 DEF EldersAhead
  <2>1. e[1] \in Contexts /\ e[2] \in Threads
    BY InstallTypes
  <2>2. ElderAhead(e[1], e[2], pc[e[2]], contexts[e[1]].owner)
    BY <1>1 DEF PlantSound, EldersAhead
  <2>3. ASSUME contexts[e[1]].owner = e[2]
        PROVE  cell + 1 <= BankCount + e[1]
    <3>1. cell <= BankCount + e[1]
      BY <2>2, <2>3 DEF ElderAhead
    <3>2. cell # BankCount + e[1]
      <4> SUFFICES ASSUME cell = BankCount + e[1]
                   PROVE  FALSE
        OBVIOUS
      <4>1. cell \notin Banks /\ cell - BankCount = e[1]
        BY <2>1, CountsTyped, InstallTypes DEF Banks
      <4>2. contexts[e[1]].owner = Nobody
        BY <1>1, <4>1 DEF CellBusy
      <4> QED BY <2>1, <2>3, <4>2, PlantAssumption
    <3> QED BY <2>1, <3>1, <3>2, CountsTyped, InstallTypes
  <2> QED BY <1>1, <2>2, <2>3 DEF ElderAhead
<1>4. PlantInstaller' /\ (Calm' => Calm) /\ (InUse' => InUse)
  BY <1>1, <1>2, InstallTypes DEF PlantInstaller, Calm, InUse
<1> QED BY <1>1, <1>2, <1>3, <1>4, InstallTypes, InstallKeeps

LEMMA InitializeDoneKept ==
  ASSUME PlantSound, InitializeDone
  PROVE  PlantSound'
<1>1. /\ stage = "initializing" /\ storage' = installs + 1 /\ installs' = installs + 1
      /\ contexts' = [c \in Contexts |-> NoContext] /\ bank_owner' = [b \in Banks |-> 0]
      /\ selector' = FALSE /\ initialize_state' = 2 /\ stage' = "set"
      /\ UNCHANGED <<cell, hooked, elders, pc, at, mine, nest>>
  BY DEF InitializeDone, locals
<1>2. PlantInstaller /\ Calm /\ PlantsUntouched /\ installs = 0 /\ installs < MaxInstalls /\ cell = 0
  BY <1>1, InstallTypes DEF PlantSound, PlantInstaller, Calm
<1>3. UNCHANGED Others /\ UNCHANGED <<pc, contexts, elders>>
  BY <1>1, <1>2 DEF PlantsUntouched, Others, registry, locals
<1>4. EldersAhead'
  BY <1>1, <1>3, EldersStand
<1>5. PlantInstaller' /\ ~InUse'
  BY <1>1, <1>2, InstallTypes DEF PlantInstaller, InUse
<1>6. installs + 1 \in 0 .. MaxInstalls /\ "set" \in Stages
  BY <1>2, InstallTypes DEF Stages
<1>7. selector' \in BOOLEAN
  BY <1>1
<1> QED BY <1>1, <1>2, <1>3, <1>4, <1>5, <1>6, <1>7, InstallTypes, InstallKeeps

-----------------------------------------------------------------------------
LEMMA PlantsStart == Init => PlantSound
<1> SUFFICES ASSUME Init PROVE PlantSound
  OBVIOUS
<1>1. /\ nest \in [Threads -> Seq(Generated)] /\ contexts \in [Contexts -> ContextRecords]
      /\ \A c \in Contexts : IsContext(contexts[c]) /\ contexts[c].owner = Nobody
  <2>1. <<>> \in Seq(Generated)
    BY EmptySeq
  <2>2. IsContext(NoContext)
    BY NoContextParts, ContextParts, CountsTyped DEF IsContext
  <2> QED BY <2>1, <2>2, NoContextParts DEF Init
<1>2. \A t \in Threads : nest[t] = <<>> /\ Len(nest[t]) = 0 /\ pc[t] = "engine" /\ at[t] = 1
  BY EmptySeq DEF Init
<1>3. TypeOK
  <2>1. \A t \in Threads : \A i \in 1 .. Len(nest[t]) : FALSE
    BY <1>2
  <2>2. /\ \A c \in Contexts : IsContext(contexts[c])
        /\ \A t \in Threads : \A i \in 1 .. Len(nest[t]) : nest[t][i] \in Generated
    BY <1>1, <2>1
  <2>3. selector \in BOOLEAN /\ hooked \in BOOLEAN
    BY DEF Init
  <2>4. /\ pc \in [Threads -> Places] /\ stage \in Stages
        /\ at \in [Threads -> 1 .. BankCount + ContextCount]
        /\ mine \in [Threads -> Contexts \cup {0}]
        /\ bank_owner \in [Banks -> Contexts \cup {0}]
    BY CountsTyped DEF Init, Places, Stages
  <2>5. /\ initialize_state \in 0 .. 2 /\ storage \in 0 .. MaxInstalls
        /\ installs \in 0 .. MaxInstalls /\ cell \in 0 .. BankCount + ContextCount + 1
        /\ elders \subseteq Contexts \X Threads
    BY CountsTyped, PlantAssumption DEF Init
  <2> QED BY <2>2, <2>3, <2>4, <2>5 DEF TypeOK, Generated
<1>4. PlantInstaller /\ PlantsUntouched /\ EldersAhead /\ ~InUse
  BY DEF Init, PlantInstaller, PlantsUntouched, EldersAhead, InUse
<1>5. AllPlaced /\ OneContext
  BY <1>1, <1>2, PlantAssumption DEF AllPlaced, Placed, OneContext
<1> QED BY <1>1, <1>3, <1>4, <1>5 DEF PlantSound, PlantTypes

LEMMA PlantsStutter ==
  ASSUME PlantSound, UNCHANGED vars
  PROVE  PlantSound'
<1>1. UNCHANGED Others /\ UNCHANGED <<pc, contexts, elders>> /\ UNCHANGED <<runtime, installer>>
  BY DEF vars, Others, registry, locals, installer
<1>2. EldersAhead'
  BY <1>1, EldersStand DEF installer
<1>3. PlantInstaller' /\ (Calm' => Calm) /\ (InUse' => InUse)
  BY <1>1, InstallTypes DEF PlantInstaller, Calm, InUse, runtime, installer
<1> QED BY <1>1, <1>2, <1>3, InstallTypes, InstallKeeps DEF runtime, installer

LEMMA PlantsKept ==
  ASSUME OneInstall, PlantSound, [Next]_vars
  PROVE  PlantSound'
<1>1. CASE UNCHANGED vars
  BY <1>1, PlantsStutter
<1>2. CASE Install
  BY <1>2, PreparingPlantsKept, ScanEndKept, BlockKept, ScanOnKept, InitializeDoneKept
     DEF Install
<1>3. ASSUME NEW t \in Threads,
             \/ CallWrapper(t) \/ EnterCheck(t) \/ EnterLookup(t) \/ EnterClaim(t)
             \/ EnterBank(t) \/ Resolve(t) \/ Return(t)
             \/ LeaveLookup(t) \/ LeaveOverflow(t) \/ LeavePop(t) \/ LeaveRelease(t)
             \/ \E a \in Authored : Count(t, a)
      PROVE  PlantSound'
  BY <1>3, CallWrapperKept, EnterCheckKept, EnterLookupKept, EnterClaimKept, EnterBankKept,
     ResolveKept, ReturnKept, LeaveLookupKept, LeaveOverflowKept, LeavePopKept,
     LeaveReleaseKept, CountKept
<1> QED BY <1>1, <1>2, <1>3 DEF Next

-----------------------------------------------------------------------------
\* What the inductive invariant gives.  Where a generation of t uses a bank,
\* a frame of a context of t leases it.
FrameOf(t, i, c, b) == LET o == Outside(nest[t], pc[t], contexts[c]) IN
  /\ contexts[c].owner = t /\ i - o \in 1 .. Len(contexts[c].frames)
  /\ contexts[c].frames[i - o].leased = b
  /\ ContextSound(nest[t], pc[t], contexts[c], c, bank_owner) /\ o \in Int

LEMMA FrameOfGeneration ==
  ASSUME PlantSound, InUse, NEW t \in Threads, NEW i \in 1 .. Len(nest[t]),
         nest[t][i].bank # Stock
  PROVE  \E c \in Contexts : FrameOf(t, i, c, nest[t][i].bank)
<1>1. ThreadSound(t, nest[t], pc[t], contexts, bank_owner)
  BY AtThread
<1>2. PICK c \in Contexts : contexts[c].owner = t
  BY <1>1 DEF ThreadSound
<1> DEFINE s == nest[t]
           k == contexts[c]
           o == Outside(s, pc[t], k)
<1>3. ContextSound(s, pc[t], k, c, bank_owner)
  BY <1>1, <1>2 DEF ThreadSound
<1>4. Len(s) \in Nat /\ Len(k.frames) \in Nat /\ k.overflow \in Nat
  BY AtThread, PlantParts, ContextParts
<1>5. o \in Int
  <2>1. Height(s, pc[t]) \in Int
    BY <1>4 DEF Height
  <2>2. o = Height(s, pc[t]) - Len(k.frames) - k.overflow
    BY DEF Outside
  <2> HIDE DEF o
  <2> QED BY <1>4, <2>1, <2>2
<1>6. i > o /\ i <= o + Len(k.frames) /\ s[i].bank = k.frames[i - o].leased
  BY <1>3 DEF ContextSound, Mirrors
<1>7. i - o \in 1 .. Len(k.frames)
  <2>1. i \in Int /\ Len(k.frames) \in Nat
    BY <1>4
  <2> HIDE DEF o
  <2> QED BY <1>5, <1>6, <2>1
<1> QED BY <1>2, <1>3, <1>5, <1>6, <1>7 DEF FrameOf

LEMMA NoBankShared ==
  ASSUME PlantSound
  PROVE  NoSharedBank
<1> SUFFICES ASSUME InUse, NEW g \in Generations, NEW h \in Generations, g # h,
                    BankOf(g) # Stock, BankOf(g) = BankOf(h)
             PROVE  FALSE
  BY DEF NoSharedBank
<1> DEFINE t == g[1]
           i == g[2]
           u == h[1]
           j == h[2]
<1>1. /\ t \in Threads /\ i \in 1 .. Len(nest[t]) /\ u \in Threads /\ j \in 1 .. Len(nest[u])
      /\ (t # u \/ i # j) /\ nest[t][i].bank = BankOf(g) /\ nest[u][j].bank = BankOf(g)
      /\ i \in Int /\ j \in Int
  <2>1. t \in Threads /\ u \in Threads /\ i \in 1 .. MaxNest /\ j \in 1 .. MaxNest
        /\ i <= Len(nest[t]) /\ j <= Len(nest[u]) /\ (t # u \/ i # j)
    BY DEF Generations
  <2>2. Len(nest[t]) \in Nat /\ Len(nest[u]) \in Nat
    BY <2>1, AtThread, PlantParts
  <2>3. MaxNest \in Nat
    BY PlantAssumption
  <2> QED BY <2>1, <2>2, <2>3 DEF BankOf
<1> HIDE DEF t, i, u, j
<1>2. PICK c \in Contexts : FrameOf(t, i, c, BankOf(g))
  BY <1>1, FrameOfGeneration
<1>3. PICK d \in Contexts : FrameOf(u, j, d, BankOf(g))
  BY <1>1, FrameOfGeneration
<1>4. c = d
  BY <1>2, <1>3 DEF FrameOf, ContextSound, FramesLease
<1>5. t = u
  BY <1>2, <1>3, <1>4 DEF FrameOf
<1>6. i - Outside(nest[t], pc[t], contexts[c]) # j - Outside(nest[t], pc[t], contexts[c])
  <2>1. i # j /\ i \in Int /\ j \in Int /\ Outside(nest[t], pc[t], contexts[c]) \in Int
    BY <1>1, <1>2, <1>5 DEF FrameOf
  <2> QED BY ONLY <2>1
<1> QED BY <1>2, <1>3, <1>4, <1>5, <1>6 DEF FrameOf, ContextSound, FramesLease

LEMMA LeasesBalance ==
  ASSUME PlantSound
  PROVE  LeaseBalanced
<1> SUFFICES ASSUME InUse
             PROVE  /\ \A t \in Threads : pc[t] = "pop" =>
                         contexts[mine[t]].overflow > 0 \/ contexts[mine[t]].frames # <<>>
                    /\ \A t \in Threads : pc[t] = "engine" /\ nest[t] = <<>> => Own(t) = {}
                    /\ \A b \in Banks : bank_owner[b] # 0 =>
                         LET t == contexts[bank_owner[b]].owner
                         IN  \/ t # Nobody /\ pc[t] \in {"leave", "pop"}
                             \/ \E g \in Generations : BankOf(g) = b /\ g[1] = t
  BY DEF LeaseBalanced
<1>1. ASSUME NEW t \in Threads, NEW c \in Contexts, contexts[c].owner = t
      PROVE  /\ ContextSound(nest[t], pc[t], contexts[c], c, bank_owner)
             /\ contexts[c] \in ContextRecords /\ Len(contexts[c].frames) \in Nat
             /\ contexts[c].overflow \in Nat /\ Len(nest[t]) \in Nat
             /\ contexts[c].frames = <<>> <=> Len(contexts[c].frames) = 0
  BY <1>1, AtThread, PlantParts, ContextParts DEF ThreadSound
<1>2. ASSUME NEW t \in Threads, pc[t] = "pop"
      PROVE  contexts[mine[t]].frames # <<>>
  <2>1. mine[t] \in Contexts /\ contexts[mine[t]].owner = t
    BY <1>2, AtThread DEF Placed
  <2> QED BY <1>1, <1>2, <2>1 DEF ContextSound
<1>3. ASSUME NEW t \in Threads, pc[t] = "engine", nest[t] = <<>>, NEW c \in Own(t)
      PROVE  FALSE
  <2>1. c \in Contexts /\ contexts[c].owner = t
    BY DEF Own
  <2>2. Len(nest[t]) = 0
    BY <1>3, EmptySeq
  <2>3. /\ Outside(nest[t], "engine", contexts[c]) >= 0 /\ contexts[c].frames # <<>>
        /\ Len(contexts[c].frames) \in Nat /\ contexts[c].overflow \in Nat
        /\ Len(contexts[c].frames) # 0
    BY <1>1, <1>3, <2>1 DEF ContextSound
  <2>4. Outside(nest[t], "engine", contexts[c]) = 0 - Len(contexts[c].frames) - contexts[c].overflow
    BY <2>2 DEF Outside, Height
  <2> QED BY <2>3, <2>4
<1>4. ASSUME NEW b \in Banks, bank_owner[b] # 0
      PROVE  LET t == contexts[bank_owner[b]].owner
             IN  \/ t # Nobody /\ pc[t] \in {"leave", "pop"}
                 \/ \E g \in Generations : BankOf(g) = b /\ g[1] = t
  <2> DEFINE c == bank_owner[b]
             k == contexts[c]
             t == k.owner
             s == nest[t]
             o == Outside(s, pc[t], k)
             m == Len(k.frames)
             v == k.overflow
  <2>1. c \in Contexts /\ HasFrame(b, k)
    BY <1>4, AtThread DEF PlantSound, PlantTypes, TypeOK, BanksHeld
  <2>2. t \in Threads
    BY <2>1 DEF PlantSound, PlantTypes, ContextRecords, HasFrame
  <2>3. PICK i \in 1 .. m : k.frames[i].leased = b
    BY <2>1 DEF HasFrame
  <2>4. CASE pc[t] \notin {"leave", "pop"}
    <3>1. /\ o >= 0 /\ Mirrors(s, k.frames, o) /\ o = Len(s) - m - v
          /\ m \in Nat /\ v \in Nat /\ Len(s) \in Nat
      <4>1. o = Len(s) - m - v
        BY <2>4 DEF Outside, Height
      <4>2. ContextSound(s, pc[t], k, c, bank_owner) /\ m \in Nat /\ v \in Nat /\ Len(s) \in Nat
        <5> HIDE DEF c
        <5> QED BY <1>1, <2>1, <2>2
      <4> QED BY <4>1, <4>2 DEF ContextSound
    <3>2. Len(s) <= MaxNest /\ MaxNest \in Nat
      BY <2>2, AtThread, PlantAssumption DEF Placed
    <3> HIDE DEF m, o, v, s
    <3>3. /\ o + i \in 1 .. Len(s) /\ o + i > o /\ o + i <= o + m /\ (o + i) - o = i
          /\ o + i \in 1 .. MaxNest /\ o + i <= Len(s)
      <4>1. i \in 1 .. m
        OBVIOUS
      <4>2. o \in Int
        BY <3>1
      <4> QED BY ONLY <3>1, <3>2, <4>1, <4>2
    <3>4. s[o + i].bank = b
      BY <2>3, <3>1, <3>3 DEF Mirrors, m
    <3>5. <<t, o + i>> \in Generations /\ BankOf(<<t, o + i>>) = b
      <4> HIDE DEF t
      <4> QED BY <2>2, <3>3, <3>4 DEF Generations, BankOf, s
    <3> QED BY <3>5
  <2> QED BY <2>2, <2>4, PlantAssumption
<1> QED BY <1>2, <1>3, <1>4

LEMMA GenerationsSound ==
  ASSUME PlantSound
  PROVE  GenerationSound
<1> SUFFICES ASSUME InUse, NEW g \in Generations
             PROVE  /\ nest[g[1]][g[2]].source \in {Unresolved, BankOf(g)}
                    /\ nest[g[1]][g[2]].total <= IF BankOf(g) = Stock THEN 0 ELSE Capacity
  BY DEF GenerationSound, OneStoragePerGeneration, CountFitsStorage
<1>1. g[1] \in Threads /\ g[2] \in 1 .. MaxNest /\ g[2] <= Len(nest[g[1]])
  BY DEF Generations
<1>2. g[2] \in 1 .. Len(nest[g[1]])
  BY <1>1, AtThread, PlantParts, PlantAssumption
<1>3. GenerationOK(nest[g[1]][g[2]])
  BY <1>1, <1>2, AtThread DEF ThreadSound
<1> QED BY <1>3 DEF GenerationOK, BankOf

LEMMA PlantsAlwaysSound ==
  ASSUME OneInstall
  PROVE  Spec => []PlantSound
<1>1. Init => PlantSound
  BY PlantsStart
<1>2. PlantSound /\ [Next]_vars => PlantSound'
  BY PlantsKept
<1> QED BY <1>1, <1>2, PTL DEF Spec

\* The plant banks: while they are in use no two generations share one, none
\* stays leased without a generation, and every generation works in one storage
\* and inside its limit.
THEOREM PlantBanksSound ==
  ASSUME OneInstall
  PROVE  Spec => []PlantInv
<1>1. PlantSound => PlantInv
  BY NoBankShared, LeasesBalance, GenerationsSound DEF PlantInv, PlantSound, PlantTypes
<1> QED BY <1>1, PlantsAlwaysSound, PTL

\* gu_plant_bank_shutdown: whoever had a context when entry was blocked has given
\* it back when the storage goes.
THEOREM OldEntriesAreDone ==
  ASSUME OneInstall
  PROVE  Spec => OldEntriesKeepStorage
<1>1. ASSUME PlantSound, [Next]_vars, storage # 0, storage' = 0, NEW e \in elders
      PROVE  contexts[e[1]].owner # e[2]
  <2>1. Shutdown
    <3>1. CASE UNCHANGED vars
      BY <1>1, <3>1 DEF vars, runtime
    <3>2. CASE \E t \in Threads :
                 \/ CallWrapper(t) \/ EnterCheck(t) \/ EnterLookup(t) \/ EnterClaim(t)
                 \/ EnterBank(t) \/ Resolve(t) \/ Return(t)
                 \/ LeaveLookup(t) \/ LeaveOverflow(t) \/ LeavePop(t) \/ LeaveRelease(t)
                 \/ \E a \in Authored : Count(t, a)
      BY <1>1, <3>2 DEF CallWrapper, EnterCheck, EnterLookup, EnterClaim, EnterBank, Resolve,
         Return, LeaveLookup, LeaveOverflow, LeavePop, LeaveRelease, Count, runtime
    <3>3. CASE Install
      <4>1. ~InitializeDone
        BY <1>1, InstallTypes DEF InitializeDone
      <4> QED BY <1>1, <3>3, <4>1 DEF Install, Initialize, InitializeFails, Block, ScanOn, ScanBusy,
             SetSelector, ClearSelector, SourceBankBusy, CommitPrepared, AbortPrepared,
             RollbackFailedCommit, Uninstall, runtime
    <3> QED BY <1>1, <3>1, <3>2, <3>3 DEF Next
  <2>2. cell = BankCount + ContextCount + 1 /\ cell # 0
    BY <2>1, InstallTypes, <1>1 DEF Shutdown, Scanned
  <2>3. e[1] \in Contexts
    BY <1>1, InstallTypes
  <2>4. contexts[e[1]].owner = e[2] => cell <= BankCount + e[1]
    BY <1>1, <2>2 DEF PlantSound, EldersAhead, ElderAhead
  <2> QED BY <2>2, <2>3, <2>4, CountsTyped
<1>2. PlantSound /\ [Next]_vars =>
        [storage # 0 /\ storage' = 0 => \A e \in elders : contexts[e[1]].owner # e[2]]_vars
  BY <1>1
<1> QED BY <1>2, PlantsAlwaysSound, PTL DEF Spec, OldEntriesKeepStorage
=============================================================================
