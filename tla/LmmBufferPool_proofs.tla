------------------------ MODULE LmmBufferPool_proofs ------------------------
(* Theorems about LmmBufferPool, for every value of its constants. *)
EXTENDS LmmBufferPool, FiniteSetTheorems, SequenceTheorems, TLAPS

-----------------------------------------------------------------------------
(* The list of free buffers *)

IdxOnce(s) == \A i, j \in 1..Len(s) : s[i].idx = s[j].idx => i = j
MemOnce(s) == \A i, j \in 1..Len(s) : s[i].mem = s[j].mem => i = j

LEMMA AppendFree ==
  ASSUME NEW s \in Seq(Pooled), NEW e \in Pooled
  PROVE  /\ Append(s, e) \in Seq(Pooled) /\ Len(Append(s, e)) = Len(s) + 1
         /\ Append(s, e) # <<>>
         /\ Entries(Append(s, e)) = Entries(s) \cup {e}
         /\ IdxOnce(s) /\ (\A b \in Entries(s) : b.idx # e.idx) => IdxOnce(Append(s, e))
         /\ MemOnce(s) /\ (\A b \in Entries(s) : b.mem # e.mem) => MemOnce(Append(s, e))
<1> DEFINE a == Append(s, e)
<1>1. /\ a \in Seq(Pooled) /\ Len(a) = Len(s) + 1 /\ Len(s) \in Nat
      /\ \A i \in 1..Len(s) : a[i] = s[i]
      /\ a[Len(s) + 1] = e
  OBVIOUS
<1> HIDE DEF a
<1>2. Entries(a) = Entries(s) \cup {e}
  <2>1. ASSUME NEW i \in 1..Len(a) PROVE a[i] \in Entries(s) \cup {e}
    <3>1. i \in 1..Len(s) \/ i = Len(s) + 1
      BY <1>1
    <3>2. QED BY <1>1, <3>1 DEF Entries
  <2>2. ASSUME NEW i \in 1..Len(s) PROVE s[i] \in Entries(a)
    <3>1. i \in 1..Len(a) /\ a[i] = s[i]
      BY <1>1
    <3>2. QED BY <3>1 DEF Entries
  <2>3. e \in Entries(a)
    BY <1>1 DEF Entries
  <2>4. QED BY <2>1, <2>2, <2>3 DEF Entries
<1>3. ASSUME IdxOnce(s), \A b \in Entries(s) : b.idx # e.idx PROVE IdxOnce(a)
  BY <1>1, <1>3 DEF IdxOnce, Entries
<1>4. ASSUME MemOnce(s), \A b \in Entries(s) : b.mem # e.mem PROVE MemOnce(a)
  BY <1>1, <1>4 DEF MemOnce, Entries
<1>5. a # <<>>
  BY <1>1
<1>6. QED BY <1>1, <1>2, <1>3, <1>4, <1>5 DEF a

LEMMA TailFree ==
  ASSUME NEW s \in Seq(Pooled), s # <<>>
  PROVE  /\ Tail(s) \in Seq(Pooled) /\ Len(Tail(s)) = Len(s) - 1
         /\ Head(s) \in Pooled /\ Entries(s) = Entries(Tail(s)) \cup {Head(s)}
         /\ IdxOnce(s) => /\ IdxOnce(Tail(s))
                          /\ \A b \in Entries(Tail(s)) : b.idx # Head(s).idx
         /\ MemOnce(s) => /\ MemOnce(Tail(s))
                          /\ \A b \in Entries(Tail(s)) : b.mem # Head(s).mem
<1> DEFINE r == Tail(s)
<1>1. /\ r \in Seq(Pooled) /\ Len(r) = Len(s) - 1 /\ Len(s) \in Nat \ {0}
      /\ Head(s) \in Pooled /\ Head(s) = s[1]
      /\ \A i \in 1..Len(r) : r[i] = s[i + 1] /\ i + 1 \in 1..Len(s)
  OBVIOUS
<1> HIDE DEF r
<1>2. Entries(s) = Entries(r) \cup {Head(s)}
  <2>1. ASSUME NEW i \in 1..Len(s) PROVE s[i] \in Entries(r) \cup {Head(s)}
    <3>1. CASE i = 1
      BY <1>1, <3>1
    <3>2. CASE i # 1
      <4>1. i - 1 \in 1..Len(r) /\ (i - 1) + 1 = i
        BY <1>1, <3>2
      <4>2. QED BY <1>1, <4>1 DEF Entries
    <3>3. QED BY <3>1, <3>2
  <2>2. ASSUME NEW i \in 1..Len(r) PROVE r[i] \in Entries(s)
    BY <1>1 DEF Entries
  <2>3. Head(s) \in Entries(s)
    BY <1>1 DEF Entries
  <2>4. QED BY <2>1, <2>2, <2>3 DEF Entries
<1>3. ASSUME IdxOnce(s)
      PROVE  IdxOnce(r) /\ \A b \in Entries(r) : b.idx # Head(s).idx
  <2>1. ASSUME NEW i \in 1..Len(r), NEW j \in 1..Len(r), r[i].idx = r[j].idx PROVE i = j
    BY <1>1, <1>3, <2>1 DEF IdxOnce
  <2>2. ASSUME NEW i \in 1..Len(r) PROVE r[i].idx # Head(s).idx
    BY <1>1, <1>3 DEF IdxOnce
  <2>3. QED BY <2>1, <2>2 DEF IdxOnce, Entries
<1>4. ASSUME MemOnce(s)
      PROVE  MemOnce(r) /\ \A b \in Entries(r) : b.mem # Head(s).mem
  <2>1. ASSUME NEW i \in 1..Len(r), NEW j \in 1..Len(r), r[i].mem = r[j].mem PROVE i = j
    BY <1>1, <1>4, <2>1 DEF MemOnce
  <2>2. ASSUME NEW i \in 1..Len(r) PROVE r[i].mem # Head(s).mem
    BY <1>1, <1>4 DEF MemOnce
  <2>3. QED BY <2>1, <2>2 DEF MemOnce, Entries
<1>5. QED BY <1>1, <1>2, <1>3, <1>4 DEF r

-----------------------------------------------------------------------------
(* The inductive invariant *)

\* Only the element's own threads are in its processBuffer(); without references
\* nobody fills the pool; and only an element whose stop() finalizes the pool ever
\* finds it finalized and sends an empty buffer.
Places ==
  /\ \A t \in Takers : pc[t] # "idle" => t \in setup.takers
  /\ ~KeepRef => used = {} /\ \A t \in Takers : pc[t] \notin {"check", "fill"}
  /\ ~Finalizes => /\ ~finalized /\ cpc = "run" /\ ~stuck /\ Null \notin out
                   /\ \A t \in Takers : pc[t] = "got" => buf[t] # Null

\* The indices of the pool's buffers are the first numbers, so that the length of
\* the free list is a new one when no buffer is in use; and the memory an element
\* adds is memory the pool does not have yet.
Numbered ==
  KeepRef =>
    /\ IsFiniteSet(used)
    /\ \A b \in Entries(free) \cup used :
         b.idx < Len(free) + Cardinality(used) /\ b.mem <= allocs
    /\ \A t \in Takers : pc[t] = "fill" =>
         /\ used = {} /\ todo[t] \in 1..allocs
         /\ \A b \in Entries(free) : b.mem <= allocs - todo[t]

\* The pool of a decoder is empty or has two buffers, of which the decoder holds
\* one: the other keeps finalize() from emptying the pool.
Two ==
  Finalizes /\ ~Emptied =>
    /\ \/ \E t \in Takers : pc[t] = "fill"
       \/ free = <<>> /\ used = {}
       \/ Len(free) + Cardinality(used) > 1
    /\ \A t \in Takers : pc[t] = "fill" => Len(free) + todo[t] > 1

IInv == TypeOK /\ Places /\ Numbered /\ Two /\ Exclusive /\ Accounted

\* What the assumption on Setups says of the fields.
LEMMA SetupTyped ==
  ASSUME setup \in Setups
  PROVE  /\ KeepRef \in BOOLEAN /\ Owned \in BOOLEAN /\ Finalizes \in BOOLEAN
         /\ BufferCount \in Nat \ {0} /\ setup.mem \in 0..MaxMem
         /\ setup.takers \subseteq Takers
         /\ Finalizes => KeepRef
         /\ KeepRef => \A t, u \in setup.takers : t = u
         /\ ~KeepRef => BufferCount <= setup.mem
         /\ MaxMem \in Nat /\ Deleters \in Nat \ {0}
BY PoolAssumption
   DEF PoolAssumption, Setup, KeepRef, Owned, Finalizes, BufferCount

\* The setup is chosen once.
LEMMA SetupStays ==
  ASSUME [Next]_vars
  PROVE  /\ setup' = setup /\ KeepRef' = KeepRef /\ Owned' = Owned
         /\ BufferCount' = BufferCount /\ Finalizes' = Finalizes /\ Emptied' = Emptied
<1>1. setup' = setup
  BY DEF Next, Work, Downstream, Wake, Finalize, vars
<1>2. QED BY <1>1 DEF KeepRef, Owned, BufferCount, Finalizes, Emptied

LEMMA InitTypeOK == Init => TypeOK
<1> SUFFICES ASSUME Init PROVE TypeOK
  OBVIOUS
<1>1. setup \in Setups
  BY DEF Init
<1>2. free \in Seq(Pooled) /\ allocs \in 0..MaxMem
  <2>1. CASE KeepRef
    BY <2>1, <1>1, SetupTyped DEF Init
  <2>2. CASE ~KeepRef
    <3>1. BufferCount \in Nat /\ BufferCount <= MaxMem /\ MaxMem \in Nat
      BY <1>1, <2>2, SetupTyped
    <3>2. ASSUME NEW i \in 1..BufferCount PROVE [mem |-> i, idx |-> i - 1] \in Pooled
      BY <3>1 DEF Pooled, Memory
    <3>3. free = [i \in 1..BufferCount |-> [mem |-> i, idx |-> i - 1]]
      BY <2>2 DEF Init
    <3>4. free \in [1..BufferCount -> Pooled]
      BY <3>2, <3>3, Zenon
    <3>5. free \in Seq(Pooled)
      BY <3>1, <3>4
    <3>6. QED BY <3>1, <3>5, <2>2 DEF Init
  <2>3. QED BY <2>1, <2>2
<1>3. Null \in Buffer /\ 0 \in 0..BufferCount /\ 0 \in 0..Deleters
  BY <1>1, SetupTyped DEF Buffer
<1>4. /\ pc \in [Takers -> {"idle", "check", "fill", "take", "lock", "wait", "woken", "got"}]
      /\ buf \in [Takers -> Buffer] /\ todo \in [Takers -> 0..BufferCount]
  BY <1>3 DEF Init
<1>5. QED BY <1>1, <1>2, <1>3, <1>4 DEF Init, TypeOK

LEMMA NextTypeOK == TypeOK /\ Places /\ Numbered /\ [Next]_vars => TypeOK'
<1> SUFFICES ASSUME TypeOK, Places, Numbered, [Next]_vars PROVE TypeOK'
  OBVIOUS
<1> DEFINE Labels == {"idle", "check", "fill", "take", "lock", "wait", "woken", "got"}
<1> DEFINE Typed == /\ free' \in Seq(Pooled) /\ used' \subseteq Pooled
                    /\ finalized' \in BOOLEAN /\ pc' \in [Takers -> Labels]
                    /\ buf' \in [Takers -> Buffer] /\ todo' \in [Takers -> 0..BufferCount]
                    /\ out' \subseteq Buffer
                    /\ wakes' \in 0..Deleters /\ allocs' \in 0..MaxMem
                    /\ cpc' \in {"run", "finalize", "wake"} /\ stuck' \in BOOLEAN
<1>0. /\ setup' = setup /\ BufferCount' = BufferCount /\ setup' \in Setups
  BY SetupStays DEF TypeOK
<1>t. /\ free \in Seq(Pooled) /\ used \subseteq Pooled /\ finalized \in BOOLEAN
      /\ pc \in [Takers -> Labels]
      /\ buf \in [Takers -> Buffer] /\ todo \in [Takers -> 0..BufferCount]
      /\ out \subseteq Buffer
      /\ wakes \in 0..Deleters /\ allocs \in 0..MaxMem
      /\ cpc \in {"run", "finalize", "wake"} /\ stuck \in BOOLEAN
      /\ MaxMem \in Nat /\ Deleters \in Nat \ {0} /\ BufferCount \in Nat \ {0}
      /\ setup.mem \in 0..MaxMem /\ Null \in Buffer /\ Pooled \subseteq Buffer
  BY SetupTyped DEF TypeOK, Buffer
<1> SUFFICES Typed
  BY <1>0, Zenon DEF TypeOK
<1> USE DEF poolVars, GoTo
<1>1. ASSUME NEW t \in Takers, Process(t) PROVE Typed
  BY <1>1, <1>t DEF Process
<1>2. ASSUME NEW t \in Takers, CheckUsed(t) PROVE Typed
  BY <1>2, <1>t DEF CheckUsed
<1>3. ASSUME NEW t \in Takers, AddBuffer(t) PROVE Typed
  <2>1. KeepRef
    BY <1>3 DEF Places, AddBuffer
  <2>2. todo[t] \in 1..allocs /\ todo[t] - 1 \in 0..BufferCount
    BY <1>3, <1>t, <2>1 DEF Numbered, AddBuffer
  <2>3. [mem |-> allocs - todo[t] + 1, idx |-> NextIndex] \in Pooled
    BY <1>t, <2>2 DEF Pooled, Memory, NextIndex
  <2>4. free' \in Seq(Pooled)
    BY <1>3, <1>t, <2>3, AppendFree DEF AddBuffer
  <2>5. todo' \in [Takers -> 0..BufferCount]
    BY <1>3, <1>t, <2>2 DEF AddBuffer
  <2>6. QED BY <1>3, <1>t, <2>4, <2>5 DEF AddBuffer
<1>4. ASSUME NEW t \in Takers, TakeEnter(t) PROVE Typed
  BY <1>4, <1>t DEF TakeEnter
<1>5. ASSUME NEW t \in Takers, TakeLocked(t) PROVE Typed
  <2>1. CASE TakeFirst(t)
    <3>1. Tail(free) \in Seq(Pooled) /\ Head(free) \in Pooled
      BY <1>t, <2>1, TailFree DEF TakeFirst
    <3>2. used' \subseteq Pooled
      BY <1>t, <2>1, <3>1 DEF TakeFirst, Insert
    <3>3. QED BY <1>5, <1>t, <2>1, <3>1, <3>2 DEF TakeLocked, TakeFirst, Rest
  <2>2. CASE ~TakeFirst(t)
    BY <1>5, <1>t, <2>2 DEF TakeLocked
  <2>3. QED BY <2>1, <2>2
<1>6. ASSUME NEW t \in Takers, Send(t) PROVE Typed
  BY <1>6, <1>t DEF Send
<1>7. ASSUME NEW b \in out, Delete(b) PROVE Typed
  <2>1. wakes + 1 \in 0..Deleters
    BY <1>7, <1>t DEF Delete
  <2>2. CASE KeepRef
    <3>1. GiveIndex(b.idx)
      BY <1>7, <2>2 DEF Delete
    <3>2. free' \in Seq(Pooled) /\ used' \subseteq Pooled /\ wakes' \in 0..Deleters
      <4>1. CASE \E u \in used : u.idx = b.idx /\ Return(u) /\ used' = used \ {u}
        BY <1>t, <2>1, <4>1, AppendFree DEF Return
      <4>2. QED BY <1>t, <3>1, <4>1 DEF GiveIndex
    <3>3. QED BY <1>7, <1>t, <3>2 DEF Delete
  <2>3. CASE ~KeepRef
    <3>1. b \in Pooled /\ GiveBuffer(b)
      BY <1>7, <1>t, <2>3, SetupTyped DEF Delete, Places, Buffer, TypeOK
    <3>2. QED BY <1>7, <1>t, <2>1, <3>1, AppendFree DEF Delete, GiveBuffer, Return
  <2>4. QED BY <2>2, <2>3
<1>8. CASE GiveWake
  BY <1>8, <1>t DEF GiveWake, WakeAll
<1>9. CASE CallFinalize
  BY <1>9, <1>t DEF CallFinalize
<1>10. CASE FinalizeClear
  <2>1. <<>> \in Seq(Pooled) /\ {} \subseteq Pooled
    OBVIOUS
  <2>2. QED BY <1>10, <1>t, <2>1, Zenon DEF FinalizeClear
<1>11. CASE FinalizeWake
  BY <1>11, <1>t DEF FinalizeWake, WakeAll
<1>12. CASE UNCHANGED vars
  BY <1>12, <1>t DEF vars
<1>13. QED
  BY <1>1, <1>2, <1>3, <1>4, <1>5, <1>6, <1>7, <1>8, <1>9, <1>10, <1>11, <1>12
     DEF Next, Work, Downstream, Wake, Finalize

LEMMA NextPlaces == IInv /\ [Next]_vars => Places'
<1> SUFFICES ASSUME IInv, [Next]_vars PROVE Places'
  OBVIOUS
<1>0. setup' = setup /\ KeepRef' = KeepRef /\ Finalizes' = Finalizes
  BY SetupStays
<1>t. /\ free \in Seq(Pooled) /\ pc \in [Takers -> {"idle", "check", "fill", "take",
                                     "lock", "wait", "woken", "got"}]
      /\ buf \in [Takers -> Buffer] /\ (Finalizes => KeepRef)
  BY SetupTyped DEF IInv, TypeOK
<1>p. /\ \A t \in Takers : pc[t] # "idle" => t \in setup.takers
      /\ ~KeepRef => used = {} /\ \A t \in Takers : pc[t] \notin {"check", "fill"}
      /\ ~Finalizes => /\ ~finalized /\ cpc = "run" /\ ~stuck /\ Null \notin out
                       /\ \A t \in Takers : pc[t] = "got" => buf[t] # Null
  BY DEF IInv, Places
<1> USE DEF poolVars, GoTo
<1>1. ASSUME NEW t \in Takers, Process(t) PROVE Places'
  BY <1>0, <1>1, <1>t, <1>p DEF Process, Places
<1>2. ASSUME NEW t \in Takers, CheckUsed(t) PROVE Places'
  BY <1>0, <1>2, <1>t, <1>p DEF CheckUsed, Places
<1>3. ASSUME NEW t \in Takers, AddBuffer(t) PROVE Places'
  BY <1>0, <1>3, <1>t, <1>p DEF AddBuffer, Places
<1>4. ASSUME NEW t \in Takers, TakeEnter(t) PROVE Places'
  BY <1>0, <1>4, <1>t, <1>p DEF TakeEnter, Places
<1>5. ASSUME NEW t \in Takers, TakeLocked(t) PROVE Places'
  <2>1. CASE TakeFirst(t)
    <3>1. Head(free) # Null
      BY <1>t, <2>1, TailFree DEF TakeFirst, Pooled, Memory, Null
    <3>2. QED BY <1>0, <1>5, <1>t, <1>p, <2>1, <3>1 DEF TakeLocked, TakeFirst, Places
  <2>2. CASE ~TakeFirst(t)
    BY <1>0, <1>5, <1>t, <1>p, <2>2 DEF TakeLocked, Places
  <2>3. QED BY <2>1, <2>2
<1>6. ASSUME NEW t \in Takers, Send(t) PROVE Places'
  BY <1>0, <1>6, <1>t, <1>p DEF Send, Places
<1>7. ASSUME NEW b \in out, Delete(b) PROVE Places'
  BY <1>0, <1>7, <1>t, <1>p DEF Delete, GiveBuffer, Places
<1>8. CASE GiveWake
  BY <1>0, <1>8, <1>t, <1>p DEF GiveWake, WakeAll, Places
<1>9. CASE CallFinalize
  BY <1>0, <1>9, <1>t, <1>p DEF CallFinalize, Places
<1>10. CASE FinalizeClear
  BY <1>0, <1>10, <1>t, <1>p DEF FinalizeClear, Places
<1>11. CASE FinalizeWake
  BY <1>0, <1>11, <1>t, <1>p DEF FinalizeWake, WakeAll, Places
<1>12. CASE UNCHANGED vars
  BY <1>0, <1>12, <1>t, <1>p DEF vars, Places
<1>13. QED
  BY <1>1, <1>2, <1>3, <1>4, <1>5, <1>6, <1>7, <1>8, <1>9, <1>10, <1>11, <1>12
     DEF Next, Work, Downstream, Wake, Finalize

-----------------------------------------------------------------------------
(* Who has a buffer *)

\* Two takers never have the same buffer.
Owners == \A t, u \in Takers : pc[t] = "got" /\ pc[u] = "got" /\ buf[t].mem = buf[u].mem
                                  => t = u \/ buf[t] = Null

\* A step that moves no buffer: a taker that comes out of take() has none.
Quiet == /\ UNCHANGED <<setup, free, used, out>>
         /\ \A t \in Takers : pc[t] = "got" => pc'[t] = "got" /\ buf'[t] = buf[t]
         /\ \A t \in Takers : pc[t] # "got" /\ pc'[t] = "got" => buf'[t] = Null

\* The parts of Exclusive that are about the memory.
Apart ==
  /\ MemOnce(free)
  /\ \A b \in Entries(free), c \in Sent \cup Held : b.mem # c.mem
  /\ \A b \in Sent, c \in Held : b.mem # c.mem
  /\ \A b, c \in Sent : b.mem = c.mem => b = c
  /\ Owners

LEMMA ExclusiveParts == Exclusive <=> IndexUnique /\ (Emptied \/ Apart)
BY DEF Exclusive, Apart, MemOnce, Owners

LEMMA QuietKeeps == IInv /\ Quiet => Exclusive' /\ Accounted'
<1> SUFFICES ASSUME IInv, Quiet PROVE Exclusive' /\ Accounted'
  OBVIOUS
<1>1. Held' = Held
  BY DEF Held, Quiet
<1>2. /\ KeepRef' = KeepRef /\ BufferCount' = BufferCount /\ Emptied' = Emptied
      /\ Entries(free)' = Entries(free) /\ Sent' = Sent
  BY DEF KeepRef, BufferCount, Owned, Finalizes, Emptied, Quiet, Sent, Entries
<1>3. Accounted'
  BY <1>1, <1>2 DEF IInv, Accounted, Quiet
<1>4. IndexUnique'
  BY <1>2 DEF IInv, Exclusive, IndexUnique, Quiet
<1>5. Owners => Owners'
  <2>1. \A t \in Takers : buf[t] = Null \/ buf[t].mem # Null.mem
    BY DEF IInv, TypeOK, Buffer, Pooled, Memory, Null
  <2>2. QED BY <2>1 DEF Owners, Quiet
<1>6. Apart => Apart'
  BY <1>1, <1>2, <1>5 DEF Apart, MemOnce, Quiet
<1>7. (Exclusive <=> IndexUnique /\ (Emptied \/ Apart))'
  BY ExclusiveParts, PTL
<1>8. QED BY <1>2, <1>3, <1>4, <1>6, <1>7, ExclusiveParts DEF IInv

\* The pool's counts as numbers.
LEMMA Counts ==
  ASSUME TypeOK
  PROVE  /\ Len(free) \in Nat /\ allocs \in Nat
         /\ \A b \in Entries(free) \cup used : b \in Pooled /\ b.idx \in Nat /\ b.mem \in Nat \ {0}
         /\ IsFiniteSet(used) => Cardinality(used) \in Nat
         /\ \A b \in Sent : b \in Pooled /\ b.mem \in Nat
         /\ \A t \in Takers : todo[t] \in Nat
<1>1. free \in Seq(Pooled) /\ Len(free) \in Nat /\ used \subseteq Pooled /\ allocs \in Nat
  BY PoolAssumption DEF TypeOK, PoolAssumption
<1>2. \A b \in Entries(free) : b \in Pooled
  BY <1>1, ElementOfSeq DEF Entries
<1>3. \A b \in Pooled : b.idx \in Nat /\ b.mem \in Nat \ {0}
  BY PoolAssumption DEF Pooled, Memory, PoolAssumption
<1>4. \A b \in Sent : b \in Pooled
  BY DEF Sent, TypeOK, Buffer
<1>5. \A t \in Takers : todo[t] \in Nat
  BY SetupTyped DEF TypeOK
<1>6. QED BY <1>1, <1>2, <1>3, <1>4, <1>5, FS_CardinalityType

LEMMA AddKeeps ==
  ASSUME IInv, UNCHANGED setup, NEW t \in Takers, AddBuffer(t)
  PROVE  (Numbered /\ Two /\ Exclusive /\ Accounted)'
<1> DEFINE e == [mem |-> allocs - todo[t] + 1, idx |-> Len(free)]
<1>0. /\ KeepRef' = KeepRef /\ BufferCount' = BufferCount /\ Emptied' = Emptied
      /\ Finalizes' = Finalizes
  BY DEF KeepRef, BufferCount, Owned, Finalizes, Emptied
<1>1. /\ KeepRef /\ pc[t] = "fill" /\ used = {} /\ used' = {} /\ out' = out /\ buf' = buf
      /\ allocs' = allocs
      /\ todo[t] \in 1..allocs /\ (\A b \in Entries(free) : b.mem <= allocs - todo[t])
      /\ (\A b \in Entries(free) : b.idx < Len(free))
  <2>1. KeepRef /\ pc[t] = "fill"
    BY DEF IInv, Places, AddBuffer
  <2>2. used = {} /\ Cardinality(used) = 0
    BY <2>1, FS_EmptySet DEF IInv, Numbered
  <2>3. \A b \in Entries(free) : b.idx < Len(free)
    BY <2>1, <2>2, Counts DEF IInv, Numbered
  <2>4. QED BY <2>1, <2>2, <2>3 DEF IInv, Numbered, AddBuffer, poolVars
<1>2. /\ free' = Append(free, e) /\ free \in Seq(Pooled)
      /\ pc' = [pc EXCEPT ![t] = IF todo[t] = 1 THEN "take" ELSE "fill"]
      /\ todo' = [todo EXCEPT ![t] = todo[t] - 1]
      /\ pc \in [Takers -> {"idle", "check", "fill", "take", "lock", "wait", "woken", "got"}]
      /\ todo \in [Takers -> 0..BufferCount]
  BY DEF AddBuffer, NextIndex, LastAdded, GoTo, IInv, TypeOK
<1>3. e \in Pooled /\ e.idx = Len(free) /\ e.mem = allocs - todo[t] + 1
  BY <1>1, PoolAssumption DEF Pooled, Memory, IInv, TypeOK, PoolAssumption
<1>4. \A u \in Takers : pc'[u] = "fill" => u = t
  <2>1. \A u \in Takers : pc'[u] = "fill" => u \in setup.takers /\ t \in setup.takers
    BY <1>1, <1>2 DEF IInv, Places
  <2>2. QED BY <1>1, <2>1, SetupTyped DEF IInv, TypeOK
<1> HIDE DEF e
<1>5. \A b \in Entries(free) : b.idx \in Nat /\ b.mem \in Nat
  BY Counts DEF IInv
<1>6. Len(free) \in Nat /\ allocs \in Nat /\ todo[t] \in Nat /\ Cardinality({}) = 0 /\ IsFiniteSet({})
  BY Counts, FS_EmptySet DEF IInv
<1>7. /\ Len(free') = Len(free) + 1 /\ Entries(free') = Entries(free) \cup {e}
  BY <1>2, <1>3, AppendFree
<1>8. IdxOnce(free')
  <2>1. IdxOnce(free)
    BY <1>1 DEF IInv, Exclusive, IndexUnique, IdxOnce
  <2>2. \A b \in Entries(free) : b.idx # e.idx
    BY <1>1, <1>3, <1>5, <1>6
  <2>3. QED BY <1>2, <1>3, <2>1, <2>2, AppendFree
<1>9. Numbered'
  <2>1. \A b \in Entries(free') \cup used' : b.idx < Len(free') + Cardinality(used') /\ b.mem <= allocs'
    BY <1>1, <1>3, <1>5, <1>6, <1>7
  <2>2. ASSUME NEW u \in Takers, pc'[u] = "fill"
        PROVE  /\ used' = {} /\ todo'[u] \in 1..allocs'
               /\ \A b \in Entries(free') : b.mem <= allocs' - todo'[u]
    <3>1. u = t /\ todo[t] # 1 /\ todo'[u] = todo[t] - 1
      BY <1>2, <1>4, <2>2
    <3>2. QED BY <1>1, <1>3, <1>5, <1>6, <1>7, <3>1
  <2>3. Entries(free)' = Entries(free')
    BY DEF Entries
  <2>4. QED BY <1>1, <1>6, <2>1, <2>2, <2>3 DEF Numbered
<1>10. Two'
  <2>1. ASSUME Finalizes, ~Emptied PROVE Len(free) + todo[t] > 1
    BY <1>1, <2>1 DEF IInv, Two
  <2>2. CASE todo[t] = 1
    BY <1>0, <1>1, <1>2, <1>4, <1>6, <1>7, <2>1, <2>2 DEF Two
  <2>3. CASE todo[t] # 1
    BY <1>0, <1>1, <1>2, <1>4, <1>6, <1>7, <2>1, <2>3 DEF Two
  <2>4. QED BY <2>2, <2>3
<1>11. Held' = Held /\ Sent' = Sent
  BY <1>1, <1>2 DEF Held, Sent
<1>12. Accounted'
  BY <1>0, <1>1, <1>11 DEF IInv, Accounted
<1>13. IndexUnique'
  BY <1>1, <1>8 DEF IndexUnique, IdxOnce
<1>14. ASSUME ~Emptied PROVE Apart'
  <2>1. Sent = {} /\ Held = {}
    BY <1>1, <1>14 DEF IInv, Accounted
  <2>2. MemOnce(free')
    <3>1. MemOnce(free)
      BY <1>14, ExclusiveParts DEF IInv, Apart
    <3>2. \A b \in Entries(free) : b.mem # e.mem
      BY <1>1, <1>3, <1>5, <1>6
    <3>3. QED BY <1>2, <1>3, <3>1, <3>2, AppendFree
  <2>3. Owners'
    <3>1. Owners
      BY <1>14, ExclusiveParts DEF IInv, Apart
    <3>2. QED BY <1>1, <1>2, <3>1 DEF Owners
  <2>4. MemOnce(free)'
    BY <2>2 DEF MemOnce
  <2>5. QED BY <1>11, <2>1, <2>3, <2>4 DEF Apart
<1>15. (Exclusive <=> IndexUnique /\ (Emptied \/ Apart))'
  BY ExclusiveParts, PTL
<1>16. QED BY <1>0, <1>9, <1>10, <1>12, <1>13, <1>14, <1>15

LEMMA TakeKeeps ==
  ASSUME IInv, UNCHANGED setup, NEW t \in Takers, TakeLocked(t), TakeFirst(t)
  PROVE  (Numbered /\ Two /\ Exclusive /\ Accounted)'
<1> DEFINE b == Head(free)
<1> DEFINE rest == Tail(free)
<1>0. /\ KeepRef' = KeepRef /\ BufferCount' = BufferCount /\ Emptied' = Emptied
      /\ Finalizes' = Finalizes
  BY DEF KeepRef, BufferCount, Owned, Finalizes, Emptied
<1>1. /\ free \in Seq(Pooled) /\ free # <<>> /\ free' = rest /\ out' = out
      /\ pc[t] \in {"lock", "woken"}
      /\ pc' = [pc EXCEPT ![t] = "got"] /\ buf' = [buf EXCEPT ![t] = b]
      /\ pc \in [Takers -> {"idle", "check", "fill", "take", "lock", "wait", "woken", "got"}]
      /\ buf \in [Takers -> Buffer] /\ allocs' = allocs /\ todo' = todo
  BY DEF TakeLocked, TakeFirst, Rest, GoTo, IInv, TypeOK
<1>2. /\ rest \in Seq(Pooled) /\ Len(rest) = Len(free) - 1 /\ b \in Pooled
      /\ Entries(free) = Entries(rest) \cup {b}
      /\ IdxOnce(free) => IdxOnce(rest) /\ \A c \in Entries(rest) : c.idx # b.idx
      /\ MemOnce(free) => MemOnce(rest) /\ \A c \in Entries(rest) : c.mem # b.mem
  BY <1>1, TailFree
<1>3. /\ used' = IF KeepRef THEN Insert(b) ELSE used
  BY DEF TakeFirst
<1> HIDE DEF b, rest
<1>4. b # Null
  BY <1>2 DEF Pooled, Memory, Null
<1>5. Held' = Held \cup {b} /\ Sent' = Sent
  BY <1>1, <1>4 DEF Held, Sent
<1>6. KeepRef => /\ IndexUnique /\ IdxOnce(free) /\ b \notin used
                 /\ used' = used \cup {b}
                 /\ \A u \in used : u.idx # b.idx
                 /\ \A u \in Takers : pc[u] # "fill" /\ pc'[u] # "fill"
  <2> SUFFICES ASSUME KeepRef
               PROVE  /\ IndexUnique /\ IdxOnce(free) /\ b \notin used
                      /\ used' = used \cup {b} /\ \A u \in used : u.idx # b.idx
                      /\ \A u \in Takers : pc[u] # "fill" /\ pc'[u] # "fill"
    OBVIOUS
  <2>1. IndexUnique
    BY DEF IInv, Exclusive
  <2>2. IdxOnce(free)
    BY <2>1 DEF IndexUnique, IdxOnce
  <2>3. \A u \in used : b.idx # u.idx
    BY <2>1, <1>2 DEF IndexUnique
  <2>4. used' = used \cup {b}
    BY <1>3, <2>3 DEF Insert
  <2>5. ASSUME NEW u \in Takers, pc[u] = "fill" PROVE FALSE
    <3>1. u \in setup.takers /\ t \in setup.takers
      BY <1>1, <2>5 DEF IInv, Places
    <3>2. u = t
      BY <3>1, SetupTyped DEF IInv, TypeOK
    <3>3. QED BY <1>1, <2>5, <3>2
  <2>6. QED BY <1>1, <2>1, <2>2, <2>3, <2>4, <2>5
<1>7. /\ Len(free) \in Nat /\ allocs \in Nat
      /\ \A c \in Entries(free) \cup used : c.idx \in Nat /\ c.mem \in Nat
  BY Counts DEF IInv
<1>8. KeepRef => /\ IsFiniteSet(used) /\ Cardinality(used) \in Nat
                 /\ IsFiniteSet(used') /\ Cardinality(used') = Cardinality(used) + 1
  BY <1>6, FS_AddElement, FS_CardinalityType DEF IInv, Numbered
<1>9. Entries(free)' = Entries(rest)
  BY <1>1 DEF Entries
<1>10. Numbered'
  <2> SUFFICES ASSUME KeepRef PROVE Numbered'
    BY <1>0 DEF Numbered
  <2>1. ASSUME NEW c \in Entries(rest) \cup used'
        PROVE  c.idx < Len(rest) + Cardinality(used') /\ c.mem <= allocs'
    <3>1. c \in Entries(free) \cup used
      BY <1>2, <1>6
    <3>2. c.idx < Len(free) + Cardinality(used) /\ c.mem <= allocs
      BY <3>1 DEF IInv, Numbered
    <3>3. QED BY <1>1, <1>2, <1>7, <1>8, <3>1, <3>2
  <2>2. QED BY <1>1, <1>6, <1>8, <1>9, <2>1 DEF Numbered
<1>11. Two'
  <2> SUFFICES ASSUME Finalizes, ~Emptied PROVE Two'
    BY <1>0 DEF Two
  <2>1. KeepRef
    BY SetupTyped DEF IInv, TypeOK
  <2>2. Len(free) + Cardinality(used) > 1
    BY <1>1, <1>6, <2>1 DEF IInv, Two
  <2>3. Len(free') + Cardinality(used') > 1
    BY <1>1, <1>2, <1>7, <1>8, <2>1, <2>2
  <2>4. QED BY <1>6, <2>1, <2>3 DEF Two
<1>12. IndexUnique'
  <2> SUFFICES ASSUME KeepRef PROVE IndexUnique'
    BY <1>0 DEF IndexUnique
  <2>1. IdxOnce(rest)
    BY <1>2, <1>6
  <2>2. \A c \in Entries(rest), u \in used' : c.idx # u.idx
    BY <1>2, <1>6 DEF IndexUnique
  <2>3. \A u, v \in used' : u.idx = v.idx => u = v
    BY <1>6 DEF IndexUnique
  <2>4. QED BY <1>1, <1>9, <2>1, <2>2, <2>3 DEF IndexUnique, IdxOnce
<1>13. ASSUME ~Emptied PROVE Apart' /\ Accounted'
  <2>1. Apart
    BY <1>13, ExclusiveParts DEF IInv
  <2>2. MemOnce(rest) /\ (\A c \in Entries(rest) : c.mem # b.mem)
        /\ (\A c \in Sent \cup Held : b.mem # c.mem)
    BY <1>2, <2>1 DEF Apart
  <2>3. MemOnce(free)'
    BY <1>1, <2>2 DEF MemOnce
  <2>4. \A c \in Entries(rest), d \in Sent \cup Held' : c.mem # d.mem
    BY <1>2, <1>5, <2>1, <2>2 DEF Apart
  <2>5. \A c \in Sent, d \in Held' : c.mem # d.mem
    BY <1>5, <2>1, <2>2 DEF Apart
  <2>6. Owners'
    <3>1. ASSUME NEW u \in Takers, u # t, pc[u] = "got" PROVE buf[u].mem # b.mem
      <4>1. CASE buf[u] = Null
        BY <1>2, <4>1 DEF Null, Pooled, Memory
      <4>2. CASE buf[u] # Null
        <5>1. buf[u] \in Held
          BY <3>1, <4>2 DEF Held
        <5>2. QED BY <2>2, <5>1
      <4>3. QED BY <4>1, <4>2
    <3>2. \A u \in Takers : u # t => pc'[u] = pc[u] /\ buf'[u] = buf[u]
      BY <1>1
    <3>3. pc'[t] = "got" /\ buf'[t] = b
      BY <1>1
    <3>4. ASSUME NEW u \in Takers, NEW v \in Takers,
                 pc'[u] = "got", pc'[v] = "got", buf'[u].mem = buf'[v].mem
          PROVE  u = v \/ buf'[u] = Null
      <4>1. CASE u # t /\ v # t
        BY <2>1, <3>2, <3>4, <4>1 DEF Apart, Owners
      <4>2. CASE u = t /\ v # t
        BY <3>1, <3>2, <3>3, <3>4, <4>2
      <4>3. CASE u # t /\ v = t
        BY <3>1, <3>2, <3>3, <3>4, <4>3
      <4>4. QED BY <4>1, <4>2, <4>3
    <3>5. QED BY <3>4 DEF Owners
  <2>7. Apart'
    <3>1. \A c, d \in Sent : c.mem = d.mem => c = d
      BY <2>1 DEF Apart
    <3>2. QED BY <1>5, <1>9, <2>3, <2>4, <2>5, <2>6, <3>1 DEF Apart
  <2>8. Accounted'
    <3>1. CASE KeepRef
      BY <1>0, <1>5, <1>6, <1>13, <3>1 DEF IInv, Accounted
    <3>2. CASE ~KeepRef
      <4>1. (Entries(free) \cup Sent \cup Held)' = Entries(free) \cup Sent \cup Held
        BY <1>2, <1>5, <1>9
      <4>2. QED BY <1>0, <1>13, <3>2, <4>1 DEF IInv, Accounted
    <3>3. QED BY <3>1, <3>2
  <2>9. QED BY <2>7, <2>8
<1>14. (Exclusive <=> IndexUnique /\ (Emptied \/ Apart))'
  BY ExclusiveParts, PTL
<1>15. Emptied => Accounted'
  BY <1>0 DEF Accounted
<1>16. QED BY <1>0, <1>10, <1>11, <1>12, <1>13, <1>14, <1>15

LEMMA SendKeeps ==
  ASSUME IInv, UNCHANGED setup, NEW t \in Takers, Send(t)
  PROVE  Exclusive' /\ Accounted'
<1> DEFINE b == buf[t]
<1>0. /\ KeepRef' = KeepRef /\ BufferCount' = BufferCount /\ Emptied' = Emptied
  BY DEF KeepRef, BufferCount, Owned, Finalizes, Emptied
<1>1. /\ free' = free /\ used' = used /\ pc[t] = "got" /\ out' = out \cup {b}
      /\ pc' = [pc EXCEPT ![t] = "idle"] /\ buf' = [buf EXCEPT ![t] = Null]
      /\ pc \in [Takers -> {"idle", "check", "fill", "take", "lock", "wait", "woken", "got"}]
      /\ buf \in [Takers -> Buffer]
  BY DEF Send, GoTo, poolVars, IInv, TypeOK
<1>2. IndexUnique'
  BY <1>0, <1>1 DEF IInv, Exclusive, IndexUnique, Entries
<1>3. Entries(free)' = Entries(free)
  BY <1>1 DEF Entries
<1>4. ASSUME ~Emptied PROVE Apart' /\ Accounted'
  <2>1. Apart
    BY <1>4, ExclusiveParts DEF IInv
  <2>2. \A u \in Takers : u # t => pc'[u] = pc[u] /\ buf'[u] = buf[u]
    BY <1>1
  <2>3. pc'[t] # "got"
    BY <1>1
  <2>4. b # Null => b \in Held
    BY <1>1 DEF Held
  <2>5. Held' = Held \ {b}
    <3>1. ASSUME NEW u \in Takers, pc'[u] = "got", buf'[u] # Null
          PROVE  buf'[u] \in Held /\ buf'[u] # b
      <4>1. u # t /\ pc[u] = "got" /\ buf'[u] = buf[u]
        BY <2>2, <2>3, <3>1
      <4>2. QED BY <1>1, <2>1, <3>1, <4>1 DEF Held, Apart, Owners
    <3>2. ASSUME NEW u \in Takers, pc[u] = "got", buf[u] # b
          PROVE  pc'[u] = "got" /\ buf'[u] = buf[u]
      BY <1>1, <2>2, <3>2
    <3>3. QED BY <3>1, <3>2, <2>4 DEF Held
  <2>6. Sent' = Sent \cup ({b} \ {Null})
    BY <1>1 DEF Sent
  <2>7. Sent' \cup Held' = Sent \cup Held
    <3>1. Null \notin Held
      BY DEF Held
    <3>2. QED BY <2>4, <2>5, <2>6, <3>1
  <2>8. \A c \in Sent', d \in Held' : c.mem # d.mem
    <3>1. ASSUME b # Null, NEW d \in Held, d # b PROVE b.mem # d.mem
      <4>1. PICK u \in Takers : pc[u] = "got" /\ d = buf[u]
        BY <3>1 DEF Held
      <4>2. QED BY <1>1, <2>1, <3>1, <4>1 DEF Apart, Owners
    <3>2. QED BY <2>1, <2>5, <2>6, <3>1 DEF Apart
  <2>9. \A c, d \in Sent' : c.mem = d.mem => c = d
    <3>1. b # Null => \A c \in Sent : c.mem # b.mem
      BY <2>1, <2>4 DEF Apart
    <3>2. QED BY <2>1, <2>6, <3>1 DEF Apart
  <2>10. MemOnce(free)'
    BY <1>1, <2>1 DEF Apart, MemOnce
  <2>11. Owners'
    BY <2>1, <2>2, <2>3 DEF Apart, Owners
  <2>12. Apart'
    <3>1. \A c \in Entries(free), d \in Sent \cup Held : c.mem # d.mem
      BY <2>1 DEF Apart
    <3>2. QED BY <1>3, <2>7, <2>8, <2>9, <2>10, <2>11, <3>1 DEF Apart
  <2>13. Accounted'
    <3>1. CASE KeepRef
      BY <1>0, <1>1, <1>4, <2>7, <3>1 DEF IInv, Accounted
    <3>2. CASE ~KeepRef
      <4>1. (Entries(free) \cup Sent \cup Held)' = Entries(free) \cup Sent \cup Held
        BY <1>3, <2>7
      <4>2. QED BY <1>0, <1>4, <3>2, <4>1 DEF IInv, Accounted
    <3>3. QED BY <3>1, <3>2
  <2>14. QED BY <2>12, <2>13
<1>5. (Exclusive <=> IndexUnique /\ (Emptied \/ Apart))'
  BY ExclusiveParts, PTL
<1>6. Emptied => Accounted'
  BY <1>0 DEF Accounted
<1>7. QED BY <1>0, <1>2, <1>4, <1>5, <1>6

\* give(int) gives back the buffer that has the index.
LEMMA GiveIndexKeeps ==
  ASSUME IInv, UNCHANGED setup, KeepRef, NEW b \in out, Delete(b),
         NEW g \in used, g.idx = b.idx, free' = Append(free, g), used' = used \ {g}
  PROVE  (Numbered /\ Two /\ Exclusive /\ Accounted)'
<1>0. /\ KeepRef' = KeepRef /\ BufferCount' = BufferCount /\ Emptied' = Emptied
      /\ Finalizes' = Finalizes
  BY DEF KeepRef, BufferCount, Owned, Finalizes, Emptied
<1>1. /\ free \in Seq(Pooled) /\ g \in Pooled /\ b # Null
      /\ pc' = pc /\ buf' = buf /\ out' = out \ {b} /\ allocs' = allocs /\ todo' = todo
      /\ \A u \in Takers : pc[u] # "fill"
  <2>1. g \in Pooled /\ free \in Seq(Pooled)
    BY DEF IInv, TypeOK
  <2>2. b # Null
    BY <2>1 DEF Pooled, Null
  <2>3. QED BY <2>1, <2>2 DEF Delete, IInv, Numbered
<1>2. /\ Len(free') = Len(free) + 1 /\ Entries(free)' = Entries(free) \cup {g}
  <2>1. Entries(Append(free, g)) = Entries(free) \cup {g}
    BY <1>1, AppendFree
  <2>2. QED BY <1>1, <2>1, AppendFree DEF Entries
<1>3. IndexUnique
  BY DEF IInv, Exclusive
<1>4. IndexUnique'
  <2>1. \A c \in Entries(free) : c.idx # g.idx
    BY <1>3 DEF IndexUnique
  <2>2. IdxOnce(free)
    BY <1>3 DEF IndexUnique, IdxOnce
  <2>3. IdxOnce(free')
    BY <1>1, <2>1, <2>2, AppendFree
  <2>4. \A c \in Entries(free) \cup {g}, u \in used \ {g} : c.idx # u.idx
    BY <1>3 DEF IndexUnique
  <2>5. QED BY <1>2, <1>3, <2>3, <2>4 DEF IndexUnique, IdxOnce
<1>5. /\ Len(free) \in Nat /\ IsFiniteSet(used) /\ Cardinality(used) \in Nat
      /\ IsFiniteSet(used') /\ Cardinality(used') = Cardinality(used) - 1
  BY Counts, FS_RemoveElement DEF IInv, Numbered
<1>6. Len(free') + Cardinality(used') = Len(free) + Cardinality(used)
  BY <1>2, <1>5
<1>7. Numbered'
  <2>1. \A c \in Entries(free)' \cup used' :
          c.idx < Len(free') + Cardinality(used') /\ c.mem <= allocs'
    BY <1>1, <1>2, <1>6 DEF IInv, Numbered
  <2>2. QED BY <1>1, <1>5, <2>1 DEF Numbered
<1>8. Two'
  <2> SUFFICES ASSUME Finalizes, ~Emptied PROVE Two'
    BY <1>0 DEF Two
  <2>1. Len(free) + Cardinality(used) > 1
    BY <1>1 DEF IInv, Two
  <2>2. QED BY <1>1, <1>6, <2>1 DEF Two
<1>9. ASSUME ~Emptied PROVE Apart' /\ Accounted'
  <2>1. Apart /\ used = Sent \cup Held
    BY <1>9, ExclusiveParts DEF IInv, Accounted
  <2>2. g = b /\ b \in Sent /\ b \notin Held
    <3>1. b \in Sent
      BY <1>1 DEF Sent
    <3>2. b \in used
      BY <2>1, <3>1
    <3>3. g = b
      BY <1>3, <3>2 DEF IndexUnique
    <3>4. b \notin Held
      BY <2>1, <3>1 DEF Apart
    <3>5. QED BY <3>1, <3>3, <3>4
  <2>3. Sent' = Sent \ {b} /\ Held' = Held
    BY <1>1 DEF Sent, Held
  <2>4. Accounted'
    BY <1>0, <1>9, <2>1, <2>2, <2>3 DEF Accounted
  <2>5. MemOnce(free)'
    <3>1. MemOnce(free) /\ \A c \in Entries(free) : c.mem # g.mem
      BY <2>1, <2>2 DEF Apart
    <3>2. MemOnce(free')
      BY <1>1, <3>1, AppendFree
    <3>3. QED BY <3>2 DEF MemOnce
  <2>6. Owners'
    BY <1>1, <2>1 DEF Apart, Owners
  <2>7. \A c \in Entries(free)', d \in Sent' \cup Held : c.mem # d.mem
    BY <1>2, <2>1, <2>2, <2>3 DEF Apart
  <2>8. QED BY <2>1, <2>3, <2>4, <2>5, <2>6, <2>7 DEF Apart
<1>10. (Exclusive <=> IndexUnique /\ (Emptied \/ Apart))'
  BY ExclusiveParts, PTL
<1>11. Emptied => Accounted'
  BY <1>0 DEF Accounted
<1>12. QED BY <1>0, <1>4, <1>7, <1>8, <1>9, <1>10, <1>11

LEMMA GiveBufferKeeps ==
  ASSUME IInv, UNCHANGED setup, ~KeepRef, NEW b \in out, Delete(b)
  PROVE  (Numbered /\ Two /\ Exclusive /\ Accounted)'
<1>0. /\ KeepRef' = KeepRef /\ BufferCount' = BufferCount /\ Emptied' = Emptied
      /\ Finalizes' = Finalizes /\ ~Finalizes /\ ~Emptied
  BY SetupTyped DEF KeepRef, BufferCount, Owned, Finalizes, Emptied, IInv, TypeOK
<1>1. /\ free \in Seq(Pooled) /\ b \in Pooled /\ b # Null /\ free' = Append(free, b)
      /\ pc' = pc /\ buf' = buf /\ out' = out \ {b}
  BY <1>0 DEF Delete, GiveBuffer, Return, IInv, TypeOK, Places, Buffer
<1>2. Numbered' /\ Two' /\ IndexUnique'
  BY <1>0 DEF Numbered, Two, IndexUnique
<1>3. Entries(free)' = Entries(free) \cup {b}
  <2>1. Entries(Append(free, b)) = Entries(free) \cup {b}
    BY <1>1, AppendFree
  <2>2. QED BY <1>1, <2>1 DEF Entries
<1>4. Apart /\ {c.mem : c \in Entries(free) \cup Sent \cup Held} = 1..BufferCount
  BY <1>0, ExclusiveParts DEF IInv, Accounted
<1>5. b \in Sent /\ b \notin Held /\ Sent' = Sent \ {b} /\ Held' = Held
  BY <1>1, <1>4 DEF Sent, Held, Apart
<1>6. Accounted'
  <2>1. (Entries(free) \cup Sent \cup Held)' = Entries(free) \cup Sent \cup Held
    BY <1>3, <1>5
  <2>2. QED BY <1>0, <1>4, <2>1 DEF Accounted
<1>7. Apart'
  <2>1. MemOnce(free)'
    <3>1. MemOnce(free) /\ \A c \in Entries(free) : c.mem # b.mem
      BY <1>4, <1>5 DEF Apart
    <3>2. MemOnce(free')
      BY <1>1, <3>1, AppendFree
    <3>3. QED BY <3>2 DEF MemOnce
  <2>2. Owners'
    BY <1>1, <1>4 DEF Apart, Owners
  <2>3. \A c \in Entries(free)', d \in Sent' \cup Held : c.mem # d.mem
    BY <1>3, <1>4, <1>5 DEF Apart
  <2>4. QED BY <1>4, <1>5, <2>1, <2>2, <2>3 DEF Apart
<1>8. (Exclusive <=> IndexUnique /\ (Emptied \/ Apart))'
  BY ExclusiveParts, PTL
<1>9. QED BY <1>0, <1>2, <1>6, <1>7, <1>8

\* An index that is not in use, or an empty buffer: only the output buffer goes.
LEMMA RefusedKeeps ==
  ASSUME IInv, UNCHANGED setup, KeepRef, NEW b \in out, Delete(b),
         \A u \in used : u.idx # b.idx
  PROVE  (Numbered /\ Two /\ Exclusive /\ Accounted)'
<1>0. /\ KeepRef' = KeepRef /\ BufferCount' = BufferCount /\ Emptied' = Emptied
      /\ Finalizes' = Finalizes
  BY DEF KeepRef, BufferCount, Owned, Finalizes, Emptied
<1>1. /\ free' = free /\ used' = used /\ pc' = pc /\ buf' = buf /\ out' = out \ {b}
      /\ allocs' = allocs /\ todo' = todo
  BY DEF Delete, GiveIndex
<1>2. Numbered' /\ Two' /\ IndexUnique'
  BY <1>0, <1>1 DEF IInv, Exclusive, Numbered, Two, IndexUnique, Entries
<1>3. ASSUME ~Emptied PROVE Apart' /\ Accounted'
  <2>1. Apart /\ used = Sent \cup Held
    BY <1>3, ExclusiveParts DEF IInv, Accounted
  <2>2. b = Null
    BY <2>1 DEF Sent
  <2>3. Sent' = Sent /\ Held' = Held /\ Entries(free)' = Entries(free)
    BY <1>1, <2>2 DEF Sent, Held, Entries
  <2>4. Accounted'
    BY <1>0, <1>1, <2>1, <2>3 DEF Accounted
  <2>5. Owners' /\ MemOnce(free)'
    BY <1>1, <2>1 DEF Apart, Owners, MemOnce
  <2>6. QED BY <2>1, <2>3, <2>4, <2>5 DEF Apart
<1>4. (Exclusive <=> IndexUnique /\ (Emptied \/ Apart))'
  BY ExclusiveParts, PTL
<1>5. Emptied => Accounted'
  BY <1>0 DEF Accounted
<1>6. QED BY <1>0, <1>2, <1>3, <1>4, <1>5

\* finalize() empties the pool of a decoder only when there was nothing in it.
LEMMA ClearKeeps ==
  ASSUME IInv, UNCHANGED setup, FinalizeClear, ~DeletesOwned
  PROVE  (Numbered /\ Two /\ Exclusive /\ Accounted)'
<1>0. /\ KeepRef' = KeepRef /\ BufferCount' = BufferCount /\ Emptied' = Emptied
      /\ Finalizes' = Finalizes
  BY DEF KeepRef, BufferCount, Owned, Finalizes, Emptied
<1>1. /\ free' = <<>> /\ used' = {} /\ out' = out /\ pc' = pc /\ buf' = buf
      /\ todo' = todo /\ allocs' = allocs /\ free \in Seq(Pooled)
  BY DEF FinalizeClear, IInv, TypeOK
<1>2. Finalizes /\ KeepRef
  BY SetupTyped DEF FinalizeClear, IInv, Places, TypeOK
<1>3. Entries(free)' = {} /\ Len(free') = 0
  BY <1>1 DEF Entries
<1>4. Cardinality({}) = 0 /\ IsFiniteSet({})
  BY FS_EmptySet
<1>5. Numbered'
  BY <1>0, <1>1, <1>2, <1>3, <1>4 DEF IInv, Numbered
<1>6. IndexUnique'
  BY <1>1, <1>3 DEF IndexUnique
<1>7. ASSUME ~Emptied PROVE free = <<>> /\ used = {}
  <2>1. /\ Entries(free) \cup used \subseteq Held
        /\ Apart /\ IndexUnique /\ Two
    BY <1>7, <1>2, ExclusiveParts DEF DeletesOwned, Emptied, IInv
  <2>2. \A x, y \in Held : x = y
    BY <1>2, SetupTyped DEF Held, IInv, Places, TypeOK
  <2>3. Entries(free) = {}
    <3>1. ASSUME NEW x \in Entries(free) PROVE FALSE
      <4>1. x \in Held
        BY <2>1, <3>1
      <4>2. QED BY <2>1, <4>1 DEF Apart
    <3>2. QED BY <3>1
  <2>4. Len(free) = 0
    <3>1. Len(free) \in Nat
      BY <1>1
    <3>2. Len(free) > 0 => free[1] \in Entries(free)
      BY <3>1 DEF Entries
    <3>3. QED BY <2>3, <3>1, <3>2
  <2>5. free = <<>>
    BY <1>1, <2>4
  <2>6. used = {}
    <3>1. ASSUME used # {} PROVE FALSE
      <4>1. PICK x : x \in used
        BY <3>1
      <4>2. used = {x}
        BY <2>1, <2>2, <4>1
      <4>3. Cardinality(used) = 1
        BY <4>2, FS_Singleton
      <4>4. \E t \in Takers : pc[t] = "fill"
        BY <1>2, <1>7, <2>1, <2>4, <3>1, <4>3 DEF Two
      <4>5. QED BY <1>2, <3>1, <4>4 DEF IInv, Numbered
    <3>2. QED BY <3>1
  <2>7. QED BY <2>5, <2>6
<1>8. ASSUME ~Emptied PROVE Two' /\ Apart' /\ Accounted'
  <2>1. Apart /\ used = Sent \cup Held
    BY <1>2, <1>8, ExclusiveParts DEF IInv, Accounted
  <2>2. Sent' = Sent /\ Held' = Held
    BY <1>1 DEF Sent, Held
  <2>3. Accounted'
    <3>1. used' = Sent' \cup Held' /\ KeepRef'
      BY <1>0, <1>1, <1>2, <1>7, <1>8, <2>1, <2>2
    <3>2. QED BY <3>1 DEF Accounted
  <2>4. Owners' /\ MemOnce(free)'
    <3>1. Owners'
      <4>1. pc' = pc /\ buf' = buf
        BY <1>1
      <4>2. Owners
        BY <2>1 DEF Apart
      <4>3. QED BY <4>1, <4>2 DEF Owners
    <3>2. MemOnce(free')
      BY <1>3 DEF MemOnce
    <3>3. MemOnce(free)'
      BY <3>2 DEF MemOnce
    <3>4. QED BY <3>1, <3>3
  <2>5. Apart'
    BY <1>3, <2>1, <2>2, <2>4 DEF Apart
  <2>6. Two'
    BY <1>0, <1>1, <1>7, <1>8 DEF IInv, Two
  <2>7. QED BY <2>3, <2>5, <2>6
<1>9. (Exclusive <=> IndexUnique /\ (Emptied \/ Apart))'
  BY ExclusiveParts, PTL
<1>10. Emptied => Accounted' /\ Two'
  BY <1>0 DEF Accounted, Two
<1>11. QED BY <1>0, <1>5, <1>6, <1>8, <1>9, <1>10

-----------------------------------------------------------------------------
(* The theorems *)

\* A quiet step that starts or ends no filling.
LEMMA QuietNumbers ==
  ASSUME IInv, Quiet, UNCHANGED <<allocs, todo>>,
         \A t \in Takers : pc'[t] = "fill" <=> pc[t] = "fill"
  PROVE  Numbered' /\ Two'
<1>1. /\ KeepRef' = KeepRef /\ Finalizes' = Finalizes /\ Emptied' = Emptied
      /\ Entries(free)' = Entries(free)
  BY DEF KeepRef, BufferCount, Owned, Finalizes, Emptied, Quiet, Entries
<1>2. Numbered'
  BY <1>1 DEF IInv, Numbered, Quiet
<1>3. Two'
  BY <1>1 DEF IInv, Two, Quiet
<1>4. QED BY <1>2, <1>3

LEMMA CheckKeeps ==
  ASSUME IInv, UNCHANGED setup, NEW t \in Takers, CheckUsed(t)
  PROVE  (Numbered /\ Two /\ Exclusive /\ Accounted)'
<1>1. /\ KeepRef' = KeepRef /\ Finalizes' = Finalizes /\ Emptied' = Emptied
      /\ BufferCount' = BufferCount
      /\ BufferCount \in Nat \ {0} /\ (Finalizes => KeepRef)
  BY SetupTyped DEF KeepRef, BufferCount, Owned, Finalizes, Emptied, IInv, TypeOK
<1>2. /\ free' = free /\ used' = used /\ out' = out /\ buf' = buf
      /\ pc' = [pc EXCEPT ![t] = IF used = {} THEN "fill" ELSE "take"]
      /\ todo' = [todo EXCEPT ![t] = IF used = {} THEN BufferCount ELSE 0]
      /\ allocs' = (IF used = {} THEN allocs + BufferCount ELSE allocs)
      /\ pc[t] = "check"
      /\ pc \in [Takers -> {"idle", "check", "fill", "take", "lock", "wait", "woken", "got"}]
      /\ todo \in [Takers -> 0..BufferCount]
  BY DEF CheckUsed, GoTo, poolVars, IInv, TypeOK
<1>3. Exclusive' /\ Accounted'
  <2>1. Quiet
    BY <1>2 DEF Quiet
  <2>2. QED BY <2>1, QuietKeeps
<1>4. KeepRef
  BY <1>2 DEF IInv, Places
<1>5. \A u \in Takers : pc[u] # "fill" /\ (pc'[u] = "fill" => u = t)
  <2>1. \A u \in Takers : pc[u] # "idle" => u = t
    BY <1>2, <1>4, SetupTyped DEF IInv, Places, TypeOK
  <2>2. QED BY <1>2, <2>1
<1>6. /\ Len(free) \in Nat /\ allocs \in Nat /\ Entries(free)' = Entries(free)
      /\ \A b \in Entries(free) \cup used : b.mem \in Nat
  BY <1>2, Counts DEF IInv, Entries
<1>7. Numbered'
  <2>1. \A b \in Entries(free) \cup used :
          b.idx < Len(free) + Cardinality(used) /\ b.mem <= allocs
    BY <1>4 DEF IInv, Numbered
  <2>2. \A b \in Entries(free) \cup used : b.mem <= allocs'
    BY <1>1, <1>2, <1>6, <2>1
  <2>3. ASSUME NEW u \in Takers, pc'[u] = "fill"
        PROVE  /\ used = {} /\ todo'[u] \in 1..allocs'
               /\ \A b \in Entries(free) : b.mem <= allocs' - todo'[u]
    <3>1. u = t /\ used = {}
      BY <1>2, <1>5, <2>3
    <3>2. todo'[u] = BufferCount /\ allocs' = allocs + BufferCount
      BY <1>2, <3>1
    <3>3. QED BY <1>1, <1>6, <2>1, <3>1, <3>2
  <2>4. QED BY <1>2, <1>4, <1>6, <2>1, <2>2, <2>3 DEF IInv, Numbered
<1>8. Two'
  <2> SUFFICES ASSUME Finalizes, ~Emptied PROVE Two'
    BY <1>1 DEF Two
  <2>1. BufferCount > 1
    BY <1>1 DEF Emptied
  <2>2. CASE used = {}
    <3>1. pc'[t] = "fill" /\ todo'[t] = BufferCount /\ free' = free
      BY <1>2, <2>2
    <3>2. \A u \in Takers : pc'[u] = "fill" => Len(free') + todo'[u] > 1
      BY <1>1, <1>5, <1>6, <2>1, <3>1
    <3>3. QED BY <3>1, <3>2 DEF Two
  <2>3. CASE used # {}
    <3>1. Len(free) + Cardinality(used) > 1
      BY <1>5, <2>3 DEF IInv, Two
    <3>2. \A u \in Takers : pc'[u] # "fill"
      BY <1>2, <1>5, <2>3
    <3>3. QED BY <1>2, <3>1, <3>2 DEF Two
  <2>4. QED BY <2>2, <2>3
<1>9. QED BY <1>3, <1>7, <1>8

LEMMA InitIInv == Init => IInv
<1> SUFFICES ASSUME Init PROVE IInv
  OBVIOUS
<1>1. TypeOK
  BY InitTypeOK
<1>2. /\ KeepRef \in BOOLEAN /\ BufferCount \in Nat \ {0} /\ (Finalizes => KeepRef)
  BY SetupTyped DEF Init
<1>3. /\ used = {} /\ out = {} /\ ~finalized /\ cpc = "run" /\ ~stuck
      /\ \A t \in Takers : pc[t] = "idle"
  BY DEF Init
<1>4. Places
  BY <1>3 DEF Places
<1>5. Sent = {} /\ Held = {}
  BY <1>3 DEF Sent, Held
<1>6. CASE KeepRef
  <2>1. free = <<>> /\ Entries(free) = {} /\ Len(free) = 0
    BY <1>6 DEF Init, Entries
  <2>2. Numbered /\ Two
    BY <1>3, <2>1, FS_EmptySet DEF Numbered, Two
  <2>3. IndexUnique
    BY <1>3, <2>1 DEF IndexUnique
  <2>4. Apart
    BY <1>3, <1>5, <2>1 DEF Apart, MemOnce, Owners
  <2>5. Accounted
    BY <1>3, <1>5, <1>6 DEF Accounted
  <2>6. QED BY <1>1, <1>4, <2>2, <2>3, <2>4, <2>5, ExclusiveParts DEF IInv
<1>7. CASE ~KeepRef
  <2>1. free = [i \in 1..BufferCount |-> [mem |-> i, idx |-> i - 1]]
    BY <1>7 DEF Init
  <2>2. Len(free) = BufferCount /\ \A i \in 1..BufferCount : free[i].mem = i
    BY <1>2, <2>1
  <2>3. Numbered /\ Two /\ IndexUnique
    BY <1>2, <1>7 DEF Numbered, Two, IndexUnique
  <2>4. MemOnce(free) /\ Owners
    BY <1>3, <2>2 DEF MemOnce, Owners
  <2>5. Apart
    BY <1>5, <2>4 DEF Apart
  <2>6. {b.mem : b \in Entries(free)} = 1..BufferCount
    BY <2>2 DEF Entries
  <2>7. Accounted
    BY <1>5, <1>7, <2>6 DEF Accounted
  <2>8. QED BY <1>1, <1>4, <2>3, <2>5, <2>7, ExclusiveParts DEF IInv
<1>8. QED BY <1>6, <1>7

LEMMA NextIInv == IInv /\ [Next]_vars => IInv'
<1> SUFFICES ASSUME IInv, [Next]_vars PROVE IInv'
  OBVIOUS
<1>t. TypeOK' /\ Places'
  BY NextTypeOK, NextPlaces DEF IInv
<1>p. pc \in [Takers -> {"idle", "check", "fill", "take", "lock", "wait", "woken", "got"}]
      /\ buf \in [Takers -> Buffer] /\ UNCHANGED setup
  BY SetupStays DEF IInv, TypeOK
<1> DEFINE Rest4 == (Numbered /\ Two /\ Exclusive /\ Accounted)'
<1> SUFFICES Rest4
  BY <1>t DEF IInv
<1>q. ASSUME Quiet, UNCHANGED <<allocs, todo>>,
             \A t \in Takers : pc'[t] = "fill" <=> pc[t] = "fill"
      PROVE  Rest4
  BY <1>q, QuietKeeps, QuietNumbers
<1> HIDE DEF Rest4
<1> USE DEF poolVars, GoTo, Quiet
<1>1. ASSUME NEW t \in Takers, Process(t) PROVE Rest4
  BY <1>1, <1>p, <1>q DEF Process
<1>2. ASSUME NEW t \in Takers, CheckUsed(t) PROVE Rest4
  BY <1>2, <1>p, CheckKeeps DEF Rest4
<1>3. ASSUME NEW t \in Takers, AddBuffer(t) PROVE Rest4
  BY <1>3, <1>p, AddKeeps DEF Rest4
<1>4. ASSUME NEW t \in Takers, TakeEnter(t) PROVE Rest4
  BY <1>4, <1>p, <1>q DEF TakeEnter
<1>5. ASSUME NEW t \in Takers, TakeLocked(t) PROVE Rest4
  <2>1. CASE TakeFirst(t)
    BY <1>5, <1>p, <2>1, TakeKeeps DEF Rest4
  <2>2. CASE ~TakeFirst(t)
    BY <1>5, <1>p, <1>q, <2>2 DEF TakeLocked
  <2>3. QED BY <2>1, <2>2
<1>6. ASSUME NEW t \in Takers, Send(t) PROVE Rest4
  <2>1. Exclusive' /\ Accounted'
    BY <1>6, <1>p, SendKeeps
  <2>2. Numbered' /\ Two'
    <3>1. /\ KeepRef' = KeepRef /\ Finalizes' = Finalizes /\ Emptied' = Emptied
          /\ Entries(free)' = Entries(free)
      BY <1>6, <1>p DEF KeepRef, BufferCount, Owned, Finalizes, Emptied, Send, Entries
    <3>2. /\ \A u \in Takers : pc'[u] = "fill" <=> pc[u] = "fill"
          /\ UNCHANGED <<free, used, allocs, todo>>
      BY <1>6, <1>p DEF Send
    <3>3. QED BY <3>1, <3>2 DEF IInv, Numbered, Two
  <2>3. QED BY <2>1, <2>2 DEF Rest4
<1>7. ASSUME NEW b \in out, Delete(b) PROVE Rest4
  <2>1. CASE ~KeepRef
    BY <1>7, <1>p, <2>1, GiveBufferKeeps DEF Rest4
  <2>2. CASE KeepRef /\ \A u \in used : u.idx # b.idx
    BY <1>7, <1>p, <2>2, RefusedKeeps DEF Rest4
  <2>3. CASE KeepRef /\ ~\A u \in used : u.idx # b.idx
    <3>1. PICK g \in used : g.idx = b.idx /\ Return(g) /\ used' = used \ {g}
      BY <1>7, <2>3 DEF Delete, GiveIndex
    <3>2. free' = Append(free, g)
      BY <3>1 DEF Return
    <3>3. QED BY <1>7, <1>p, <2>3, <3>1, <3>2, GiveIndexKeeps DEF Rest4
  <2>4. QED BY <2>1, <2>2, <2>3
<1>8. CASE GiveWake
  BY <1>8, <1>p, <1>q DEF GiveWake, WakeAll
<1>9. CASE CallFinalize
  BY <1>9, <1>p, <1>q DEF CallFinalize
<1>10. CASE FinalizeClear
  <2>1. CASE DeletesOwned
    BY <1>10, <1>p, <1>q, <2>1 DEF FinalizeClear
  <2>2. CASE ~DeletesOwned
    BY <1>10, <1>p, <2>2, ClearKeeps DEF Rest4
  <2>3. QED BY <2>1, <2>2
<1>11. CASE FinalizeWake
  BY <1>11, <1>p, <1>q DEF FinalizeWake, WakeAll
<1>12. CASE UNCHANGED vars
  BY <1>12, <1>p, <1>q DEF vars
<1>13. QED
  BY <1>1, <1>2, <1>3, <1>4, <1>5, <1>6, <1>7, <1>8, <1>9, <1>10, <1>11, <1>12
     DEF Next, Work, Downstream, Wake, Finalize

LEMMA IInvHolds == Spec => []IInv
BY InitIInv, NextIInv, PTL DEF Spec

\* For every number of threads and buffers, and for every element around the pool,
\* its lists, indices and counters stay in their types.
THEOREM PoolTypeCorrect == Spec => []TypeOK
<1>1. IInv => TypeOK
  BY DEF IInv
<1>2. QED BY <1>1, IInvHolds, PTL

\* One piece of memory has one user, and an index of the pool names one buffer,
\* whenever buffers come back and however often the element fills its pool.
THEOREM BuffersExclusive == Spec => []Exclusive
<1>1. IInv => Exclusive
  BY DEF IInv
<1>2. QED BY <1>1, IInvHolds, PTL

\* No buffer is lost: what the pool calls used is held or on its way.
THEOREM BuffersAccounted == Spec => []Accounted
<1>1. IInv => Accounted
  BY DEF IInv
<1>2. QED BY <1>1, IInvHolds, PTL

\* A taker never sleeps beside a free buffer with no wake-up on its way.
THEOREM WakeupsKept == Spec => []NoLostWakeup
<1>1. Init => NoLostWakeup
  BY DEF Init, NoLostWakeup
<1>2. IInv /\ NoLostWakeup /\ [Next]_vars => NoLostWakeup'
  <2> SUFFICES ASSUME IInv, NoLostWakeup, [Next]_vars PROVE NoLostWakeup'
    OBVIOUS
  <2>0. /\ pc \in [Takers -> {"idle", "check", "fill", "take", "lock", "wait", "woken", "got"}]
        /\ wakes \in Nat /\ free \in Seq(Pooled)
    BY PoolAssumption DEF IInv, TypeOK, PoolAssumption
  <2> USE DEF poolVars, GoTo, NoLostWakeup
  <2>1. ASSUME NEW t \in Takers, Process(t) PROVE NoLostWakeup'
    BY <2>0, <2>1 DEF Process
  <2>2. ASSUME NEW t \in Takers, CheckUsed(t) PROVE NoLostWakeup'
    BY <2>0, <2>2 DEF CheckUsed
  <2>3. ASSUME NEW t \in Takers, AddBuffer(t) PROVE NoLostWakeup'
    <3>1. pc[t] = "fill" /\ KeepRef /\ t \in setup.takers
      BY <2>3 DEF AddBuffer, IInv, Places
    <3>2. \A u \in Takers : pc[u] # "wait"
      BY <3>1, SetupTyped DEF IInv, Places, TypeOK
    <3>3. QED BY <2>0, <2>3, <3>2 DEF AddBuffer
  <2>4. ASSUME NEW t \in Takers, TakeEnter(t) PROVE NoLostWakeup'
    BY <2>0, <2>4 DEF TakeEnter
  <2>5. ASSUME NEW t \in Takers, TakeLocked(t) PROVE NoLostWakeup'
    <3>1. CASE TakeFirst(t)
      BY <2>0, <2>5, <3>1 DEF TakeLocked, TakeFirst
    <3>2. CASE ~TakeFirst(t)
      BY <2>0, <2>5, <3>2 DEF TakeLocked
    <3>3. QED BY <3>1, <3>2
  <2>6. ASSUME NEW t \in Takers, Send(t) PROVE NoLostWakeup'
    BY <2>0, <2>6 DEF Send
  <2>7. ASSUME NEW b \in out, Delete(b) PROVE NoLostWakeup'
    <3>1. ASSUME NEW g, Return(g) PROVE NoLostWakeup'
      BY <2>0, <3>1 DEF Return
    <3>2. CASE UNCHANGED <<free, used, wakes>>
      BY <2>0, <2>7, <3>2 DEF Delete
    <3>3. QED BY <2>7, <3>1, <3>2 DEF Delete, GiveIndex, GiveBuffer
  <2>8. CASE GiveWake
    BY <2>0, <2>8 DEF GiveWake, WakeAll
  <2>9. CASE CallFinalize
    BY <2>0, <2>9 DEF CallFinalize
  <2>10. CASE FinalizeClear
    BY <2>0, <2>10 DEF FinalizeClear
  <2>11. CASE FinalizeWake
    BY <2>0, <2>11 DEF FinalizeWake, WakeAll
  <2>12. CASE UNCHANGED vars
    BY <2>0, <2>12 DEF vars
  <2>13. QED
    BY <2>1, <2>2, <2>3, <2>4, <2>5, <2>6, <2>7, <2>8, <2>9, <2>10, <2>11, <2>12
       DEF Next, Work, Downstream, Wake, Finalize
<1>3. QED BY <1>1, <1>2, IInvHolds, PTL DEF Spec
=============================================================================
