-------------------------- MODULE EventLoop_proofs --------------------------
(***************************************************************************)
(* Proofs about EventLoop, for every set of threads, number of connections *)
(* and choice of faults.                                                   *)
(*                                                                         *)
(* A table of descriptors belongs to a process, so an invariant about a    *)
(* thread has to survive the steps of the others.  It is therefore stated  *)
(* thread by thread, over what the thread owns; a step of another thread   *)
(* changes none of its variables and none of its descriptors (or, where a  *)
(* number may be closed twice, only takes some away).                      *)
(*                                                                         *)
(* The first half is about every build and every setting: the types, and   *)
(* that a thread never has more connections than it counts.  The second is *)
(* about select(), where a thread owns what it holds and no more: what     *)
(* it waits for, what the scan counts, and what the clean-up closes.       *)
(***************************************************************************)
EXTENDS EventLoop, FiniteSetTheorems, NaturalsInduction, SequenceTheorems, WellFoundedInduction, TLAPS

-----------------------------------------------------------------------------
(***************************************************************************)
(* The inductive invariant.                                                *)
(***************************************************************************)

\* What a table holds: the descriptors of main, and for each thread of the
\* process a listen socket, an epoll set, a statistics socket and a connection
\* for each slot, every one of them at most once.
IsFile(p, f) ==
    \/ f.owner = Main /\ f.kind = "std" /\ f.k \in MainFds
    \/ /\ f.owner \in Threads /\ Process(f.owner) = p
       /\ \/ f.kind \in {"listen", "epoll", "stats"} /\ f.k = 1
          \/ f.kind = "connection" /\ f.k \in Slots

TableInv == \A p \in Procs :
    /\ \A fd \in DOMAIN files[p] : IsFile(p, files[p][fd])
    /\ \A d, e \in DOMAIN files[p] : files[p][d] = files[p][e] => d = e

\* What a thread owns by the time it gets to a place, so that what it opens next
\* is new to the table.
Owned(t) == {fd \in DOMAIN Files(t) : FileAt(t, fd).owner = t}

OwnedInv(t) == \A fd \in Owned(t) :
    /\ pc[t] # "start"
    /\ pc[t] = "connect" =>
         \/ FileAt(t, fd).kind = "listen" /\ t \in Servers /\ settings.stream
         \/ /\ FileAt(t, fd).kind = "connection"
            /\ FileAt(t, fd).k < c[t] /\ client[t][FileAt(t, fd).k] = fd
    /\ pc[t] = "watch" => FileAt(t, fd).kind # "epoll"
    /\ pc[t] \notin {"send", "done", "dead"} => FileAt(t, fd).kind # "stats"

\* The sockets that are open are in the array, or, with epoll, no more than
\* the thread counts, those of the events it still holds included.
EventFds(t) == {events[t][i].fd : i \in DOMAIN events[t]}

CountInv(t) ==
    /\ pc[t] = "start" => c[t] = 1 /\ client[t] = <<>> /\ s[t] = INVALID
    /\ pc[t] \in {"start", "connect"} => clients[t] = Connections
    /\ pc[t] \in {"connect", "watch", "wait", "scan"} => client[t] \in [Slots -> MaybeFds]
    /\ pc[t] = "watch" => OpenOnes(t) \subseteq InUse(t)
    /\ pc[t] = "wait" /\ settings.epoll => Cardinality(OpenOnes(t)) <= clients[t]
    /\ pc[t] = "scan" /\ settings.epoll =>
         /\ Cardinality(OpenOnes(t) \cup EventFds(t)) <= clients[t]
         /\ \A i, j \in DOMAIN events[t] : i # j => events[t][i].fd # events[t][j].fd
    /\ pc[t] = "abandon" /\ client[t] # <<>> => Cardinality(OpenOnes(t)) <= clients[t]

\* With select: what select() is asked about is in the array, and ret goes down
\* by two at most for a socket that is looked at or removed.
SelectInv(t) ==
    /\ InLoop(t) /\ ~settings.epoll =>
         /\ OpenOnes(t) \subseteq InUse(t) /\ INVALID \notin InUse(t)
         /\ readFD[t] \cup writeFD[t] \subseteq InUse(t)
         /\ t \in Servers => writeFD[t] = {}
    /\ pc[t] = "scan" /\ ~settings.epoll =>
         /\ c[t] <= clients[t] + 1
         /\ -1 - 2 * (c[t] - 1) - 2 * (Connections - clients[t]) <= ret[t]

\* A failed assert has ended the whole process.
DeadInv == \A t, u \in Threads :
    pc[t] = "dead" /\ Process(u) = Process(t) => pc[u] = "dead"

GeneralInv == TypeOK /\ TableInv /\ DeadInv /\
    \A t \in Threads : OwnedInv(t) /\ CountInv(t) /\ SelectInv(t)

-----------------------------------------------------------------------------
(***************************************************************************)
(* Constants and the shape of the settings.                                *)
(***************************************************************************)
LEMMA Sizes ==
  /\ NServers \in Nat \ {0} /\ NClients \in Nat \ {0}
  /\ Threads = 1 .. (NServers + NClients) /\ Procs = 0 .. (NServers + NClients)
  /\ Servers \subseteq Threads /\ Clients \subseteq Threads /\ Servers \cap Clients = {}
  /\ Threads = Servers \cup Clients /\ Threads \subseteq Procs /\ Main \in Procs /\ Main \notin Threads
BY SizesAssumption DEF Threads, Procs, Servers, Clients, Main

LEMMA TableSize ==
  ASSUME NEW n \in Nat
  PROVE  (NServers + NClients) * (n + 3) \in Nat
<1> DEFINE a == NServers + NClients
           b == n + 3
<1>1. a \in Nat /\ b \in Nat
  BY Sizes
<1> HIDE DEF a, b
<1>2. a * b \in Nat
  BY <1>1
<1> QED
  BY <1>2 DEF a, b

LEMMA SettingsShape ==
  ASSUME TypeOK
  PROVE  /\ settings \in AllSettings
         /\ Connections \in Nat \ {0} /\ MaxFd \in Nat /\ INVALID \notin Fds
         /\ \A t \in Threads : Process(t) \in Procs
<1>1. settings \in AllSettings
  BY SettingsAssumption DEF TypeOK
<1>2. Connections \in Nat \ {0}
  BY <1>1 DEF AllSettings, Connections
<1>3. MaxFd \in Nat
  <2>1. (NServers + NClients) * (Connections + 3) \in Nat
    BY <1>2, TableSize
  <2> QED
    BY <2>1 DEF MaxFd
<1>4. INVALID \notin Fds
  BY <1>3 DEF Fds, INVALID
<1>5. \A t \in Threads : Process(t) \in Procs
  BY Sizes DEF Process
<1> QED
  BY <1>1, <1>2, <1>3, <1>4, <1>5

-----------------------------------------------------------------------------
(***************************************************************************)
(* A set of descriptors has a least and a greatest element.                *)
(***************************************************************************)
LEMMA LeastNatural ==
  ASSUME NEW T \in SUBSET Nat, T # {}
  PROVE  \E n \in T : \A m \in T : n <= m
<1> DEFINE Less == {ss \in Nat \X Nat : ss[1] < ss[2]}
<1>1. IsWellFoundedOn(Less, Nat)
  BY NatLessThanWellFounded DEF OpToRel
<1> HIDE DEF Less
<1>2. PICK n \in T : \A m \in T : <<m, n>> \notin Less
  BY <1>1, WFMin
<1>3. \A m \in T : ~(m < n)
  BY <1>2 DEF Less
<1> QED
  BY <1>3

LEMMA GreatestUpTo ==
  ASSUME NEW N \in Nat, NEW T \in SUBSET (0 .. N), T # {}
  PROVE  \E n \in T : \A m \in T : m <= n
<1> DEFINE U == {N - n : n \in T}
<1>1. U \in SUBSET Nat /\ U # {}
  <2>1. \A n \in T : N - n \in Nat
    OBVIOUS
  <2>2. \A u \in U : u \in Nat
    BY <2>1
  <2>3. PICK n : n \in T
    OBVIOUS
  <2>4. N - n \in U
    BY <2>3
  <2> QED
    BY <2>2, <2>4
<1>2. PICK u \in U : \A m \in U : u <= m
  BY <1>1, LeastNatural
<1>3. PICK n \in T : u = N - n
  BY <1>2
<1>4. \A m \in T : N - n <= N - m
  BY <1>2, <1>3
<1> QED
  BY <1>4

LEMMA HighestOfType ==
  ASSUME TypeOK, NEW T \in SUBSET Fds
  PROVE  /\ HighestOf(T) + 1 \in 0 .. (MaxFd + 1)
         /\ \A fd \in T : fd < HighestOf(T) + 1
<1>0. MaxFd \in Nat
  BY SettingsShape
<1>1. CASE T = {}
  BY <1>0, <1>1 DEF HighestOf, INVALID
<1>2. CASE T # {}
  <2>1. \E n \in T : \A m \in T : m <= n
    BY <1>0, <1>2, GreatestUpTo DEF Fds
  <2>2. HighestOf(T) \in T /\ \A m \in T : m <= HighestOf(T)
    BY <1>2, <2>1 DEF HighestOf
  <2>3. HighestOf(T) \in 0 .. MaxFd
    BY <2>2 DEF Fds
  <2>4. \A m \in T : m \in 0 .. MaxFd
    BY DEF Fds
  <2> QED
    BY <1>0, <2>2, <2>3, <2>4
<1> QED
  BY <1>1, <1>2

-----------------------------------------------------------------------------
(***************************************************************************)
(* There is room in every table for what a thread does not have in it yet. *)
(***************************************************************************)

\* Where in its table a file would go if each had a place of its own.
Place(f) == <<f.owner, IF f.owner = Main THEN f.k
                       ELSE IF f.kind = "listen" THEN 1
                       ELSE IF f.kind = "epoll" THEN 2
                       ELSE IF f.kind = "stats" THEN 3 ELSE 3 + f.k>>

Places == ({Main} \X MainFds) \cup (Threads \X (1 .. (Connections + 3)))

LEMMA PlacesInTables ==
  ASSUME TypeOK
  PROVE  IsFiniteSet(Places) /\ Cardinality(Places) = MaxFd + 1
<1> DEFINE A == {Main} \X MainFds
           B == Threads \X (1 .. (Connections + 3))
<1>0. Connections \in Nat \ {0} /\ NServers + NClients \in Nat \ {0}
  BY SettingsShape, Sizes
<1>1. IsFiniteSet(A) /\ Cardinality(A) = 4
  <2>1. IsFiniteSet({Main}) /\ Cardinality({Main}) = 1
    BY FS_Singleton
  <2>2. IsFiniteSet(MainFds) /\ Cardinality(MainFds) = 4
    <3>1. \A n \in Nat : IsFiniteSet(0 .. n) /\ Cardinality(0 .. n) = n + 1
      BY FS_Interval
    <3>2. PICK n \in Nat : n = 3
      OBVIOUS
    <3>3. MainFds = 0 .. n
      BY <3>2 DEF MainFds
    <3>4. IsFiniteSet(MainFds) /\ Cardinality(MainFds) = n + 1
      BY <3>1, <3>3, Zenon
    <3> QED
      BY <3>2, <3>4
  <2> QED
    BY <2>1, <2>2, FS_Product
<1>2. IsFiniteSet(B) /\ Cardinality(B) = (NServers + NClients) * (Connections + 3)
  <2>1. IsFiniteSet(Threads) /\ Cardinality(Threads) = NServers + NClients
    BY <1>0, FS_Interval DEF Threads
  <2>2. IsFiniteSet(1 .. (Connections + 3)) /\ Cardinality(1 .. (Connections + 3)) = Connections + 3
    BY <1>0, FS_Interval
  <2> QED
    BY <2>1, <2>2, FS_Product
<1>3. A \cap B = {}
  BY Sizes
<1>4. Cardinality(A \cap B) = 0
  BY <1>3, FS_EmptySet
<1> HIDE DEF A, B
<1>5. IsFiniteSet(A \cup B)
      /\ Cardinality(A \cup B) = Cardinality(A) + Cardinality(B) - Cardinality(A \cap B)
  BY <1>1, <1>2, FS_Union
<1>6. Places = A \cup B
  BY DEF Places, A, B
<1>7. (NServers + NClients) * (Connections + 3) \in Nat
  BY <1>0, TableSize
<1>8. MaxFd = 3 + (NServers + NClients) * (Connections + 3)
  BY DEF MaxFd
<1> HIDE DEF MaxFd
<1> DEFINE M == (NServers + NClients) * (Connections + 3)
<1> HIDE DEF M
<1>9. Cardinality(B) = M /\ M \in Nat /\ MaxFd = 3 + M
  BY <1>2, <1>7, <1>8 DEF M
<1> QED
  BY <1>1, <1>4, <1>5, <1>6, <1>9

LEMMA PlaceIsOwn ==
  ASSUME TypeOK, NEW p \in Procs, NEW f \in FileRecords, NEW g \in FileRecords,
         IsFile(p, f), IsFile(p, g)
  PROVE  /\ Place(f) \in Places
         /\ Place(f) = Place(g) => f = g
<1>0. Connections \in Nat \ {0} /\ Main \notin Threads
  BY SettingsShape, Sizes
<1>1. Place(f) \in Places
  BY <1>0 DEF Place, Places, IsFile, Slots, FileRecords, Main, MainFds
<1>2. Place(f) = Place(g) => f.owner = g.owner /\ f.kind = g.kind /\ f.k = g.k
  BY <1>0 DEF Place, IsFile, Slots, MainFds
<1>3. f = [owner |-> f.owner, kind |-> f.kind, k |-> f.k]
  BY DEF FileRecords
<1>4. g = [owner |-> g.owner, kind |-> g.kind, k |-> g.k]
  BY DEF FileRecords
<1> QED
  BY <1>1, <1>2, <1>3, <1>4

LEMMA Room ==
  ASSUME TypeOK, TableInv, NEW p \in Procs, NEW f \in FileRecords, IsFile(p, f),
         \A d \in DOMAIN files[p] : files[p][d] # f
  PROVE  \E fd \in Fds : fd \notin DOMAIN files[p]
<1> SUFFICES ASSUME Fds \subseteq DOMAIN files[p] PROVE FALSE
  OBVIOUS
<1> DEFINE T == Places \ {Place(f)}
           place == [fd \in Fds |-> Place(files[p][fd])]
<1>1. DOMAIN files[p] = Fds /\ \A fd \in Fds : files[p][fd] \in FileRecords
  BY DEF TypeOK, FilesOK
<1>2. \A fd \in Fds : IsFile(p, files[p][fd]) /\ files[p][fd] # f
  BY <1>1 DEF TableInv
<1>3. Place(f) \in Places
  BY PlaceIsOwn
<1>4. \A fd \in Fds : Place(files[p][fd]) \in T
  BY <1>1, <1>2, PlaceIsOwn
<1>5. \A d, e \in Fds : Place(files[p][d]) = Place(files[p][e]) => d = e
  <2> TAKE d, e \in Fds
  <2> HAVE Place(files[p][d]) = Place(files[p][e])
  <2>1. files[p][d] = files[p][e]
    BY <1>1, <1>2, PlaceIsOwn
  <2> QED
    BY <1>1, <2>1 DEF TableInv
<1>6. place \in Injection(Fds, T)
  BY <1>4, <1>5 DEF Injection, IsInjective
<1>7. IsFiniteSet(T) /\ Cardinality(T) = MaxFd
  <2>1. IsFiniteSet(Places) /\ Cardinality(Places) = MaxFd + 1 /\ MaxFd \in Nat
    BY PlacesInTables, SettingsShape
  <2>2. /\ IsFiniteSet(Places \ {Place(f)})
        /\ Cardinality(Places \ {Place(f)}) =
              IF Place(f) \in Places THEN Cardinality(Places) - 1 ELSE Cardinality(Places)
    BY <2>1, FS_RemoveElement, Zenon
  <2> QED
    BY <1>3, <2>1, <2>2
<1>8. Cardinality(Fds) <= MaxFd
  BY <1>6, <1>7, FS_Injection
<1>9. Cardinality(Fds) = MaxFd + 1 /\ MaxFd \in Nat
  <2>1. MaxFd \in Nat
    BY SettingsShape
  <2> QED
    BY <2>1, FS_Interval DEF Fds
<1> QED
  BY <1>8, <1>9

-----------------------------------------------------------------------------
(***************************************************************************)
(* What opening and closing does to what each thread owns.                 *)
(***************************************************************************)

\* u owns no more than it did, or exactly what it did.
OwnsLess(u) == \A fd \in Owned(u)' : fd \in Owned(u) /\ Files(u)'[fd] = Files(u)[fd]
OwnsSame(u) == OwnsLess(u) /\ Owned(u)' = Owned(u)

LEMMA OpenOnesAreOwned ==
  ASSUME NEW t \in Threads
  PROVE  OpenOnes(t) = {fd \in Owned(t) : Files(t)[fd].kind \in Transfers}
BY DEF OpenOnes, IsMine, Owned, IsOpen, FileAt

LEMMA NextFdIsFree ==
  ASSUME TypeOK, TableInv, NEW t \in Threads, NEW f \in FileRecords, IsFile(Process(t), f),
         f.owner = t, \A fd \in Owned(t) : Files(t)[fd] # f
  PROVE  NextFd(t) \in Fds /\ NextFd(t) \notin DOMAIN Files(t)
<1>1. Process(t) \in Procs /\ MaxFd \in Nat
  BY SettingsShape
<1>2. \A d \in DOMAIN files[Process(t)] : files[Process(t)][d] # f
  BY DEF Owned, Files, FileAt
<1>3. \E fd \in Fds : fd \notin DOMAIN Files(t)
  BY <1>1, <1>2, Room DEF Files
<1> DEFINE Free == Fds \ DOMAIN Files(t)
<1>4. Free \in SUBSET Nat /\ Free # {}
  BY <1>1, <1>3 DEF Fds
<1>5. \E n \in Free : \A m \in Free : n <= m
  BY <1>4, LeastNatural
<1>6. NextFd(t) \in Free
  BY <1>5 DEF NextFd
<1> QED
  BY <1>6

LEMMA OpenedEffect ==
  ASSUME TypeOK, TableInv, NEW t \in Threads, NEW f \in FileRecords, IsFile(Process(t), f),
         f.owner = t, \A fd \in Owned(t) : Files(t)[fd] # f,
         Opened(t, f), settings' = settings,
         NEW n, n = NextFd(t)
  PROVE  /\ n \in Fds /\ n \notin DOMAIN Files(t)
         /\ FilesOK' /\ TableInv'
         /\ Owned(t)' = Owned(t) \cup {n} /\ Files(t)'[n] = f
         /\ \A fd \in Owned(t) : Files(t)'[fd] = Files(t)[fd]
         /\ \A u \in Threads : u # t => OwnsSame(u)
<1> DEFINE p == Process(t)
<1>0. n \in Fds /\ n \notin DOMAIN Files(t)
  BY NextFdIsFree
<1>1. p \in Procs /\ \A u \in Threads : Process(u) \in Procs /\ Process(u)' = Process(u)
  BY SettingsShape DEF Process
<1>2. DOMAIN files = Procs /\ FilesOK
  BY DEF TypeOK, FilesOK
<1>3. files' = [files EXCEPT ![p] =
          [fd \in DOMAIN files[p] \cup {n} |-> IF fd = n THEN f ELSE files[p][fd]]]
  BY DEF Opened
<1>4. /\ DOMAIN files' = Procs
      /\ \A q \in Procs : q # p => files'[q] = files[q]
      /\ DOMAIN files'[p] = DOMAIN files[p] \cup {n}
      /\ files'[p][n] = f
      /\ \A fd \in DOMAIN files[p] : files'[p][fd] = files[p][fd]
  BY <1>0, <1>1, <1>2, <1>3 DEF Files
<1> HIDE DEF p
<1>5. \A u \in Threads : Files(u)' = files'[Process(u)]
  BY <1>1 DEF Files
<1>6. Fds' = Fds /\ FileRecords' = FileRecords /\ \A q, g : IsFile(q, g)' <=> IsFile(q, g)
  BY DEF Fds, MaxFd, Connections, FileRecords, IsFile, Process, Slots
<1>7. FilesOK'
  <2> SUFFICES ASSUME NEW q \in Procs
               PROVE  /\ DOMAIN files'[q] \subseteq Fds
                      /\ \A fd \in DOMAIN files'[q] : files'[q][fd] \in FileRecords
    BY <1>4, <1>6 DEF FilesOK
  <2>1. CASE q # p
    BY <1>2, <1>4, <2>1 DEF FilesOK
  <2>2. CASE q = p
    BY <1>0, <1>2, <1>4, <2>2 DEF FilesOK
  <2> QED
    BY <2>1, <2>2
<1>8. TableInv'
  <2> SUFFICES ASSUME NEW q \in Procs
               PROVE  /\ \A fd \in DOMAIN files'[q] : IsFile(q, files'[q][fd])
                      /\ \A d, e \in DOMAIN files'[q] : files'[q][d] = files'[q][e] => d = e
    BY <1>6 DEF TableInv
  <2>1. CASE q # p
    BY <1>4, <2>1 DEF TableInv
  <2>2. CASE q = p
    <3>1. \A d \in DOMAIN files[p] : files[p][d] # f
      BY DEF Owned, Files, FileAt, p
    <3>2. IsFile(p, f)
      BY DEF p
    <3> QED
      BY <1>1, <1>4, <2>2, <3>1, <3>2 DEF TableInv
  <2> QED
    BY <2>1, <2>2
<1>9. Owned(t)' = Owned(t) \cup {n} /\ Files(t)'[n] = f
      /\ \A fd \in Owned(t) : Files(t)'[fd] = Files(t)[fd]
  <2>1. Files(t)' = files'[p] /\ Files(t) = files[p]
    BY <1>5 DEF Files, p
  <2>2. Owned(t)' = {fd \in DOMAIN Files(t)' : Files(t)'[fd].owner = t}
    BY DEF Owned, FileAt
  <2>3. Owned(t) = {fd \in DOMAIN Files(t) : Files(t)[fd].owner = t}
    BY DEF Owned, FileAt
  <2> QED
    BY <1>4, <2>1, <2>2, <2>3
<1>10. ASSUME NEW u \in Threads, u # t PROVE OwnsSame(u)
  <2>1. Owned(u)' = {fd \in DOMAIN Files(u)' : Files(u)'[fd].owner = u}
    BY DEF Owned, FileAt
  <2>2. Owned(u) = {fd \in DOMAIN Files(u) : Files(u)[fd].owner = u}
    BY DEF Owned, FileAt
  <2>3. Files(u)' = files'[Process(u)] /\ Files(u) = files[Process(u)]
    BY <1>5 DEF Files
  <2>4. CASE Process(u) # p
    BY <1>1, <1>4, <2>1, <2>2, <2>3, <2>4 DEF OwnsSame, OwnsLess
  <2>5. CASE Process(u) = p
    BY <1>0, <1>4, <1>10, <2>1, <2>2, <2>3, <2>5 DEF OwnsSame, OwnsLess, p, Files
  <2> QED
    BY <2>4, <2>5
<1> QED
  BY <1>0, <1>7, <1>8, <1>9, <1>10

LEMMA ClosedEffect ==
  ASSUME TypeOK, TableInv, NEW t \in Threads, NEW x, Closed(t, x), settings' = settings
  PROVE  /\ FilesOK' /\ TableInv'
         /\ Owned(t)' = Owned(t) \ {x}
         /\ \A u \in Threads : OwnsLess(u)
         /\ \A u \in Threads :
              Process(u) # Process(t) \/ ~IsOpen(t, x) \/ FileAt(t, x).owner # u => OwnsSame(u)
<1> DEFINE p == Process(t)
<1>1. p \in Procs /\ \A u \in Threads : Process(u) \in Procs /\ Process(u)' = Process(u)
  BY SettingsShape DEF Process
<1>2. DOMAIN files = Procs /\ FilesOK
  BY DEF TypeOK, FilesOK
<1>4. /\ DOMAIN files' = Procs
      /\ \A q \in Procs : q # p => files'[q] = files[q]
      /\ DOMAIN files'[p] = DOMAIN files[p] \ {x}
      /\ \A fd \in DOMAIN files'[p] : files'[p][fd] = files[p][fd]
  BY <1>1, <1>2 DEF Closed
<1> HIDE DEF p
<1>5. \A u \in Threads : Files(u)' = files'[Process(u)] /\ Files(u) = files[Process(u)]
  BY <1>1 DEF Files
<1>6. Fds' = Fds /\ FileRecords' = FileRecords /\ \A q, g : IsFile(q, g)' <=> IsFile(q, g)
  BY DEF Fds, MaxFd, Connections, FileRecords, IsFile, Process, Slots
<1>7. FilesOK'
  BY <1>2, <1>4, <1>6 DEF FilesOK
<1>8. TableInv'
  BY <1>4, <1>6 DEF TableInv
<1>9. \A u \in Threads :
        /\ Owned(u)' = {fd \in DOMAIN Files(u)' : Files(u)'[fd].owner = u}
        /\ Owned(u) = {fd \in DOMAIN Files(u) : Files(u)[fd].owner = u}
  BY DEF Owned, FileAt
<1>10. Owned(t)' = Owned(t) \ {x}
  BY <1>4, <1>5, <1>9 DEF p
<1>11. ASSUME NEW u \in Threads PROVE OwnsLess(u)
  <2>1. CASE Process(u) # p
    BY <1>1, <1>4, <1>5, <1>9, <2>1 DEF OwnsLess
  <2>2. CASE Process(u) = p
    BY <1>4, <1>5, <1>9, <2>2 DEF OwnsLess
  <2> QED
    BY <2>1, <2>2
<1>12. ASSUME NEW u \in Threads,
              Process(u) # Process(t) \/ ~IsOpen(t, x) \/ FileAt(t, x).owner # u
       PROVE  OwnsSame(u)
  <2>1. CASE Process(u) # p
    <3>1. Files(u)' = Files(u)
      BY <1>1, <1>4, <1>5, <2>1
    <3> QED
      BY <1>9, <1>11, <3>1 DEF OwnsSame
  <2>2. CASE Process(u) = p
    <3>0. Files(u) = Files(t)
      BY <2>2 DEF p, Files
    <3>1. x \notin Owned(u)
      BY <1>9, <1>12, <2>2, <3>0 DEF IsOpen, FileAt, p
    <3>2. Owned(u)' = Owned(u) \ {x}
      BY <1>4, <1>5, <1>9, <2>2
    <3> QED
      BY <1>11, <3>1, <3>2 DEF OwnsSame
  <2> QED
    BY <2>1, <2>2
<1> QED
  BY <1>7, <1>8, <1>10, <1>11, <1>12

-----------------------------------------------------------------------------
(***************************************************************************)
(* A thread that does not take part in a step keeps its invariant.         *)
(***************************************************************************)
Unmoved(u) ==
    /\ pc'[u] = pc[u] /\ s'[u] = s[u] /\ client'[u] = client[u] /\ clients'[u] = clients[u]
    /\ events'[u] = events[u] /\ readFD'[u] = readFD[u] /\ writeFD'[u] = writeFD[u]
    /\ nfds'[u] = nfds[u] /\ ret'[u] = ret[u] /\ c'[u] = c[u]
    /\ sock'[u] = sock[u] /\ closing'[u] = closing[u]

LEMMA SameSettings ==
  ASSUME settings' = settings
  PROVE  /\ Connections' = Connections /\ Slots' = Slots /\ MaxFd' = MaxFd /\ Fds' = Fds
         /\ MaybeFds' = MaybeFds /\ EventRecords' = EventRecords /\ Transfers' = Transfers
         /\ OwnTable' = OwnTable
         /\ \A t \in Threads : Process(t)' = Process(t)
         /\ \A f \in AllFaults : Fault(f)' = Fault(f)
BY DEF Connections, Slots, MaxFd, Fds, MaybeFds, EventRecords, Transfers, OwnTable, Process, Fault

LEMMA OpenOnesFinite ==
  ASSUME TypeOK, NEW t \in Threads
  PROVE  /\ OpenOnes(t) \in SUBSET Fds
         /\ IsFiniteSet(Fds)
         /\ \A S \in SUBSET Fds : IsFiniteSet(S) /\ Cardinality(S) \in Nat
<1>1. MaxFd \in Nat /\ Process(t) \in Procs
  BY SettingsShape
<1>2. IsFiniteSet(Fds)
  BY <1>1, FS_Interval DEF Fds
<1>3. \A S \in SUBSET Fds : IsFiniteSet(S) /\ Cardinality(S) \in Nat
  BY <1>2, FS_Subset, FS_CardinalityType
<1>4. OpenOnes(t) \in SUBSET Fds
  BY <1>1 DEF OpenOnes, TypeOK, FilesOK, Files
<1> QED
  BY <1>2, <1>3, <1>4

LEMMA OpenOnesNext ==
  ASSUME settings' = settings, NEW t \in Threads
  PROVE  OpenOnes(t)' = {fd \in Owned(t)' : Files(t)'[fd].kind \in Transfers}
<1>1. Transfers' = Transfers
  BY SameSettings
<1> QED
  BY <1>1 DEF OpenOnes, IsMine, Owned, IsOpen, FileAt

LEMMA OpenOnesShrink ==
  ASSUME settings' = settings, NEW t \in Threads, OwnsLess(t)
  PROVE  OpenOnes(t)' \subseteq OpenOnes(t)
BY OpenOnesNext, OpenOnesAreOwned DEF OwnsLess

\* A smaller set has no more elements.
LEMMA SmallerCount ==
  ASSUME TypeOK, NEW S \in SUBSET Fds, NEW T \in SUBSET S, NEW n \in Int, Cardinality(S) <= n
  PROVE  Cardinality(T) <= n
<1>1. IsFiniteSet(S) /\ Cardinality(S) \in Nat /\ Cardinality(T) \in Nat
  BY OpenOnesFinite, Sizes
<1>2. Cardinality(T) <= Cardinality(S)
  BY <1>1, FS_Subset
<1> QED
  BY <1>1, <1>2

LEMMA EventFdsType ==
  ASSUME TypeOK, NEW t \in Threads
  PROVE  EventFds(t) \in SUBSET Fds
<1>1. events[t] \in Seq(EventRecords)
  BY DEF TypeOK
<1>2. \A i \in DOMAIN events[t] : events[t][i] \in EventRecords
  BY <1>1
<1> QED
  BY <1>2 DEF EventFds, EventRecords

LEMMA OtherGeneral ==
  ASSUME TypeOK, settings' = settings, NEW u \in Threads, OwnsLess(u), Unmoved(u),
         OwnedInv(u), CountInv(u), SelectInv(u)
  PROVE  OwnedInv(u)' /\ CountInv(u)' /\ SelectInv(u)'
<1>0. /\ Connections' = Connections /\ Slots' = Slots /\ MaybeFds' = MaybeFds
      /\ OpenOnes(u)' \subseteq OpenOnes(u)
  BY SameSettings, OpenOnesShrink
<1>1. OwnedInv(u)'
  BY DEF OwnedInv, OwnsLess, Unmoved, FileAt
<1>2. InUse(u)' = InUse(u) /\ EventFds(u)' = EventFds(u)
  BY DEF Unmoved, InUse, EventFds
<1>3. clients[u] \in Int
  BY SettingsShape DEF TypeOK
<1>4. OpenOnes(u) \in SUBSET Fds /\ EventFds(u) \in SUBSET Fds
  BY OpenOnesFinite, EventFdsType
<1>5. \A n \in Int : Cardinality(OpenOnes(u)) <= n => Cardinality(OpenOnes(u)') <= n
  BY <1>0, <1>4, SmallerCount
<1>6. \A n \in Int : Cardinality(OpenOnes(u) \cup EventFds(u)) <= n
                     => Cardinality(OpenOnes(u)' \cup EventFds(u)) <= n
  <2>1. OpenOnes(u)' \cup EventFds(u) \in SUBSET (OpenOnes(u) \cup EventFds(u))
    BY <1>0
  <2>2. OpenOnes(u) \cup EventFds(u) \in SUBSET Fds
    BY <1>4
  <2> QED
    BY <2>1, <2>2, SmallerCount
<1>7. CountInv(u)'
  BY <1>0, <1>2, <1>3, <1>5, <1>6 DEF CountInv, Unmoved
<1>8. SelectInv(u)'
  BY <1>0, <1>2 DEF SelectInv, Unmoved, InLoop
<1> QED
  BY <1>1, <1>7, <1>8

\* A thread that has gone down with its process has nothing left to keep.
LEMMA DeadGeneral ==
  ASSUME NEW u \in Threads, pc'[u] = "dead"
  PROVE  OwnedInv(u)' /\ CountInv(u)' /\ SelectInv(u)'
BY DEF OwnedInv, CountInv, SelectInv, InLoop

-----------------------------------------------------------------------------
(***************************************************************************)
(* The general invariant, action by action.  What a step of t does to the  *)
(* table and to the others:                                                *)
(***************************************************************************)
Step(t) ==
    /\ settings' = settings /\ FilesOK' /\ TableInv'
    /\ \A u \in Threads : u # t => Unmoved(u) /\ OwnsLess(u)

LEMMA FilesKept ==
  ASSUME TypeOK, TableInv, UNCHANGED <<settings, files>>
  PROVE  /\ FilesOK' /\ TableInv'
         /\ \A u \in Threads : OwnsSame(u) /\ OpenOnes(u)' = OpenOnes(u)
<1>1. \A u \in Threads : Process(u)' = Process(u)
  BY SameSettings
<1>2. \A u \in Threads : Files(u)' = Files(u)
  BY <1>1 DEF Files
<1>3. \A u \in Threads : OwnsSame(u)
  BY <1>2 DEF OwnsSame, OwnsLess, Owned, FileAt
<1>4. \A u \in Threads : OpenOnes(u)' = OpenOnes(u)
  BY <1>3, OpenOnesNext, OpenOnesAreOwned DEF OwnsSame, OwnsLess
<1>5. Fds' = Fds /\ FileRecords' = FileRecords /\ \A q, g : IsFile(q, g)' <=> IsFile(q, g)
  BY DEF Fds, MaxFd, Connections, FileRecords, IsFile, Process, Slots
<1>6. FilesOK'
  BY <1>5 DEF FilesOK, TypeOK
<1>7. TableInv'
  BY <1>5 DEF TableInv
<1> QED
  BY <1>3, <1>4, <1>6, <1>7

\* A thread that goes somewhere, with what it had: OwnedInv asks no more.
LEMMA OwnedKept ==
  ASSUME settings' = settings, NEW t \in Threads, OwnsLess(t), OwnedInv(t),
         pc[t] # "start", pc[t] \notin {"send", "done", "dead"},
         pc'[t] \notin {"start", "connect"}, pc'[t] = "watch" => pc[t] = "connect"
  PROVE  OwnedInv(t)'
<1>1. \A fd \in Owned(t)' : fd \in Owned(t) /\ FileAt(t, fd).kind = Files(t)'[fd].kind
  BY DEF OwnsLess, FileAt
<1>2. \A fd \in Owned(t)' : FileAt(t, fd)' = Files(t)'[fd]
  BY DEF FileAt
<1> QED
  BY <1>1 DEF OwnedInv, FileAt

LEMMA TypeNext ==
  ASSUME settings' = settings
  PROVE  TypeOK' <=>
    /\ settings \in Settings /\ FilesOK'
    /\ peer' \in [Threads -> [Slots -> Peers]]
    /\ bRunning' \in [Procs -> BOOLEAN]
    /\ pc' \in [Threads -> PCs]
    /\ s' \in [Threads -> MaybeFds] /\ sock' \in [Threads -> MaybeFds]
    /\ readFD_epoll' \in [Threads -> MaybeFds]
    /\ client' \in [Threads -> {<<>>} \cup [Slots -> MaybeFds]]
    /\ clients' \in [Threads -> 0 .. Connections]
    /\ events' \in [Threads -> Seq(EventRecords)] /\ closing' \in [Threads -> Seq(MaybeFds)]
    /\ readFD' \in [Threads -> SUBSET Fds] /\ writeFD' \in [Threads -> SUBSET Fds]
    /\ nfds' \in [Threads -> 0 .. MaxFd + 1]
    /\ ret' \in [Threads -> -(2 * Connections + 1) .. 2 * Connections]
    /\ c' \in [Threads -> 1 .. Connections + 1]
    /\ return_stats' \in [Threads -> BOOLEAN]
BY SameSettings DEF TypeOK

LEMMA CallocFailsGeneral ==
  ASSUME GeneralInv, NEW t \in Threads, CallocFails(t)
  PROVE  TypeOK' /\ Step(t) /\ OwnedInv(t)' /\ CountInv(t)' /\ SelectInv(t)'
<1> USE DEF CallocFails, StartUnchanged, loopVars, endVars, statsVars, Abandon, Goto
<1>0. TypeOK /\ TableInv /\ OwnedInv(t) /\ CountInv(t)
  BY DEF GeneralInv
<1>1. FilesOK' /\ TableInv' /\ \A u \in Threads : OwnsSame(u) /\ OpenOnes(u)' = OpenOnes(u)
  BY <1>0, FilesKept
<1>2. TypeOK'
  BY <1>0, <1>1, TypeNext DEF TypeOK, PCs
<1>3. Step(t)
  BY <1>0, <1>1 DEF Step, Unmoved, OwnsSame, TypeOK
<1>4. pc'[t] = "abandon" /\ client'[t] = <<>>
  BY <1>0 DEF TypeOK, CountInv
<1>5. OwnedInv(t)'
  BY <1>0, <1>1, <1>4 DEF OwnedInv, OwnsSame, OwnsLess, FileAt
<1> QED
  BY <1>2, <1>3, <1>4, <1>5 DEF CountInv, SelectInv, InLoop

LEMMA StartClientGeneral ==
  ASSUME GeneralInv, NEW t \in Threads, StartClient(t)
  PROVE  TypeOK' /\ Step(t) /\ OwnedInv(t)' /\ CountInv(t)' /\ SelectInv(t)'
<1> USE DEF StartClient, StartUnchanged, loopVars, endVars, statsVars, BlankArray, Goto
<1>0. TypeOK /\ TableInv /\ OwnedInv(t) /\ CountInv(t)
  BY DEF GeneralInv
<1>1. FilesOK' /\ TableInv' /\ \A u \in Threads : OwnsSame(u) /\ OpenOnes(u)' = OpenOnes(u)
  BY <1>0, FilesKept
<1>2. TypeOK'
  BY <1>0, <1>1, TypeNext DEF TypeOK, PCs, MaybeFds
<1>3. Step(t)
  BY <1>0, <1>1 DEF Step, Unmoved, OwnsSame, TypeOK
<1>4. pc'[t] = "connect" /\ client'[t] \in [Slots -> MaybeFds] /\ clients'[t] = Connections
  BY <1>0 DEF TypeOK, CountInv, MaybeFds
<1>5. OwnedInv(t)'
  BY <1>0, <1>1, <1>4 DEF OwnedInv, OwnsSame, OwnsLess, FileAt
<1>6. CountInv(t)'
  BY <1>4, SameSettings DEF CountInv
<1> QED
  BY <1>2, <1>3, <1>4, <1>5, <1>6 DEF SelectInv, InLoop

LEMMA StartServerGeneral ==
  ASSUME GeneralInv, NEW t \in Threads, StartServer(t)
  PROVE  TypeOK' /\ Step(t) /\ OwnedInv(t)' /\ CountInv(t)' /\ SelectInv(t)'
<1> USE DEF loopVars, endVars, statsVars, BlankArray, Goto, Abandon
<1>0. /\ TypeOK /\ TableInv /\ OwnedInv(t) /\ CountInv(t) /\ settings' = settings
      /\ pc[t] = "start" /\ t \in Servers
  BY DEF GeneralInv, StartServer
<1>1. Connections \in Nat \ {0} /\ clients[t] = Connections /\ Owned(t) = {} /\ 1 \in Slots
  BY <1>0, SettingsShape DEF CountInv, OwnedInv, Slots
<1>2. CASE Fault("socket") /\ BlankArray(t) /\ Abandon(t) /\ UNCHANGED <<files, s, clients>>
  <2>1. FilesOK' /\ TableInv' /\ \A u \in Threads : OwnsSame(u) /\ OpenOnes(u)' = OpenOnes(u)
    BY <1>0, <1>2, FilesKept
  <2>2. TypeOK'
    BY <1>0, <1>2, <2>1, TypeNext DEF TypeOK, PCs, MaybeFds, StartServer
  <2>3. Step(t)
    BY <1>0, <1>2, <2>1 DEF Step, Unmoved, OwnsSame, TypeOK, StartServer
  <2>4. pc'[t] = "abandon" /\ clients'[t] = Connections
    BY <1>0, <1>1, <1>2 DEF TypeOK
  <2>5. OwnedInv(t)' /\ OpenOnes(t)' = {}
    BY <1>0, <1>1, <2>1, OpenOnesAreOwned DEF OwnedInv, OwnsSame
  <2>6. CountInv(t)'
    BY <1>1, <2>4, <2>5, FS_EmptySet DEF CountInv
  <2> QED
    BY <2>2, <2>3, <2>4, <2>5, <2>6 DEF SelectInv, InLoop
<1>3. CASE /\ Opened(t, File(t, "listen", 1))
           /\ s' = [s EXCEPT ![t] = NextFd(t)]
           /\ \/ Fault("bind") /\ BlankArray(t) /\ Abandon(t) /\ UNCHANGED clients
              \/ settings.stream /\ BlankArray(t) /\ Goto(t, "connect") /\ UNCHANGED clients
              \/ /\ ~settings.stream /\ Goto(t, "watch")
                 /\ client' = [client EXCEPT ![t] = [k \in Slots |-> IF k = 1 THEN NextFd(t) ELSE INVALID]]
                 /\ clients' = [clients EXCEPT ![t] = 1]
  <2> DEFINE f == File(t, "listen", 1)
             n == NextFd(t)
  <2>1. f \in FileRecords /\ f.owner = t /\ f.kind = "listen" /\ IsFile(Process(t), f)
    BY Sizes DEF File, FileRecords, Kinds, IsFile
  <2> HIDE DEF f, n
  <2>2. /\ n \in Fds /\ FilesOK' /\ TableInv'
        /\ Owned(t)' = {n} /\ Files(t)'[n] = f
        /\ \A u \in Threads : u # t => OwnsSame(u)
    <3>1. Opened(t, f)
      BY <1>3 DEF f
    <3>2. n = NextFd(t)
      BY DEF n
    <3> QED
      BY <1>0, <1>1, <2>1, <3>1, <3>2, OpenedEffect
  <2>3. n \in MaybeFds /\ s' = [s EXCEPT ![t] = n]
    BY <1>3, <2>2 DEF MaybeFds, n
  <2>4. OpenOnes(t)' \subseteq {n} /\ Cardinality(OpenOnes(t)') <= 1
    <3>1. OpenOnes(t)' \subseteq {n}
      BY <1>0, <2>2, OpenOnesNext
    <3>2. IsFiniteSet({n}) /\ Cardinality({n}) = 1
      BY FS_Singleton
    <3>3. Cardinality(OpenOnes(t)') <= Cardinality({n})
      BY <3>1, <3>2, FS_Subset
    <3> QED
      BY <3>1, <3>2, <3>3
  <2>5. Step(t)
    BY <1>0, <1>3, <2>2 DEF Step, Unmoved, OwnsSame, TypeOK, StartServer
  <2>6. CASE Fault("bind") /\ BlankArray(t) /\ Abandon(t) /\ UNCHANGED clients
    <3>1. TypeOK'
      BY <1>0, <2>2, <2>3, <2>6, TypeNext DEF TypeOK, PCs, MaybeFds, StartServer
    <3>2. pc'[t] = "abandon" /\ clients'[t] = Connections
      BY <1>0, <1>1, <2>6 DEF TypeOK
    <3>3. OwnedInv(t)'
      BY <2>1, <2>2, <3>2 DEF OwnedInv, FileAt
    <3>4. CountInv(t)'
      <4>1. Cardinality(OpenOnes(t)') <= Connections
        <5>1. Cardinality(OpenOnes(t)') \in Nat
          BY <2>2, <2>4, SameSettings, <1>0, OpenOnesFinite
        <5> QED
          BY <1>1, <2>4, <5>1
      <4> QED
        BY <3>2, <4>1 DEF CountInv
    <3> QED
      BY <2>5, <3>1, <3>2, <3>3, <3>4 DEF SelectInv, InLoop
  <2>7. CASE settings.stream /\ BlankArray(t) /\ Goto(t, "connect") /\ UNCHANGED clients
    <3>1. TypeOK'
      BY <1>0, <2>2, <2>3, <2>7, TypeNext DEF TypeOK, PCs, MaybeFds, StartServer
    <3>2. pc'[t] = "connect" /\ clients'[t] = Connections /\ client'[t] \in [Slots -> MaybeFds]
      BY <1>0, <1>1, <2>7 DEF TypeOK, MaybeFds
    <3>3. OwnedInv(t)'
      BY <1>0, <2>1, <2>2, <2>7, <3>2 DEF OwnedInv, FileAt
    <3>4. CountInv(t)'
      BY <1>0, <3>2, SameSettings DEF CountInv
    <3> QED
      BY <2>5, <3>1, <3>2, <3>3, <3>4 DEF SelectInv, InLoop
  <2>8. CASE /\ ~settings.stream /\ Goto(t, "watch")
             /\ client' = [client EXCEPT ![t] = [k \in Slots |-> IF k = 1 THEN NextFd(t) ELSE INVALID]]
             /\ clients' = [clients EXCEPT ![t] = 1]
    <3>0. client' = [client EXCEPT ![t] = [k \in Slots |-> IF k = 1 THEN n ELSE INVALID]]
      BY <2>8 DEF n
    <3>5. [k \in Slots |-> IF k = 1 THEN n ELSE INVALID] \in [Slots -> MaybeFds]
      BY <2>3 DEF MaybeFds
    <3>6. client' \in [Threads -> {<<>>} \cup [Slots -> MaybeFds]]
      BY <1>0, <3>0, <3>5 DEF TypeOK
    <3>7. clients' \in [Threads -> 0 .. Connections]
      BY <1>0, <1>1, <2>8 DEF TypeOK
    <3>1. TypeOK'
      BY <1>0, <2>2, <2>3, <2>8, <3>6, <3>7, TypeNext DEF TypeOK, PCs, StartServer
    <3>2. pc'[t] = "watch" /\ clients'[t] = 1 /\ client'[t] \in [Slots -> MaybeFds] /\ client'[t][1] = n
      BY <1>0, <1>1, <2>3, <2>8, <3>0 DEF TypeOK, MaybeFds
    <3>3. OwnedInv(t)'
      BY <2>1, <2>2, <3>2 DEF OwnedInv, FileAt
    <3>4. CountInv(t)'
      <4>1. n \in InUse(t)'
        BY <3>2 DEF InUse
      <4> QED
        BY <1>0, <2>4, <3>2, <4>1, SameSettings DEF CountInv
    <3> QED
      BY <2>5, <3>1, <3>2, <3>3, <3>4 DEF SelectInv, InLoop
  <2> QED
    BY <1>3, <2>6, <2>7, <2>8
<1> QED
  BY <1>2, <1>3 DEF StartServer

\* An array has no more values than indices.
LEMMA ImageCount ==
  ASSUME NEW a, NEW m \in Nat
  PROVE  IsFiniteSet({a[k] : k \in 1 .. m}) /\ Cardinality({a[k] : k \in 1 .. m}) <= m
<1> DEFINE S == {a[k] : k \in 1 .. m}
           f == [k \in 1 .. m |-> a[k]]
<1>1. f \in Surjection(1 .. m, S)
  BY DEF Surjection
<1>2. IsFiniteSet(1 .. m) /\ Cardinality(1 .. m) = m
  BY FS_Interval
<1> HIDE DEF f, S
<1>3. IsFiniteSet(S) /\ Cardinality(S) <= Cardinality(1 .. m)
  BY <1>1, <1>2, FS_Surjection
<1> QED
  BY <1>2, <1>3 DEF S

\* The connections a thread has opened so far are where it has put them.
LEMMA ConnectedSoFar ==
  ASSUME GeneralInv, NEW t \in Threads, pc[t] = "connect"
  PROVE  /\ OpenOnes(t) \subseteq {client[t][k] : k \in 1 .. (c[t] - 1)}
         /\ OpenOnes(t) \subseteq InUse(t)
         /\ Cardinality(OpenOnes(t)) <= c[t] - 1
         /\ c[t] - 1 <= Connections /\ clients[t] = Connections /\ c[t] \in Nat \ {0}
<1>0. /\ TypeOK /\ TableInv /\ OwnedInv(t) /\ CountInv(t)
      /\ Connections \in Nat \ {0} /\ c[t] \in 1 .. Connections + 1
  BY SettingsShape DEF GeneralInv, TypeOK
<1> DEFINE S == {client[t][k] : k \in 1 .. (c[t] - 1)}
<1>1. clients[t] = Connections
  BY <1>0 DEF CountInv
<1>2. ASSUME NEW fd \in OpenOnes(t)
      PROVE  \E k \in 1 .. (c[t] - 1) : client[t][k] = fd
  <2>1. fd \in Owned(t) /\ Files(t)[fd].kind \in Transfers
    BY OpenOnesAreOwned
  <2>2. ~(FileAt(t, fd).kind = "listen" /\ settings.stream)
    BY <2>1 DEF Transfers, FileAt
  <2>3. /\ FileAt(t, fd).kind = "connection"
        /\ FileAt(t, fd).k < c[t] /\ client[t][FileAt(t, fd).k] = fd
    BY <1>0, <2>1, <2>2 DEF OwnedInv
  <2>4. IsFile(Process(t), FileAt(t, fd))
    BY <1>0, <2>1, SettingsShape DEF TableInv, Owned, Files, FileAt
  <2>5. FileAt(t, fd).k \in Slots
    BY <2>3, <2>4 DEF IsFile
  <2> QED
    BY <1>0, <2>3, <2>5 DEF Slots
<1>3. OpenOnes(t) \subseteq S
  BY <1>2
<1>4. OpenOnes(t) \subseteq InUse(t)
  BY <1>0, <1>1, <1>2 DEF InUse
<1>5. IsFiniteSet(S) /\ Cardinality(S) <= c[t] - 1
  BY <1>0, ImageCount
<1>6. Cardinality(OpenOnes(t)) <= Cardinality(S) /\ Cardinality(S) \in Nat
      /\ Cardinality(OpenOnes(t)) \in Nat
  BY <1>0, <1>3, <1>5, FS_Subset, FS_CardinalityType, OpenOnesFinite
<1> QED
  BY <1>0, <1>1, <1>3, <1>4, <1>5, <1>6

LEMMA Connecting ==
  ASSUME GeneralInv, NEW t \in Threads, pc[t] = "connect", c[t] <= Connections
  PROVE  /\ TypeOK /\ TableInv /\ OwnedInv(t) /\ CountInv(t)
         /\ Connections \in Nat \ {0} /\ c[t] \in 1 .. Connections /\ c[t] \in Slots
         /\ client[t] \in [Slots -> MaybeFds] /\ clients[t] = Connections
<1>1. TypeOK /\ TableInv /\ OwnedInv(t) /\ CountInv(t)
  BY DEF GeneralInv
<1>2. Connections \in Nat \ {0} /\ c[t] \in 1 .. Connections + 1
  BY <1>1, SettingsShape DEF TypeOK
<1>3. client[t] \in [Slots -> MaybeFds] /\ clients[t] = Connections
  BY <1>1 DEF CountInv
<1> QED
  BY <1>1, <1>2, <1>3 DEF Slots

LEMMA ConnectedGeneral ==
  ASSUME GeneralInv, NEW t \in Threads, pc[t] = "connect", c[t] <= Connections,
         Connected(t), ConnectUnchanged
  PROVE  TypeOK' /\ Step(t) /\ OwnedInv(t)' /\ CountInv(t)' /\ SelectInv(t)'
<1> USE DEF ConnectUnchanged, endVars, statsVars
<1>0. /\ TypeOK /\ TableInv /\ OwnedInv(t) /\ CountInv(t) /\ settings' = settings
      /\ Connections \in Nat \ {0} /\ c[t] \in 1 .. Connections /\ c[t] \in Slots
      /\ client[t] \in [Slots -> MaybeFds] /\ clients[t] = Connections
  BY Connecting
<1> DEFINE f == File(t, "connection", c[t])
           n == NextFd(t)
<1>1. /\ f \in FileRecords /\ f.owner = t /\ f.kind = "connection" /\ f.k = c[t]
      /\ IsFile(Process(t), f)
  BY <1>0, Sizes DEF File, FileRecords, Kinds, IsFile
<1> HIDE DEF f
<1>2. Opened(t, f) /\ client' = [client EXCEPT ![t][c[t]] = n] /\ c' = [c EXCEPT ![t] = @ + 1] /\ pc' = pc
  BY DEF Connected, f
<1>3. \A fd \in Owned(t) : Files(t)[fd] # f
  BY <1>0, <1>1 DEF OwnedInv, FileAt
<1>4. n = NextFd(t)
  OBVIOUS
<1> HIDE DEF n
<1>5. /\ n \in Fds /\ FilesOK' /\ TableInv'
      /\ Owned(t)' = Owned(t) \cup {n} /\ Files(t)'[n] = f
      /\ \A fd \in Owned(t) : Files(t)'[fd] = Files(t)[fd]
      /\ \A u \in Threads : u # t => OwnsSame(u)
  BY <1>0, <1>1, <1>2, <1>3, <1>4, OpenedEffect
<1>6. /\ client' \in [Threads -> {<<>>} \cup [Slots -> MaybeFds]]
      /\ client'[t] \in [Slots -> MaybeFds] /\ client'[t][c[t]] = n
      /\ \A k \in Slots : k # c[t] => client'[t][k] = client[t][k]
      /\ \A u \in Threads : u # t => client'[u] = client[u]
  <2>1. client' = [client EXCEPT ![t] = [client[t] EXCEPT ![c[t]] = n]]
    BY <1>2
  <2>2. [client[t] EXCEPT ![c[t]] = n] \in [Slots -> MaybeFds]
    BY <1>0, <1>5 DEF MaybeFds
  <2> QED
    BY <1>0, <2>1, <2>2 DEF TypeOK
<1>7. c' \in [Threads -> 1 .. Connections + 1] /\ c'[t] = c[t] + 1
  BY <1>0, <1>2 DEF TypeOK
<1>8. TypeOK'
  BY <1>0, <1>2, <1>5, <1>6, <1>7, TypeNext DEF TypeOK
<1>9. Step(t)
  BY <1>0, <1>2, <1>5, <1>6 DEF Step, Unmoved, OwnsSame, TypeOK
<1>10. OwnedInv(t)'
  <2> SUFFICES ASSUME NEW fd \in Owned(t)'
      PROVE  /\ pc'[t] # "start"
             /\ pc'[t] = "connect" =>
                  \/ Files(t)'[fd].kind = "listen" /\ t \in Servers /\ settings'.stream
                  \/ /\ Files(t)'[fd].kind = "connection"
                     /\ Files(t)'[fd].k < c'[t] /\ client'[t][Files(t)'[fd].k] = fd
             /\ pc'[t] = "watch" => Files(t)'[fd].kind # "epoll"
             /\ pc'[t] \notin {"send", "done", "dead"} => Files(t)'[fd].kind # "stats"
    BY DEF OwnedInv, FileAt
  <2>1. CASE fd = n
    BY <1>0, <1>1, <1>2, <1>5, <1>6, <1>7, <2>1
  <2>2. CASE fd \in Owned(t)
    <3>1. IsFile(Process(t), Files(t)[fd])
      BY <1>0, <2>2, SettingsShape DEF TableInv, Owned, Files
    <3>2. Files(t)[fd].kind = "connection" => Files(t)[fd].k \in Slots
      BY <3>1 DEF IsFile
    <3> QED
      BY <1>0, <1>2, <1>5, <1>6, <1>7, <2>2, <3>2 DEF OwnedInv, FileAt, Slots
  <2> QED
    BY <1>5, <2>1, <2>2
<1>11. CountInv(t)'
  BY <1>0, <1>2, <1>6, SameSettings DEF CountInv
<1> QED
  BY <1>0, <1>2, <1>8, <1>9, <1>10, <1>11 DEF SelectInv, InLoop

LEMMA LeavesConnectGeneral ==
  ASSUME GeneralInv, NEW t \in Threads, pc[t] = "connect",
         Goto(t, "watch") \/ Abandon(t), UNCHANGED <<files, client, c>>, ConnectUnchanged
  PROVE  TypeOK' /\ Step(t) /\ OwnedInv(t)' /\ CountInv(t)' /\ SelectInv(t)'
<1> USE DEF ConnectUnchanged, endVars, statsVars, Abandon, Goto
<1>0. /\ TypeOK /\ TableInv /\ OwnedInv(t) /\ CountInv(t) /\ settings' = settings
      /\ Connections \in Nat \ {0} /\ client[t] \in [Slots -> MaybeFds]
  BY SettingsShape DEF GeneralInv, CountInv
<1>1. FilesOK' /\ TableInv' /\ \A u \in Threads : OwnsSame(u) /\ OpenOnes(u)' = OpenOnes(u)
  BY <1>0, FilesKept
<1>2. TypeOK'
  BY <1>0, <1>1, TypeNext DEF TypeOK, PCs
<1>3. Step(t)
  BY <1>0, <1>1 DEF Step, Unmoved, OwnsSame, TypeOK
<1>4. pc'[t] \in {"watch", "abandon"} /\ clients'[t] = Connections
  BY <1>0 DEF TypeOK, CountInv
<1>5. OwnedInv(t)'
  BY <1>0, <1>1, <1>4 DEF OwnedInv, OwnsSame, OwnsLess, FileAt
<1>6. CountInv(t)'
  <2>1. OpenOnes(t) \subseteq InUse(t) /\ Cardinality(OpenOnes(t)) <= Connections
    BY <1>0, ConnectedSoFar, OpenOnesFinite
  <2>2. InUse(t)' = InUse(t)
    BY DEF InUse
  <2> QED
    BY <1>0, <1>1, <1>4, <2>1, <2>2, SameSettings DEF CountInv
<1> QED
  BY <1>2, <1>3, <1>4, <1>5, <1>6 DEF SelectInv, InLoop

LEMMA OptionsFailGeneral ==
  ASSUME GeneralInv, NEW t \in Threads, pc[t] = "connect", c[t] <= Connections,
         Abandon(t), Opened(t, File(t, "connection", c[t])), UNCHANGED <<client, c>>, ConnectUnchanged
  PROVE  TypeOK' /\ Step(t) /\ OwnedInv(t)' /\ CountInv(t)' /\ SelectInv(t)'
<1> USE DEF ConnectUnchanged, endVars, statsVars, Abandon, Goto
<1>0. /\ TypeOK /\ TableInv /\ OwnedInv(t) /\ CountInv(t) /\ settings' = settings
      /\ Connections \in Nat \ {0} /\ c[t] \in 1 .. Connections /\ c[t] \in Slots
      /\ client[t] \in [Slots -> MaybeFds] /\ clients[t] = Connections
  BY Connecting
<1> DEFINE f == File(t, "connection", c[t])
           n == NextFd(t)
<1>1. /\ f \in FileRecords /\ f.owner = t /\ f.kind = "connection" /\ f.k = c[t]
      /\ IsFile(Process(t), f)
  BY <1>0, Sizes DEF File, FileRecords, Kinds, IsFile
<1>2. Opened(t, f) /\ n = NextFd(t)
  OBVIOUS
<1> HIDE DEF f, n
<1>3. \A fd \in Owned(t) : Files(t)[fd] # f
  BY <1>0, <1>1 DEF OwnedInv, FileAt
<1>5. /\ n \in Fds /\ FilesOK' /\ TableInv'
      /\ Owned(t)' = Owned(t) \cup {n} /\ Files(t)'[n] = f
      /\ \A fd \in Owned(t) : Files(t)'[fd] = Files(t)[fd]
      /\ \A u \in Threads : u # t => OwnsSame(u)
  BY <1>0, <1>1, <1>2, <1>3, OpenedEffect
<1>8. TypeOK'
  BY <1>0, <1>5, TypeNext DEF TypeOK, PCs
<1>9. Step(t)
  BY <1>0, <1>5 DEF Step, Unmoved, OwnsSame, TypeOK
<1>4. pc'[t] = "abandon" /\ clients'[t] = Connections
  BY <1>0 DEF TypeOK
<1>10. OwnedInv(t)'
  BY <1>0, <1>1, <1>4, <1>5 DEF OwnedInv, FileAt
<1>11. CountInv(t)'
  <2>1. OpenOnes(t)' \subseteq OpenOnes(t) \cup {n}
    BY <1>0, <1>5, OpenOnesNext, OpenOnesAreOwned
  <2>2. OpenOnes(t) \in SUBSET Fds /\ IsFiniteSet(OpenOnes(t)) /\ Cardinality(OpenOnes(t)) \in Nat
    BY <1>0, OpenOnesFinite
  <2>3. Cardinality(OpenOnes(t)) <= c[t] - 1
    BY ConnectedSoFar
  <2>4. /\ IsFiniteSet(OpenOnes(t) \cup {n})
        /\ Cardinality(OpenOnes(t) \cup {n}) <= Cardinality(OpenOnes(t)) + 1
    BY <2>2, FS_AddElement
  <2>5. Cardinality(OpenOnes(t) \cup {n}) \in Nat
    BY <2>4, FS_CardinalityType
  <2>6. Cardinality(OpenOnes(t)') \in Nat /\ Cardinality(OpenOnes(t)') <= Cardinality(OpenOnes(t) \cup {n})
    BY <2>1, <2>4, FS_Subset, FS_CardinalityType
  <2>7. Cardinality(OpenOnes(t)') <= Connections
    BY <1>0, <2>2, <2>3, <2>4, <2>5, <2>6
  <2> QED
    BY <1>4, <2>7 DEF CountInv
<1> QED
  BY <1>4, <1>8, <1>9, <1>10, <1>11 DEF SelectInv, InLoop

LEMMA AcceptConnectionsGeneral ==
  ASSUME GeneralInv, NEW t \in Threads, AcceptConnections(t)
  PROVE  TypeOK' /\ Step(t) /\ OwnedInv(t)' /\ CountInv(t)' /\ SelectInv(t)'
<1>1. pc[t] = "connect" /\ ConnectUnchanged /\ c[t] \in Nat /\ Connections \in Nat
  BY SettingsShape DEF AcceptConnections, GeneralInv, TypeOK
<1>2. ~AcceptsAll(t) => c[t] <= Connections
  BY <1>1 DEF AcceptsAll
<1> QED
  BY <1>1, <1>2, ConnectedGeneral, LeavesConnectGeneral, OptionsFailGeneral DEF AcceptConnections

LEMMA ConnectConnectionsGeneral ==
  ASSUME GeneralInv, NEW t \in Threads, ConnectConnections(t)
  PROVE  TypeOK' /\ Step(t) /\ OwnedInv(t)' /\ CountInv(t)' /\ SelectInv(t)'
<1>1. pc[t] = "connect" /\ ConnectUnchanged
  BY DEF ConnectConnections
<1> QED
  BY <1>1, ConnectedGeneral, LeavesConnectGeneral DEF ConnectConnections

\* CountsTheOpen, from the moment the sockets are in the array.
LEMMA Counted ==
  ASSUME GeneralInv, NEW t \in Threads, pc[t] \in {"watch", "wait", "scan"}
  PROVE  /\ Cardinality(OpenOnes(t)) <= clients[t] /\ clients[t] \in 0 .. Connections
         /\ client[t] \in [Slots -> MaybeFds] /\ InUse(t) \subseteq MaybeFds
         /\ Connections \in Nat \ {0}
<1>0. /\ TypeOK /\ CountInv(t) /\ SelectInv(t) /\ Connections \in Nat \ {0}
  BY SettingsShape DEF GeneralInv
<1>1. clients[t] \in 0 .. Connections
  BY <1>0 DEF TypeOK
<1>2. client[t] \in [Slots -> MaybeFds]
  BY <1>0 DEF CountInv
<1>3. InUse(t) \subseteq MaybeFds
  BY <1>0, <1>1, <1>2 DEF InUse, Slots
<1>4. OpenOnes(t) \in SUBSET Fds /\ Cardinality(OpenOnes(t)) \in Nat
  BY <1>0, OpenOnesFinite
<1>5. CASE OpenOnes(t) \subseteq InUse(t)
  <2>1. IsFiniteSet(InUse(t)) /\ Cardinality(InUse(t)) <= clients[t]
    <3>1. clients[t] \in Nat
      BY <1>0, <1>1
    <3> QED
      BY <3>1, ImageCount, Zenon DEF InUse
  <2>2. Cardinality(InUse(t)) \in Nat
    BY <2>1, FS_CardinalityType
  <2>3. Cardinality(OpenOnes(t)) <= Cardinality(InUse(t))
    BY <1>5, <2>1, FS_Subset
  <2> QED
    BY <1>1, <1>2, <1>3, <1>4, <1>0, <2>1, <2>2, <2>3
<1>6. CASE settings.epoll /\ pc[t] = "wait"
  BY <1>0, <1>1, <1>2, <1>3, <1>6 DEF CountInv
<1>7. CASE settings.epoll /\ pc[t] = "scan"
  <2>1. Cardinality(OpenOnes(t) \cup EventFds(t)) <= clients[t]
    BY <1>0, <1>7 DEF CountInv
  <2>2. OpenOnes(t) \cup EventFds(t) \in SUBSET Fds
    BY <1>0, <1>4, EventFdsType
  <2>3. OpenOnes(t) \in SUBSET (OpenOnes(t) \cup EventFds(t)) /\ clients[t] \in Int
    BY <1>1
  <2>4. Cardinality(OpenOnes(t)) <= clients[t]
    BY <1>0, <2>1, <2>2, <2>3, SmallerCount
  <2> QED
    BY <1>0, <1>1, <1>2, <1>3, <2>4
<1> QED
  BY <1>0, <1>5, <1>6, <1>7 DEF CountInv, SelectInv, InLoop

\* A thread that gives up, with its sockets open.
LEMMA GivesUpGeneral ==
  ASSUME GeneralInv, NEW t \in Threads, pc[t] \in {"watch", "wait", "scan"}, Abandon(t),
         OwnsLess(t), settings' = settings, client'[t] = client[t], clients'[t] = clients[t]
  PROVE  OwnedInv(t)' /\ CountInv(t)' /\ SelectInv(t)' /\ pc' \in [Threads -> PCs]
<1>0. TypeOK /\ OwnedInv(t) /\ pc'[t] = "abandon"
  BY DEF GeneralInv, Abandon, Goto, TypeOK
<1>1. OwnedInv(t)'
  BY <1>0, OwnedKept
<1>2. Cardinality(OpenOnes(t)') <= clients[t]
  <2>1. OpenOnes(t)' \in SUBSET OpenOnes(t) /\ OpenOnes(t) \in SUBSET Fds
    BY <1>0, OpenOnesShrink, OpenOnesFinite
  <2>2. Cardinality(OpenOnes(t)) <= clients[t] /\ clients[t] \in Int
    BY Counted
  <2> QED
    BY <1>0, <2>1, <2>2, SmallerCount
<1>3. CountInv(t)'
  BY <1>0, <1>2 DEF CountInv
<1> QED
  BY <1>0, <1>1, <1>3 DEF SelectInv, InLoop, Abandon, Goto, TypeOK, PCs

LEMMA NoBufferGeneral ==
  ASSUME GeneralInv, NEW t \in Threads, NoBuffer(t)
  PROVE  TypeOK' /\ Step(t) /\ OwnedInv(t)' /\ CountInv(t)' /\ SelectInv(t)'
<1> USE DEF NoBuffer, loopVars, endVars, statsVars
<1>0. TypeOK /\ TableInv
  BY DEF GeneralInv
<1>1. FilesOK' /\ TableInv' /\ \A u \in Threads : OwnsSame(u)
  BY <1>0, FilesKept
<1>2. OwnedInv(t)' /\ CountInv(t)' /\ SelectInv(t)' /\ pc' \in [Threads -> PCs]
  BY <1>1, GivesUpGeneral DEF OwnsSame
<1>3. TypeOK'
  BY <1>0, <1>1, <1>2, TypeNext DEF TypeOK
<1>4. Step(t)
  BY <1>0, <1>1 DEF Step, Unmoved, OwnsSame, TypeOK, Abandon, Goto
<1> QED
  BY <1>2, <1>3, <1>4

LEMMA WatchSelectGeneral ==
  ASSUME GeneralInv, NEW t \in Threads, Watch(t), ~settings.epoll
  PROVE  TypeOK' /\ Step(t) /\ OwnedInv(t)' /\ CountInv(t)' /\ SelectInv(t)'
<1> USE DEF endVars, statsVars
<1>0. /\ TypeOK /\ TableInv /\ OwnedInv(t) /\ CountInv(t) /\ settings' = settings
      /\ pc[t] = "watch" /\ INVALID \notin InUse(t)
  BY DEF GeneralInv, Watch
<1>1. /\ readFD' = [readFD EXCEPT ![t] = InUse(t)]
      /\ writeFD' = [writeFD EXCEPT ![t] = IF t \in Clients THEN InUse(t) ELSE {}]
      /\ nfds' = [nfds EXCEPT ![t] = HighestOf(InUse(t)) + 1]
      /\ pc' = [pc EXCEPT ![t] = "wait"]
      /\ UNCHANGED <<settings, files, readFD_epoll, peer, client, clients, s, ret, c, events, endVars>>
  BY DEF Watch, Goto
<1>2. FilesOK' /\ TableInv' /\ \A u \in Threads : OwnsSame(u) /\ OpenOnes(u)' = OpenOnes(u)
  BY <1>0, <1>1, FilesKept
<1>3. InUse(t) \in SUBSET Fds
  BY <1>0, Counted DEF MaybeFds
<1>4. HighestOf(InUse(t)) + 1 \in 0 .. (MaxFd + 1)
  BY <1>0, <1>3, HighestOfType
<1>5. /\ readFD' \in [Threads -> SUBSET Fds] /\ writeFD' \in [Threads -> SUBSET Fds]
      /\ nfds' \in [Threads -> 0 .. MaxFd + 1] /\ pc' \in [Threads -> PCs]
  BY <1>0, <1>1, <1>3, <1>4 DEF TypeOK, PCs
<1>6. TypeOK'
  BY <1>0, <1>1, <1>2, <1>5, TypeNext DEF TypeOK
<1>7. Step(t)
  BY <1>0, <1>1, <1>2 DEF Step, Unmoved, OwnsSame, TypeOK
<1>8. pc'[t] = "wait" /\ readFD'[t] = InUse(t) /\ writeFD'[t] \subseteq InUse(t)
      /\ (t \in Servers => writeFD'[t] = {})
  BY <1>0, <1>1, Sizes DEF TypeOK
<1>9. OwnedInv(t)'
  BY <1>0, <1>1, <1>2, <1>8 DEF OwnedInv, OwnsSame, OwnsLess, FileAt
<1>10. CountInv(t)'
  BY <1>0, <1>1, <1>8, SameSettings DEF CountInv
<1>11. SelectInv(t)'
  <2>1. InUse(t)' = InUse(t)
    BY <1>1 DEF InUse
  <2> QED
    BY <1>0, <1>2, <1>8, <2>1 DEF SelectInv, CountInv
<1> QED
  BY <1>6, <1>7, <1>9, <1>10, <1>11

LEMMA WatchEpollGeneral ==
  ASSUME GeneralInv, NEW t \in Threads, Watch(t), settings.epoll
  PROVE  TypeOK' /\ Step(t) /\ OwnedInv(t)' /\ CountInv(t)' /\ SelectInv(t)'
<1> USE DEF endVars, statsVars
<1>0. /\ TypeOK /\ TableInv /\ OwnedInv(t) /\ CountInv(t)
      /\ pc[t] = "watch" /\ client[t] \in [Slots -> MaybeFds] /\ Cardinality(OpenOnes(t)) <= clients[t]
      /\ UNCHANGED <<settings, peer, client, clients, s, ret, c, events, readFD, writeFD, nfds, endVars>>
  BY Counted DEF GeneralInv, Watch, CountInv
<1>1. CASE /\ readFD_epoll' = [readFD_epoll EXCEPT ![t] = INVALID]
           /\ Abandon(t) /\ UNCHANGED files
  <2>1. FilesOK' /\ TableInv' /\ \A u \in Threads : OwnsSame(u)
    BY <1>0, <1>1, FilesKept
  <2>2. OwnedInv(t)' /\ CountInv(t)' /\ SelectInv(t)' /\ pc' \in [Threads -> PCs]
    BY <1>0, <1>1, <2>1, GivesUpGeneral DEF OwnsSame
  <2>3. readFD_epoll' \in [Threads -> MaybeFds]
    BY <1>0, <1>1 DEF TypeOK, MaybeFds
  <2>4. TypeOK'
    BY <1>0, <2>1, <2>2, <2>3, TypeNext DEF TypeOK
  <2>5. Step(t)
    BY <1>0, <1>1, <2>1 DEF Step, Unmoved, OwnsSame, TypeOK, Abandon, Goto
  <2> QED
    BY <2>2, <2>4, <2>5
<1>2. CASE /\ Opened(t, File(t, "epoll", 1))
           /\ readFD_epoll' = [readFD_epoll EXCEPT ![t] = NextFd(t)]
           /\ Goto(t, "wait") \/ Abandon(t)
  <2> DEFINE f == File(t, "epoll", 1)
             n == NextFd(t)
  <2>1. f \in FileRecords /\ f.owner = t /\ f.kind = "epoll" /\ IsFile(Process(t), f)
    BY Sizes DEF File, FileRecords, Kinds, IsFile
  <2>2. Opened(t, f) /\ n = NextFd(t) /\ readFD_epoll' = [readFD_epoll EXCEPT ![t] = n]
    BY <1>2
  <2> HIDE DEF f, n
  <2>3. \A fd \in Owned(t) : Files(t)[fd] # f
    BY <1>0, <2>1 DEF OwnedInv, FileAt
  <2>4. /\ n \in Fds /\ FilesOK' /\ TableInv'
        /\ Owned(t)' = Owned(t) \cup {n} /\ Files(t)'[n] = f
        /\ \A fd \in Owned(t) : Files(t)'[fd] = Files(t)[fd]
        /\ \A u \in Threads : u # t => OwnsSame(u)
    BY <1>0, <2>1, <2>2, <2>3, OpenedEffect
  <2>5. pc' \in [Threads -> PCs] /\ pc'[t] \in {"wait", "abandon"}
        /\ \A u \in Threads : u # t => pc'[u] = pc[u]
    BY <1>0, <1>2 DEF Abandon, Goto, TypeOK, PCs
  <2>6. TypeOK'
    <3>1. readFD_epoll' \in [Threads -> MaybeFds]
      BY <1>0, <2>2, <2>4 DEF TypeOK, MaybeFds
    <3> QED
      BY <1>0, <2>4, <2>5, <3>1, TypeNext DEF TypeOK
  <2>7. Step(t)
    BY <1>0, <2>4, <2>5 DEF Step, Unmoved, OwnsSame, TypeOK
  <2>8. OwnedInv(t)'
    BY <1>0, <2>1, <2>4, <2>5 DEF OwnedInv, FileAt
  <2>9. OpenOnes(t)' = OpenOnes(t)
    <3>1. f.kind \notin Transfers
      BY <2>1 DEF Transfers
    <3>2. n \notin Owned(t)
      BY <2>3, <2>4
    <3>3. OpenOnes(t)' = {fd \in Owned(t)' : Files(t)'[fd].kind \in Transfers}
      BY <1>0, OpenOnesNext
    <3> QED
      BY <2>4, <3>1, <3>2, <3>3, OpenOnesAreOwned
  <2>10. CountInv(t)'
    BY <1>0, <2>5, <2>9, SameSettings DEF CountInv
  <2> QED
    BY <1>0, <2>5, <2>6, <2>7, <2>8, <2>10 DEF SelectInv
<1> QED
  BY <1>1, <1>2 DEF Watch

LEMMA LeaveLoopType ==
  ASSUME TypeOK, NEW t \in Threads, LeaveLoop(t)
  PROVE  return_stats' \in [Threads -> BOOLEAN]
<1>1. return_stats \in [Threads -> BOOLEAN]
  BY DEF TypeOK
<1>2. (t \in Servers) \in BOOLEAN
  OBVIOUS
<1>3. return_stats' = [return_stats EXCEPT ![t] = t \in Servers]
  BY DEF LeaveLoop
<1> QED
  BY <1>1, <1>2, <1>3, Zenon

LEMMA LoopEndsGeneral ==
  ASSUME GeneralInv, NEW t \in Threads, LoopEnds(t)
  PROVE  TypeOK' /\ Step(t) /\ OwnedInv(t)' /\ CountInv(t)' /\ SelectInv(t)'
<1> USE DEF LoopEnds, LeaveLoop, loopVars
<1>0. TypeOK /\ TableInv
  BY DEF GeneralInv
<1>1. FilesOK' /\ TableInv' /\ \A u \in Threads : OwnsSame(u)
  BY <1>0, FilesKept
<1>2. OwnedInv(t)' /\ CountInv(t)' /\ SelectInv(t)' /\ pc' \in [Threads -> PCs]
  BY <1>1, GivesUpGeneral DEF OwnsSame
<1>3. return_stats' \in [Threads -> BOOLEAN]
  BY <1>0, LeaveLoopType
<1>4. TypeOK'
  BY <1>0, <1>1, <1>2, <1>3, TypeNext DEF TypeOK
<1>5. Step(t)
  BY <1>0, <1>1 DEF Step, Unmoved, OwnsSame, TypeOK, Abandon, Goto
<1> QED
  BY <1>2, <1>4, <1>5

-----------------------------------------------------------------------------
(* The loop with epoll.                                                    *)
LEMMA FileFacts ==
  ASSUME TypeOK, TableInv, NEW t \in Threads, NEW fd \in DOMAIN Files(t)
  PROVE  FileAt(t, fd) \in FileRecords /\ IsFile(Process(t), FileAt(t, fd)) /\ fd \in Fds
<1>1. Process(t) \in Procs
  BY SettingsShape
<1> QED
  BY <1>1 DEF TypeOK, FilesOK, TableInv, Files, FileAt

LEMMA DrainedType ==
  ASSUME TypeOK, TableInv, NEW t \in Threads, NEW fd,
         NEW result \in RecvResults(t, fd) \cup {"none"}, Drained(t, fd, result)
  PROVE  peer' \in [Threads -> [Slots -> Peers]]
<1>1. peer \in [Threads -> [Slots -> Peers]]
  BY DEF TypeOK
<1>2. CASE result = "data"
  <2>1. IsSocket(t, fd)
    BY <1>2 DEF RecvResults, Received
  <2>2. fd \in DOMAIN Files(t) /\ FileAt(t, fd).kind \in {"listen", "connection"}
    BY <2>1 DEF IsSocket, IsOpen, Transfers
  <2>3. FileAt(t, fd).owner \in Threads /\ FileAt(t, fd).k \in Slots
    BY <2>2, FileFacts, SettingsShape DEF IsFile, Slots
  <2>4. peer' = [peer EXCEPT ![FileAt(t, fd).owner] = [@ EXCEPT ![FileAt(t, fd).k] = "quiet"]]
    BY <1>2 DEF Drained
  <2>5. [peer[FileAt(t, fd).owner] EXCEPT ![FileAt(t, fd).k] = "quiet"] \in [Slots -> Peers]
    BY <1>1, <2>3 DEF Peers
  <2> QED
    BY <1>1, <2>3, <2>4, <2>5
<1>3. CASE result # "data"
  BY <1>1, <1>3 DEF Drained
<1> QED
  BY <1>2, <1>3

LEMMA BatchFacts ==
  ASSUME TypeOK, NEW t \in Threads, NEW batch \in Batches(t)
  PROVE  /\ batch \in Seq(EventRecords)
         /\ \A i \in DOMAIN batch : batch[i].fd \in OpenOnes(t)
         /\ \A i, j \in DOMAIN batch : i # j => batch[i].fd # batch[j].fd
<1>1. PICK n \in 0 .. Cardinality(Interest(t)) : batch \in [1 .. n -> Reports(t)]
  BY DEF Batches
<1>2. Interest(t) \subseteq OpenOnes(t)
  BY DEF Interest, OpenOnes, IsMine, IsOpen
<1>3. OpenOnes(t) \subseteq Fds
  BY OpenOnesFinite
<1>4. ASSUME NEW fd \in Interest(t), NEW out \in BOOLEAN
      PROVE  Event(t, fd, out) \in EventRecords /\ Event(t, fd, out).fd = fd
  <2>1. (PeerAt(t, fd) = "reset") \in BOOLEAN /\ Readable(t, fd) \in BOOLEAN /\ fd \in Fds
    BY <1>2, <1>3 DEF Readable
  <2> QED
    BY <2>1, Zenon DEF Event, EventRecords
<1>5. ASSUME NEW e \in Reports(t)
      PROVE  \E fd \in Interest(t), out \in BOOLEAN : e = Event(t, fd, out)
  <2>1. e \in Events(t)
    BY DEF Reports
  <2> QED
    BY <2>1 DEF Events
<1>6. \A e \in Reports(t) : e \in EventRecords /\ e.fd \in OpenOnes(t)
  BY <1>2, <1>4, <1>5
<1>7. DOMAIN batch = 1 .. n /\ n \in Nat
  BY <1>1
<1>8. \A i \in 1 .. n : batch[i] \in EventRecords /\ batch[i].fd \in OpenOnes(t)
  BY <1>1, <1>6
<1>9. batch \in Seq(EventRecords)
  <2>1. batch \in [1 .. n -> EventRecords]
    BY <1>1, <1>8
  <2> QED
    BY <1>7, <2>1
<1>10. \A i, j \in DOMAIN batch : i # j => batch[i].fd # batch[j].fd
  BY DEF Batches
<1> QED
  BY <1>7, <1>8, <1>9, <1>10

LEMMA EpollWaitGeneral ==
  ASSUME GeneralInv, NEW t \in Threads, EpollWait(t)
  PROVE  TypeOK' /\ Step(t) /\ OwnedInv(t)' /\ CountInv(t)' /\ SelectInv(t)'
<1> USE DEF endVars, statsVars
<1>0. /\ TypeOK /\ TableInv /\ OwnedInv(t) /\ settings.epoll /\ pc[t] = "wait"
      /\ client[t] \in [Slots -> MaybeFds] /\ Cardinality(OpenOnes(t)) <= clients[t]
      /\ UNCHANGED <<settings, files, peer, client, clients, readFD_epoll, s, readFD, writeFD,
                     nfds, ret, c, endVars>>
  BY Counted DEF GeneralInv, EpollWait
<1>1. FilesOK' /\ TableInv' /\ \A u \in Threads : OwnsSame(u) /\ OpenOnes(u)' = OpenOnes(u)
  BY <1>0, FilesKept
<1>2. CASE Abandon(t) /\ UNCHANGED events
  <2>1. OwnedInv(t)' /\ CountInv(t)' /\ SelectInv(t)' /\ pc' \in [Threads -> PCs]
    BY <1>0, <1>1, <1>2, GivesUpGeneral DEF OwnsSame
  <2>2. TypeOK'
    BY <1>0, <1>1, <1>2, <2>1, TypeNext DEF TypeOK
  <2>3. Step(t)
    BY <1>0, <1>1, <1>2 DEF Step, Unmoved, OwnsSame, TypeOK, Abandon, Goto
  <2> QED
    BY <2>1, <2>2, <2>3
<1>3. CASE \E batch \in Batches(t) : events' = [events EXCEPT ![t] = batch] /\ Goto(t, "scan")
  <2>1. PICK batch \in Batches(t) : events' = [events EXCEPT ![t] = batch] /\ Goto(t, "scan")
    BY <1>3
  <2>2. /\ batch \in Seq(EventRecords)
        /\ \A i \in DOMAIN batch : batch[i].fd \in OpenOnes(t)
        /\ \A i, j \in DOMAIN batch : i # j => batch[i].fd # batch[j].fd
    BY <1>0, BatchFacts
  <2>3. /\ events' \in [Threads -> Seq(EventRecords)] /\ events'[t] = batch
        /\ pc' \in [Threads -> PCs] /\ pc'[t] = "scan"
        /\ \A u \in Threads : u # t => events'[u] = events[u] /\ pc'[u] = pc[u]
    BY <1>0, <2>1, <2>2 DEF TypeOK, PCs, Goto
  <2>4. TypeOK'
    BY <1>0, <1>1, <2>3, TypeNext DEF TypeOK
  <2>5. Step(t)
    BY <1>0, <1>1, <2>3 DEF Step, Unmoved, OwnsSame, TypeOK
  <2>6. OwnedInv(t)'
    BY <1>0, <1>1, <2>3, OwnedKept DEF OwnsSame
  <2>7. OpenOnes(t)' \cup EventFds(t)' = OpenOnes(t)
    BY <1>1, <2>2, <2>3 DEF EventFds
  <2>8. CountInv(t)'
    BY <1>0, <2>2, <2>3, <2>7, SameSettings DEF CountInv
  <2> QED
    BY <1>0, <2>3, <2>4, <2>5, <2>6, <2>8 DEF SelectInv
<1> QED
  BY <1>2, <1>3 DEF EpollWait

LEMMA EndBatchGeneral ==
  ASSUME GeneralInv, NEW t \in Threads, EndBatch(t)
  PROVE  TypeOK' /\ Step(t) /\ OwnedInv(t)' /\ CountInv(t)' /\ SelectInv(t)'
<1> USE DEF EndBatch, loopVars, endVars, statsVars, Goto
<1>0. /\ TypeOK /\ TableInv /\ OwnedInv(t) /\ settings.epoll /\ pc[t] = "scan" /\ settings' = settings
      /\ client[t] \in [Slots -> MaybeFds] /\ Cardinality(OpenOnes(t)) <= clients[t]
  BY Counted DEF GeneralInv
<1>1. FilesOK' /\ TableInv' /\ \A u \in Threads : OwnsSame(u) /\ OpenOnes(u)' = OpenOnes(u)
  BY <1>0, FilesKept
<1>2. pc' \in [Threads -> PCs] /\ pc'[t] = "wait"
  BY <1>0 DEF TypeOK, PCs
<1>3. TypeOK'
  BY <1>0, <1>1, <1>2, TypeNext DEF TypeOK
<1>4. Step(t)
  BY <1>0, <1>1 DEF Step, Unmoved, OwnsSame, TypeOK
<1>5. OwnedInv(t)'
  BY <1>0, <1>1, <1>2, OwnedKept DEF OwnsSame
<1>6. CountInv(t)'
  BY <1>0, <1>1, <1>2, SameSettings DEF CountInv
<1> QED
  BY <1>0, <1>2, <1>3, <1>4, <1>5, <1>6 DEF SelectInv

\* The event at the head is taken off: its descriptor is in none of the others.
LEMMA NextEventFacts ==
  ASSUME GeneralInv, NEW t \in Threads, HasEvent(t), NextEvent(t)
  PROVE  /\ Head(events[t]) \in EventRecords /\ Head(events[t]).fd \in EventFds(t)
         /\ events' \in [Threads -> Seq(EventRecords)]
         /\ \A u \in Threads : u # t => events'[u] = events[u]
         /\ EventFds(t)' \subseteq EventFds(t) \ {Head(events[t]).fd}
         /\ \A i, j \in DOMAIN events'[t] : i # j => events'[t][i].fd # events'[t][j].fd
         /\ Cardinality(OpenOnes(t) \cup EventFds(t)) <= clients[t]
         /\ OpenOnes(t) \cup EventFds(t) \in SUBSET Fds
         /\ clients[t] \in 0 .. Connections /\ Connections \in Nat \ {0}
         /\ client[t] \in [Slots -> MaybeFds]
<1>0. /\ TypeOK /\ CountInv(t) /\ settings.epoll /\ pc[t] = "scan" /\ events[t] # <<>>
      /\ clients[t] \in 0 .. Connections /\ Connections \in Nat \ {0}
      /\ client[t] \in [Slots -> MaybeFds]
  BY Counted DEF GeneralInv, HasEvent
<1> DEFINE q == events[t]
<1>1. q \in Seq(EventRecords) /\ q # <<>> /\ events \in [Threads -> Seq(EventRecords)]
  BY <1>0 DEF TypeOK
<1>2. events' = [events EXCEPT ![t] = Tail(q)]
  BY DEF NextEvent
<1>3. \A i, j \in DOMAIN q : i # j => q[i].fd # q[j].fd
  BY <1>0 DEF CountInv
<1>4. Cardinality(OpenOnes(t) \cup EventFds(t)) <= clients[t]
  BY <1>0 DEF CountInv
<1>5. OpenOnes(t) \cup EventFds(t) \in SUBSET Fds
  BY <1>0, OpenOnesFinite, EventFdsType
<1>6. EventFds(t) = {q[i].fd : i \in DOMAIN q}
  BY DEF EventFds
<1>7. events'[t] = Tail(q) /\ \A u \in Threads : u # t => events'[u] = events[u]
  BY <1>1, <1>2
<1>8. EventFds(t)' = {Tail(q)[i].fd : i \in DOMAIN Tail(q)}
  BY <1>7 DEF EventFds
<1> HIDE DEF q
<1>9. /\ Head(q) = q[1] /\ 1 \in DOMAIN q /\ q[1] \in EventRecords /\ Tail(q) \in Seq(EventRecords)
      /\ \A i \in DOMAIN Tail(q) : i + 1 \in DOMAIN q /\ Tail(q)[i] = q[i + 1] /\ i + 1 # 1 /\ i \in Int
  BY <1>1
<1>10. {Tail(q)[i].fd : i \in DOMAIN Tail(q)} \subseteq EventFds(t) \ {Head(q).fd}
  BY <1>3, <1>6, <1>9
<1>11. \A i, j \in DOMAIN Tail(q) : i # j => Tail(q)[i].fd # Tail(q)[j].fd
  BY <1>3, <1>9
<1>12. events' \in [Threads -> Seq(EventRecords)]
  BY <1>1, <1>2, <1>9
<1>13. Head(q) \in EventRecords /\ Head(q).fd \in EventFds(t)
  BY <1>6, <1>9
<1> QED
  BY <1>0, <1>4, <1>5, <1>7, <1>8, <1>10, <1>11, <1>12, <1>13 DEF q

LEMMA HandleHangupGeneral ==
  ASSUME GeneralInv, NEW t \in Threads, HandleHangup(t)
  PROVE  TypeOK' /\ Step(t) /\ OwnedInv(t)' /\ CountInv(t)' /\ SelectInv(t)'
<1> DEFINE fd == Head(events[t]).fd
<1>0. /\ TypeOK /\ TableInv /\ OwnedInv(t) /\ settings.epoll /\ pc[t] = "scan"
      /\ HasEvent(t) /\ NextEvent(t) /\ Closed(t, fd)
      /\ UNCHANGED <<peer, pc, clients, return_stats>>
      /\ UNCHANGED <<settings, client, readFD_epoll, s, readFD, writeFD, nfds, ret, c,
                     bRunning, closing, sock>>
  BY DEF GeneralInv, HandleHangup, HasEvent, NextEvent
<1>1. /\ events' \in [Threads -> Seq(EventRecords)]
      /\ \A u \in Threads : u # t => events'[u] = events[u]
      /\ EventFds(t)' \subseteq EventFds(t) \ {fd}
      /\ \A i, j \in DOMAIN events'[t] : i # j => events'[t][i].fd # events'[t][j].fd
      /\ Cardinality(OpenOnes(t) \cup EventFds(t)) <= clients[t]
      /\ OpenOnes(t) \cup EventFds(t) \in SUBSET Fds
      /\ clients[t] \in 0 .. Connections /\ Connections \in Nat \ {0}
      /\ client[t] \in [Slots -> MaybeFds]
  BY <1>0, NextEventFacts
<1> HIDE DEF fd
<1>2. FilesOK' /\ TableInv' /\ \A u \in Threads : OwnsLess(u)
  BY <1>0, ClosedEffect
<1>3. TypeOK'
  BY <1>0, <1>1, <1>2, TypeNext DEF TypeOK
<1>4. Step(t)
  BY <1>0, <1>1, <1>2 DEF Step, Unmoved
<1>5. OwnedInv(t)'
  BY <1>0, <1>2, OwnedKept
<1>6. Cardinality(OpenOnes(t)' \cup EventFds(t)') <= clients[t]
  <2>1. OpenOnes(t)' \subseteq OpenOnes(t)
    BY <1>0, <1>2, OpenOnesShrink
  <2>2. OpenOnes(t)' \cup EventFds(t)' \in SUBSET (OpenOnes(t) \cup EventFds(t))
    BY <1>1, <2>1
  <2>3. clients[t] \in Int
    BY <1>1
  <2> QED
    BY <1>0, <1>1, <2>2, <2>3, SmallerCount
<1>7. CountInv(t)'
  BY <1>0, <1>1, <1>6, SameSettings DEF CountInv
<1> QED
  BY <1>0, <1>3, <1>4, <1>5, <1>7 DEF SelectInv

LEMMA HandleEventGeneral ==
  ASSUME GeneralInv, NEW t \in Threads, HandleEvent(t)
  PROVE  TypeOK' /\ Step(t) /\ OwnedInv(t)' /\ CountInv(t)' /\ SelectInv(t)'
<1> DEFINE e == Head(events[t])
           fd == e.fd
<1>0. /\ TypeOK /\ TableInv /\ OwnedInv(t) /\ settings.epoll /\ pc[t] = "scan"
      /\ HasEvent(t) /\ NextEvent(t)
      /\ UNCHANGED <<settings, client, readFD_epoll, s, readFD, writeFD, nfds, ret, c,
                     bRunning, closing, sock>>
  BY DEF GeneralInv, HandleEvent, HasEvent, NextEvent
<1>1. /\ events' \in [Threads -> Seq(EventRecords)]
      /\ fd \in EventFds(t)
      /\ \A u \in Threads : u # t => events'[u] = events[u]
      /\ EventFds(t)' \subseteq EventFds(t) \ {fd}
      /\ \A i, j \in DOMAIN events'[t] : i # j => events'[t][i].fd # events'[t][j].fd
      /\ Cardinality(OpenOnes(t) \cup EventFds(t)) <= clients[t]
      /\ OpenOnes(t) \cup EventFds(t) \in SUBSET Fds
      /\ clients[t] \in 0 .. Connections /\ Connections \in Nat \ {0}
      /\ client[t] \in [Slots -> MaybeFds]
  BY <1>0, NextEventFacts
<1>2. PICK result \in IF e.in THEN RecvResults(t, fd) ELSE {"none"} :
        /\ Drained(t, fd, result)
        /\ \/ result = "closed" /\ RemoveFromEpoll(t, fd)
           \/ IsFatal(t, result) /\ Abandon(t) /\ UNCHANGED <<files, clients, return_stats>>
           \/ /\ UNCHANGED pc \/ Abandon(t)
              /\ UNCHANGED <<files, clients, return_stats>>
  BY DEF HandleEvent
<1>3. peer' \in [Threads -> [Slots -> Peers]]
  BY <1>0, <1>2, DrainedType
<1> HIDE DEF fd, e
<1>4. IsFiniteSet(OpenOnes(t) \cup EventFds(t)) /\ Cardinality(OpenOnes(t) \cup EventFds(t)) \in Nat
  BY <1>0, <1>1, OpenOnesFinite
<1>5. CASE RemoveFromEpoll(t, fd)
  <2>1. FilesOK' /\ TableInv' /\ (\A u \in Threads : OwnsLess(u)) /\ Owned(t)' = Owned(t) \ {fd}
    BY <1>0, <1>5, ClosedEffect DEF RemoveFromEpoll
  <2> DEFINE Left == (OpenOnes(t) \cup EventFds(t)) \ {fd}
  <2>2. OpenOnes(t)' \cup EventFds(t)' \subseteq Left
    <3>1. OpenOnes(t)' \subseteq OpenOnes(t)
      BY <1>0, <2>1, OpenOnesShrink
    <3>2. OpenOnes(t)' \subseteq Owned(t)'
      BY <1>0, OpenOnesNext
    <3> QED
      BY <1>1, <2>1, <3>1, <3>2
  <2>3. Cardinality(Left) = Cardinality(OpenOnes(t) \cup EventFds(t)) - 1
    BY <1>1, <1>4, FS_RemoveElement
  <2> HIDE DEF Left
  <2>4. Cardinality(Left) <= clients[t] - 1 /\ clients[t] >= 1
    <3>1. Cardinality(OpenOnes(t) \cup EventFds(t)) # 0
      BY <1>1, <1>4, FS_EmptySet
    <3> QED
      BY <1>1, <1>4, <2>3, <3>1
  <2>5. Left \in SUBSET Fds
    BY <1>1 DEF Left
  <2>6. /\ Cardinality(OpenOnes(t)' \cup EventFds(t)') <= clients[t] - 1
        /\ Cardinality(OpenOnes(t)') <= clients[t] - 1
    <3>1. OpenOnes(t)' \cup EventFds(t)' \in SUBSET Left /\ OpenOnes(t)' \in SUBSET Left
          /\ clients[t] - 1 \in Int
      BY <1>1, <2>2
    <3> QED
      BY <1>0, <2>4, <2>5, <3>1, SmallerCount
  <2>7. /\ clients' \in [Threads -> 0 .. Connections] /\ clients'[t] = clients[t] - 1
        /\ \A u \in Threads : u # t => clients'[u] = clients[u]
    <3>1. clients' = [clients EXCEPT ![t] = @ - 1]
      BY <1>5 DEF RemoveFromEpoll
    <3>2. clients \in [Threads -> 0 .. Connections]
      BY <1>0 DEF TypeOK
    <3>3. clients[t] - 1 \in 0 .. Connections
      BY <1>1, <2>4
    <3> QED
      BY <3>1, <3>2, <3>3
  <2>8. /\ pc' \in [Threads -> PCs] /\ pc'[t] \in {"scan", "abandon"}
        /\ \A u \in Threads : u # t => pc'[u] = pc[u]
    BY <1>0, <1>5 DEF RemoveFromEpoll, LeaveLoop, Abandon, Goto, TypeOK, PCs
  <2>9. return_stats' \in [Threads -> BOOLEAN]
    <3>1. LeaveLoop(t) \/ UNCHANGED return_stats
      BY <1>5 DEF RemoveFromEpoll
    <3> QED
      BY <1>0, <3>1, LeaveLoopType DEF TypeOK
  <2>10. TypeOK'
    BY <1>0, <1>1, <1>3, <2>1, <2>7, <2>8, <2>9, TypeNext DEF TypeOK
  <2>11. Step(t)
    BY <1>0, <1>1, <2>1, <2>7, <2>8 DEF Step, Unmoved
  <2>12. OwnedInv(t)'
    BY <1>0, <2>1, <2>8, OwnedKept
  <2>13. CountInv(t)'
    BY <1>0, <1>1, <2>6, <2>7, <2>8, SameSettings DEF CountInv
  <2> QED
    BY <1>0, <2>8, <2>10, <2>11, <2>12, <2>13 DEF SelectInv
<1>6. CASE Abandon(t) /\ UNCHANGED <<files, clients, return_stats>>
  <2>1. FilesOK' /\ TableInv' /\ \A u \in Threads : OwnsSame(u)
    BY <1>0, <1>6, FilesKept
  <2>2. OwnedInv(t)' /\ CountInv(t)' /\ SelectInv(t)' /\ pc' \in [Threads -> PCs]
    BY <1>0, <1>6, <2>1, GivesUpGeneral DEF OwnsSame
  <2>3. TypeOK'
    BY <1>0, <1>1, <1>3, <1>6, <2>1, <2>2, TypeNext DEF TypeOK
  <2>4. Step(t)
    BY <1>0, <1>1, <1>6, <2>1 DEF Step, Unmoved, OwnsSame, TypeOK, Abandon, Goto
  <2> QED
    BY <2>2, <2>3, <2>4
<1>7. CASE UNCHANGED pc /\ UNCHANGED <<files, clients, return_stats>>
  <2>1. FilesOK' /\ TableInv' /\ \A u \in Threads : OwnsSame(u) /\ OpenOnes(u)' = OpenOnes(u)
    BY <1>0, <1>7, FilesKept
  <2>2. TypeOK'
    BY <1>0, <1>1, <1>3, <1>7, <2>1, TypeNext DEF TypeOK
  <2>3. Step(t)
    BY <1>0, <1>1, <1>7, <2>1 DEF Step, Unmoved, OwnsSame
  <2>4. OwnedInv(t)'
    BY <1>0, <1>7, <2>1, OwnedKept DEF OwnsSame
  <2>5. Cardinality(OpenOnes(t)' \cup EventFds(t)') <= clients[t]
    <3>1. OpenOnes(t)' \cup EventFds(t)' \in SUBSET (OpenOnes(t) \cup EventFds(t))
      BY <1>1, <2>1
    <3> QED
      BY <1>0, <1>1, <3>1, SmallerCount
  <2>6. CountInv(t)'
    BY <1>0, <1>1, <1>7, <2>5, SameSettings DEF CountInv
  <2> QED
    BY <1>0, <1>7, <2>2, <2>3, <2>4, <2>6 DEF SelectInv
<1> QED
  BY <1>2, <1>5, <1>6, <1>7

-----------------------------------------------------------------------------
(* The loop with select.                                                   *)
LEMMA SelectFacts ==
  ASSUME GeneralInv, NEW t \in Threads, InLoop(t), ~settings.epoll
  PROVE  /\ TypeOK /\ TableInv /\ OwnedInv(t)
         /\ Connections \in Nat \ {0} /\ clients[t] \in 0 .. Connections
         /\ client[t] \in [Slots -> MaybeFds]
         /\ InUse(t) \in SUBSET Fds /\ OpenOnes(t) \subseteq InUse(t) /\ INVALID \notin InUse(t)
         /\ readFD[t] \subseteq InUse(t) /\ writeFD[t] \subseteq InUse(t)
         /\ t \in Servers => writeFD[t] = {}
         /\ IsFiniteSet(InUse(t)) /\ Cardinality(InUse(t)) \in 0 .. clients[t]
<1>0. TypeOK /\ TableInv /\ OwnedInv(t) /\ SelectInv(t) /\ pc[t] \in {"wait", "scan"}
  BY DEF GeneralInv, InLoop
<1>1. /\ clients[t] \in 0 .. Connections /\ client[t] \in [Slots -> MaybeFds]
      /\ InUse(t) \subseteq MaybeFds /\ Connections \in Nat \ {0}
  BY <1>0, Counted
<1>2. /\ OpenOnes(t) \subseteq InUse(t) /\ INVALID \notin InUse(t)
      /\ readFD[t] \subseteq InUse(t) /\ writeFD[t] \subseteq InUse(t)
      /\ t \in Servers => writeFD[t] = {}
  BY <1>0 DEF SelectInv
<1>3. IsFiniteSet(InUse(t)) /\ Cardinality(InUse(t)) <= clients[t]
  <2>1. clients[t] \in Nat
    BY <1>1
  <2> QED
    BY <2>1, ImageCount, Zenon DEF InUse
<1>4. Cardinality(InUse(t)) \in Nat
  BY <1>3, FS_CardinalityType
<1>5. InUse(t) \in SUBSET Fds
  BY <1>1, <1>2 DEF MaybeFds
<1>6. Cardinality(InUse(t)) \in 0 .. clients[t]
  BY <1>1, <1>3, <1>4
<1> QED
  BY <1>0, <1>1, <1>2, <1>3, <1>5, <1>6

LEMMA ScanFacts ==
  ASSUME GeneralInv, NEW t \in Threads, Scanning(t)
  PROVE  /\ pc[t] = "scan" /\ ~settings.epoll /\ InLoop(t)
         /\ c[t] \in 1 .. clients[t] /\ c[t] \in Slots
         /\ ret[t] \in Int /\ ret[t] <= 2 * Connections
         /\ -1 - 2 * (c[t] - 1) - 2 * (Connections - clients[t]) <= ret[t]
         /\ client[t][c[t]] \in InUse(t) /\ client[t][c[t]] \in Fds
<1>0. pc[t] = "scan" /\ ~settings.epoll /\ InLoop(t) /\ c[t] <= clients[t]
  BY DEF Scanning, InLoop
<1>1. /\ TypeOK /\ Connections \in Nat \ {0} /\ clients[t] \in 0 .. Connections
      /\ InUse(t) \in SUBSET Fds
  BY <1>0, SelectFacts
<1>2. c[t] \in 1 .. Connections + 1 /\ ret[t] \in -(2 * Connections + 1) .. 2 * Connections
  BY <1>1 DEF TypeOK
<1>3. c[t] \in 1 .. clients[t] /\ c[t] \in Slots
  BY <1>0, <1>1, <1>2 DEF Slots
<1>4. client[t][c[t]] \in InUse(t)
  BY <1>3 DEF InUse
<1>5. -1 - 2 * (c[t] - 1) - 2 * (Connections - clients[t]) <= ret[t]
  BY <1>0 DEF GeneralInv, SelectInv
<1> QED
  BY <1>0, <1>1, <1>2, <1>3, <1>4, <1>5

LEMMA SelectGeneral ==
  ASSUME GeneralInv, NEW t \in Threads, Select(t)
  PROVE  TypeOK' /\ Step(t) /\ OwnedInv(t)' /\ CountInv(t)' /\ SelectInv(t)'
<1> USE DEF endVars, statsVars
<1>0. /\ ~settings.epoll /\ pc[t] = "wait"
      /\ UNCHANGED <<settings, files, peer, client, clients, readFD_epoll, s, nfds, events, endVars>>
  BY DEF Select
<1>1. /\ TypeOK /\ TableInv /\ OwnedInv(t)
      /\ Connections \in Nat \ {0} /\ clients[t] \in 0 .. Connections
      /\ client[t] \in [Slots -> MaybeFds]
      /\ InUse(t) \in SUBSET Fds /\ OpenOnes(t) \subseteq InUse(t) /\ INVALID \notin InUse(t)
      /\ readFD[t] \subseteq InUse(t) /\ writeFD[t] \subseteq InUse(t)
      /\ t \in Servers => writeFD[t] = {}
      /\ IsFiniteSet(InUse(t)) /\ Cardinality(InUse(t)) \in 0 .. clients[t]
  BY <1>0, SelectFacts DEF InLoop
<1>2. FilesOK' /\ TableInv' /\ \A u \in Threads : OwnsSame(u) /\ OpenOnes(u)' = OpenOnes(u)
  BY <1>0, <1>1, FilesKept
<1>3. InUse(t)' = InUse(t)
  BY <1>0 DEF InUse
<1>4. CASE Asked(t) \subseteq DOMAIN Files(t)
  <2> DEFINE r == {fd \in Asked(t) \cap readFD[t] : IsSocket(t, fd) => Readable(t, fd)}
  <2>1. PICK w \in SUBSET (Asked(t) \cap writeFD[t]) :
           /\ readFD' = [readFD EXCEPT ![t] = r]
           /\ writeFD' = [writeFD EXCEPT ![t] = w]
           /\ ret' = [ret EXCEPT ![t] = Cardinality(r) + Cardinality(w)]
           /\ c' = [c EXCEPT ![t] = 1]
           /\ Goto(t, "scan")
    BY <1>4 DEF Select
  <2>2. r \in SUBSET InUse(t) /\ w \in SUBSET InUse(t) /\ (t \in Servers => w = {})
    BY <1>1
  <2> HIDE DEF r
  <2>3. Cardinality(r) \in 0 .. clients[t] /\ Cardinality(w) \in 0 .. clients[t]
    <3>1. /\ Cardinality(r) \in Nat /\ Cardinality(w) \in Nat
          /\ Cardinality(r) <= Cardinality(InUse(t)) /\ Cardinality(w) <= Cardinality(InUse(t))
      BY <1>1, <2>2, FS_Subset, FS_CardinalityType
    <3> QED
      BY <1>1, <3>1
  <2>4. Cardinality(r) + Cardinality(w) \in 0 .. 2 * Connections
    BY <1>1, <2>3
  <2>5. /\ ret' \in [Threads -> -(2 * Connections + 1) .. 2 * Connections]
        /\ ret'[t] \in 0 .. 2 * Connections
        /\ \A u \in Threads : u # t => ret'[u] = ret[u]
    BY <1>1, <2>1, <2>4 DEF TypeOK
  <2>6. /\ readFD' \in [Threads -> SUBSET Fds] /\ writeFD' \in [Threads -> SUBSET Fds]
        /\ readFD'[t] = r /\ writeFD'[t] = w
        /\ \A u \in Threads : u # t => readFD'[u] = readFD[u] /\ writeFD'[u] = writeFD[u]
    BY <1>1, <2>1, <2>2 DEF TypeOK
  <2>7. /\ c' \in [Threads -> 1 .. Connections + 1] /\ c'[t] = 1
        /\ \A u \in Threads : u # t => c'[u] = c[u]
    BY <1>1, <2>1 DEF TypeOK
  <2>8. /\ pc' \in [Threads -> PCs] /\ pc'[t] = "scan"
        /\ \A u \in Threads : u # t => pc'[u] = pc[u]
    BY <1>1, <2>1 DEF TypeOK, PCs, Goto
  <2>9. TypeOK'
    BY <1>0, <1>1, <1>2, <2>5, <2>6, <2>7, <2>8, TypeNext DEF TypeOK
  <2>10. Step(t)
    BY <1>0, <1>1, <1>2, <2>5, <2>6, <2>7, <2>8 DEF Step, Unmoved, OwnsSame
  <2>11. OwnedInv(t)'
    BY <1>0, <1>1, <1>2, <2>8, OwnedKept DEF OwnsSame
  <2>12. CountInv(t)'
    BY <1>0, <1>1, <2>8, SameSettings DEF CountInv
  <2>13. SelectInv(t)'
    BY <1>0, <1>1, <1>2, <1>3, <2>2, <2>5, <2>6, <2>7, <2>8, SameSettings DEF SelectInv
  <2> QED
    BY <2>9, <2>10, <2>11, <2>12, <2>13
<1>5. CASE ~(Asked(t) \subseteq DOMAIN Files(t))
  <2>1. /\ ret' = [ret EXCEPT ![t] = -1] /\ c' = [c EXCEPT ![t] = 1]
        /\ IF t \in Servers THEN Goto(t, "scan") ELSE Abandon(t)
        /\ UNCHANGED <<readFD, writeFD>>
    BY <1>5 DEF Select
  <2>2. /\ ret' \in [Threads -> -(2 * Connections + 1) .. 2 * Connections] /\ ret'[t] = -1
        /\ \A u \in Threads : u # t => ret'[u] = ret[u]
    BY <1>1, <2>1 DEF TypeOK
  <2>3. /\ c' \in [Threads -> 1 .. Connections + 1] /\ c'[t] = 1
        /\ \A u \in Threads : u # t => c'[u] = c[u]
    BY <1>1, <2>1 DEF TypeOK
  <2>4. /\ pc' \in [Threads -> PCs] /\ \A u \in Threads : u # t => pc'[u] = pc[u]
    BY <1>1, <2>1 DEF TypeOK, PCs, Goto, Abandon
  <2>5. TypeOK'
    BY <1>0, <1>1, <1>2, <2>1, <2>2, <2>3, <2>4, TypeNext DEF TypeOK
  <2>6. Step(t)
    BY <1>0, <1>1, <1>2, <2>1, <2>2, <2>3, <2>4 DEF Step, Unmoved, OwnsSame
  <2>7. CASE Abandon(t)
    BY <1>0, <1>1, <1>2, <2>5, <2>6, <2>7, GivesUpGeneral DEF OwnsSame
  <2>8. CASE Goto(t, "scan")
    <3>1. pc'[t] = "scan"
      BY <1>1, <2>8 DEF Goto, TypeOK
    <3>2. OwnedInv(t)'
      BY <1>0, <1>1, <1>2, <3>1, OwnedKept DEF OwnsSame
    <3>3. CountInv(t)'
      BY <1>0, <1>1, <3>1, SameSettings DEF CountInv
    <3>4. SelectInv(t)'
      <4>1. c'[t] <= clients[t] + 1 /\ -1 - 2 * (c'[t] - 1) - 2 * (Connections - clients[t]) <= ret'[t]
        BY <1>1, <2>2, <2>3
      <4> QED
        BY <1>0, <1>1, <1>2, <1>3, <2>1, <3>1, <4>1, SameSettings DEF SelectInv
    <3> QED
      BY <2>5, <2>6, <3>2, <3>3, <3>4
  <2> QED
    BY <2>1, <2>7, <2>8
<1> QED
  BY <1>4, <1>5

\* A step of the scan that closes nothing and goes on to the next socket.
LEMMA ScansOnGeneral ==
  ASSUME GeneralInv, NEW t \in Threads, Scanning(t), NEW r, NEW x, NEW w,
         readFD' = [readFD EXCEPT ![t] = r], writeFD' = [writeFD EXCEPT ![t] = w],
         ret' = [ret EXCEPT ![t] = x],
         r \in SUBSET InUse(t), w \in SUBSET InUse(t), t \in Servers => w = {},
         x \in Int, ret[t] - 2 <= x, x <= ret[t],
         c' = [c EXCEPT ![t] = @ + 1],
         UNCHANGED pc \/ Abandon(t), peer' \in [Threads -> [Slots -> Peers]],
         UNCHANGED <<files, client, clients, nfds, return_stats>>, ScanUnchanged
  PROVE  TypeOK' /\ Step(t) /\ OwnedInv(t)' /\ CountInv(t)' /\ SelectInv(t)'
<1> USE DEF ScanUnchanged
<1>0. /\ pc[t] = "scan" /\ ~settings.epoll /\ InLoop(t)
      /\ c[t] \in 1 .. clients[t]
      /\ ret[t] \in Int /\ ret[t] <= 2 * Connections
      /\ -1 - 2 * (c[t] - 1) - 2 * (Connections - clients[t]) <= ret[t]
  BY ScanFacts
<1>1. /\ TypeOK /\ TableInv /\ OwnedInv(t)
      /\ Connections \in Nat \ {0} /\ clients[t] \in 0 .. Connections
      /\ client[t] \in [Slots -> MaybeFds]
      /\ InUse(t) \in SUBSET Fds /\ OpenOnes(t) \subseteq InUse(t) /\ INVALID \notin InUse(t)
  BY <1>0, SelectFacts
<1>2. FilesOK' /\ TableInv' /\ \A u \in Threads : OwnsSame(u) /\ OpenOnes(u)' = OpenOnes(u)
  BY <1>1, FilesKept
<1>3. InUse(t)' = InUse(t)
  BY DEF InUse
<1>4. /\ readFD' \in [Threads -> SUBSET Fds] /\ writeFD' \in [Threads -> SUBSET Fds]
      /\ readFD'[t] = r /\ writeFD'[t] = w
      /\ \A u \in Threads : u # t => readFD'[u] = readFD[u] /\ writeFD'[u] = writeFD[u]
  BY <1>1 DEF TypeOK
<1>5. /\ c' \in [Threads -> 1 .. Connections + 1] /\ c'[t] = c[t] + 1
      /\ \A u \in Threads : u # t => c'[u] = c[u]
  <2>1. c[t] + 1 \in 1 .. Connections + 1
    BY <1>0, <1>1
  <2> QED
    BY <1>1, <2>1 DEF TypeOK
<1>6. -1 - 2 * ((c[t] + 1) - 1) - 2 * (Connections - clients[t]) <= x
  BY <1>0, <1>1
<1>7. x \in -(2 * Connections + 1) .. 2 * Connections
  BY <1>0, <1>1, <1>6
<1>8. /\ ret' \in [Threads -> -(2 * Connections + 1) .. 2 * Connections] /\ ret'[t] = x
      /\ \A u \in Threads : u # t => ret'[u] = ret[u]
  BY <1>1, <1>7 DEF TypeOK
<1>9. /\ pc' \in [Threads -> PCs] /\ \A u \in Threads : u # t => pc'[u] = pc[u]
  BY <1>1 DEF TypeOK, PCs, Goto, Abandon
<1>10. TypeOK'
  BY <1>1, <1>2, <1>4, <1>5, <1>8, <1>9, TypeNext DEF TypeOK
<1>11. Step(t)
  BY <1>1, <1>2, <1>4, <1>5, <1>8, <1>9 DEF Step, Unmoved, OwnsSame
<1>12. CASE Abandon(t)
  BY <1>0, <1>1, <1>2, <1>10, <1>11, <1>12, GivesUpGeneral DEF OwnsSame
<1>13. CASE UNCHANGED pc
  <2>1. OwnedInv(t)'
    BY <1>0, <1>1, <1>2, <1>13, OwnedKept DEF OwnsSame
  <2>2. CountInv(t)'
    BY <1>0, <1>1, <1>13, SameSettings DEF CountInv
  <2>3. c[t] + 1 <= clients[t] + 1
    BY <1>0, <1>1
  <2>4. SelectInv(t)'
    BY <1>0, <1>1, <1>2, <1>3, <1>4, <1>5, <1>6, <1>8, <1>13, <2>3, SameSettings DEF SelectInv
  <2> QED
    BY <1>10, <1>11, <2>1, <2>2, <2>4
<1> QED
  BY <1>12, <1>13

LEMMA SkipRestGeneral ==
  ASSUME GeneralInv, NEW t \in Threads, SkipRest(t)
  PROVE  TypeOK' /\ Step(t) /\ OwnedInv(t)' /\ CountInv(t)' /\ SelectInv(t)'
<1> DEFINE fd == client[t][c[t]]
           r == readFD[t] \cup {fd}
           w == Watched(t, fd, writeFD[t])
<1>0. Scanning(t) /\ ret[t] = 0
  BY DEF SkipRest
<1>1. pc[t] = "scan" /\ ~settings.epoll /\ InLoop(t) /\ fd \in InUse(t) /\ ret[t] \in Int
  BY <1>0, ScanFacts
<1>2. /\ TypeOK /\ readFD[t] \subseteq InUse(t) /\ writeFD[t] \subseteq InUse(t)
      /\ t \in Servers => writeFD[t] = {}
  BY <1>1, SelectFacts
<1>3. r \in SUBSET InUse(t) /\ w \in SUBSET InUse(t) /\ (t \in Servers => w = {})
  BY <1>1, <1>2, Sizes DEF Watched
<1>4. /\ readFD' = [readFD EXCEPT ![t] = r] /\ writeFD' = [writeFD EXCEPT ![t] = w]
      /\ ret' = [ret EXCEPT ![t] = ret[t]]
      /\ c' = [c EXCEPT ![t] = @ + 1]
      /\ UNCHANGED pc /\ UNCHANGED <<files, client, clients, nfds, return_stats>> /\ ScanUnchanged
      /\ peer' \in [Threads -> [Slots -> Peers]]
  BY <1>2 DEF SkipRest, TypeOK
<1> HIDE DEF fd, r, w
<1>5. PICK x : x = ret[t]
  OBVIOUS
<1>6. x \in Int /\ ret[t] - 2 <= x /\ x <= ret[t] /\ ret' = [ret EXCEPT ![t] = x]
  BY <1>1, <1>4, <1>5
<1> QED
  BY <1>0, <1>3, <1>4, <1>6, ScansOnGeneral

LEMMA WriteToGeneral ==
  ASSUME GeneralInv, NEW t \in Threads, Scanning(t), NEW fd, fd = client[t][c[t]],
         readFD' = [readFD EXCEPT ![t] = @ \cup {fd}], WriteTo(t, fd),
         peer' \in [Threads -> [Slots -> Peers]],
         UNCHANGED <<files, client, clients, nfds, return_stats>>, ScanUnchanged
  PROVE  TypeOK' /\ Step(t) /\ OwnedInv(t)' /\ CountInv(t)' /\ SelectInv(t)'
<1>1. pc[t] = "scan" /\ ~settings.epoll /\ InLoop(t) /\ fd \in InUse(t) /\ ret[t] \in Int
  BY ScanFacts
<1>2. /\ TypeOK /\ readFD[t] \subseteq InUse(t) /\ writeFD[t] \subseteq InUse(t)
      /\ t \in Servers => writeFD[t] = {}
  BY <1>1, SelectFacts
<1>3. readFD[t] \cup {fd} \in SUBSET InUse(t)
  BY <1>1, <1>2
<1>4. c' = [c EXCEPT ![t] = @ + 1]
  BY DEF WriteTo
<1>5. CASE fd \in writeFD[t]
  <2> DEFINE x == IF fd \in readFD[t] THEN ret[t] - 2 ELSE ret[t] - 1
  <2>1. ret' = [ret EXCEPT ![t] = x] /\ UNCHANGED writeFD /\ (UNCHANGED pc \/ Abandon(t))
    BY <1>5 DEF WriteTo
  <2>2. writeFD' = [writeFD EXCEPT ![t] = writeFD[t]]
    BY <1>2, <2>1 DEF TypeOK
  <2>3. x \in Int /\ ret[t] - 2 <= x /\ x <= ret[t]
    BY <1>1
  <2> HIDE DEF x
  <2> QED
    BY <1>2, <1>3, <1>4, <2>1, <2>2, <2>3, ScansOnGeneral
<1>6. CASE fd \notin writeFD[t]
  <2> DEFINE x == IF fd \in readFD[t] THEN ret[t] - 1 ELSE ret[t]
             w == Watched(t, fd, writeFD[t])
  <2>1. ret' = [ret EXCEPT ![t] = x] /\ writeFD' = [writeFD EXCEPT ![t] = w] /\ UNCHANGED pc
    BY <1>6 DEF WriteTo
  <2>2. w \in SUBSET InUse(t) /\ (t \in Servers => w = {})
    BY <1>1, <1>2, Sizes DEF Watched
  <2>3. x \in Int /\ ret[t] - 2 <= x /\ x <= ret[t]
    BY <1>1
  <2> HIDE DEF x, w
  <2> QED
    BY <1>3, <1>4, <2>1, <2>2, <2>3, ScansOnGeneral
<1> QED
  BY <1>5, <1>6

\* What move_down() leaves in use: everything but the one at index k.
LEMMA MovedDownFacts ==
  ASSUME TypeOK, NEW a \in [Slots -> MaybeFds], NEW n \in 1 .. Connections, NEW k \in 1 .. n
  PROVE  /\ MovedDown(a, k, n) \in [Slots -> MaybeFds]
         /\ \A i \in 1 .. (k - 1) : MovedDown(a, k, n)[i] = a[i]
         /\ \A i \in k .. (n - 1) : MovedDown(a, k, n)[i] = a[i + 1]
<1>1. Connections \in Nat \ {0} /\ DOMAIN a = Slots /\ INVALID \in MaybeFds
  BY SettingsShape DEF MaybeFds
<1>2. \A i \in k .. (n - 1) : i \in Slots /\ i + 1 \in Slots
  BY <1>1 DEF Slots
<1>3. \A i \in 1 .. (k - 1) : i \in Slots /\ i \notin k .. (n - 1) /\ i # k
  BY <1>1 DEF Slots
<1> QED
  BY <1>1, <1>2, <1>3 DEF MovedDown

LEMMA RemoveFromSelectGeneral ==
  ASSUME GeneralInv, NEW t \in Threads, Scanning(t), NEW fd, fd = client[t][c[t]],
         RemoveFromSelect(t, fd), peer' \in [Threads -> [Slots -> Peers]], ScanUnchanged
  PROVE  TypeOK' /\ Step(t) /\ OwnedInv(t)' /\ CountInv(t)' /\ SelectInv(t)'
<1> USE DEF ScanUnchanged
<1>0. /\ pc[t] = "scan" /\ ~settings.epoll /\ InLoop(t)
      /\ c[t] \in 1 .. clients[t]
      /\ ret[t] \in Int /\ ret[t] <= 2 * Connections
      /\ -1 - 2 * (c[t] - 1) - 2 * (Connections - clients[t]) <= ret[t]
  BY ScanFacts
<1>1. /\ TypeOK /\ TableInv /\ OwnedInv(t)
      /\ Connections \in Nat \ {0} /\ clients[t] \in 0 .. Connections
      /\ client[t] \in [Slots -> MaybeFds]
      /\ InUse(t) \in SUBSET Fds /\ OpenOnes(t) \subseteq InUse(t) /\ INVALID \notin InUse(t)
      /\ readFD[t] \subseteq InUse(t) /\ writeFD[t] \subseteq InUse(t)
      /\ t \in Servers => writeFD[t] = {}
  BY <1>0, SelectFacts
<1> DEFINE k == c[t]
           n == clients[t]
           a == MovedDown(client[t], k, n)
           x == ret[t] - BitsOf(t, fd)
           used == {a[i] : i \in 1 .. (n - 1)}
<1>2. n \in 1 .. Connections /\ k \in 1 .. n
  BY <1>0, <1>1
<1>3. /\ a \in [Slots -> MaybeFds]
      /\ \A i \in 1 .. (k - 1) : a[i] = client[t][i]
      /\ \A i \in k .. (n - 1) : a[i] = client[t][i + 1]
  BY <1>1, <1>2, MovedDownFacts
<1>4. x \in Int /\ ret[t] - 2 <= x /\ x <= ret[t]
  BY <1>0 DEF BitsOf
<1>5. /\ Closed(t, fd)
      /\ client' = [client EXCEPT ![t] = a]
      /\ clients' = [clients EXCEPT ![t] = @ - 1]
      /\ ret' = [ret EXCEPT ![t] = x]
      /\ readFD' = [readFD EXCEPT ![t] = @ \ {fd}]
      /\ writeFD' = [writeFD EXCEPT ![t] = @ \ {fd}]
      /\ nfds' = [nfds EXCEPT ![t] = HighestOf({client'[t][i] : i \in 1 .. (clients[t] - 1)}) + 1]
      /\ UNCHANGED c
      /\ IF clients[t] = 1 THEN LeaveLoop(t) ELSE UNCHANGED <<pc, return_stats>>
  BY DEF RemoveFromSelect
<1> HIDE DEF a, x
<1>6. /\ client' \in [Threads -> {<<>>} \cup [Slots -> MaybeFds]]
      /\ client'[t] = a /\ \A u \in Threads : u # t => client'[u] = client[u]
  BY <1>1, <1>3, <1>5 DEF TypeOK
<1>7. /\ clients' \in [Threads -> 0 .. Connections] /\ clients'[t] = n - 1
      /\ \A u \in Threads : u # t => clients'[u] = clients[u]
  <2>1. clients[t] - 1 \in 0 .. Connections
    BY <1>0, <1>1
  <2> QED
    BY <1>1, <1>5, <2>1 DEF TypeOK
<1>8. InUse(t)' = used
  BY <1>6, <1>7 DEF InUse
<1>9. used = {client[t][i] : i \in (1 .. n) \ {k}}
  <2>1. ASSUME NEW i \in 1 .. (n - 1) PROVE \E j \in (1 .. n) \ {k} : a[i] = client[t][j]
    <3>1. CASE i < k
      BY <1>2, <1>3, <3>1
    <3>2. CASE i >= k
      <4>1. i + 1 \in (1 .. n) \ {k} /\ i \in k .. (n - 1)
        BY <1>2, <3>2
      <4> QED
        BY <1>3, <4>1
    <3> QED
      BY <1>2, <3>1, <3>2
  <2>2. ASSUME NEW j \in (1 .. n) \ {k} PROVE \E i \in 1 .. (n - 1) : a[i] = client[t][j]
    <3>1. CASE j < k
      <4>1. j \in 1 .. (k - 1) /\ j \in 1 .. (n - 1)
        BY <1>2, <3>1
      <4> QED
        BY <1>3, <4>1
    <3>2. CASE j > k
      <4>1. j - 1 \in k .. (n - 1) /\ j - 1 \in 1 .. (n - 1) /\ (j - 1) + 1 = j
        BY <1>2, <3>2
      <4>2. a[j - 1] = client[t][(j - 1) + 1]
        BY <1>3, <4>1
      <4> QED
        BY <4>1, <4>2
    <3> QED
      BY <1>2, <3>1, <3>2
  <2> QED
    BY <2>1, <2>2
<1>10. used \subseteq InUse(t) /\ InUse(t) \ {fd} \subseteq used
  BY <1>9 DEF InUse
<1> HIDE DEF used
<1>11. FilesOK' /\ TableInv' /\ (\A u \in Threads : OwnsLess(u)) /\ Owned(t)' = Owned(t) \ {fd}
  BY <1>1, <1>5, ClosedEffect
<1>12. OpenOnes(t)' \subseteq OpenOnes(t) \ {fd}
  <2>1. OpenOnes(t)' \subseteq OpenOnes(t)
    BY <1>11, OpenOnesShrink
  <2>2. OpenOnes(t)' \subseteq Owned(t)'
    BY OpenOnesNext
  <2> QED
    BY <1>11, <2>1, <2>2
<1>13. /\ nfds' \in [Threads -> 0 .. MaxFd + 1]
       /\ \A u \in Threads : u # t => nfds'[u] = nfds[u]
  <2>1. {client'[t][i] : i \in 1 .. (clients[t] - 1)} = used
    BY <1>6 DEF used
  <2>2. HighestOf(used) + 1 \in 0 .. MaxFd + 1
    BY <1>1, <1>10, HighestOfType
  <2> QED
    BY <1>1, <1>5, <2>1, <2>2 DEF TypeOK
<1>14. /\ readFD' \in [Threads -> SUBSET Fds] /\ writeFD' \in [Threads -> SUBSET Fds]
       /\ readFD'[t] = readFD[t] \ {fd} /\ writeFD'[t] = writeFD[t] \ {fd}
       /\ \A u \in Threads : u # t => readFD'[u] = readFD[u] /\ writeFD'[u] = writeFD[u]
  BY <1>1, <1>5 DEF TypeOK
<1>15. -1 - 2 * (c[t] - 1) - 2 * (Connections - (clients[t] - 1)) <= x
  BY <1>0, <1>1, <1>4
<1>16. x \in -(2 * Connections + 1) .. 2 * Connections
  BY <1>0, <1>1, <1>4, <1>15
<1>17. /\ ret' \in [Threads -> -(2 * Connections + 1) .. 2 * Connections] /\ ret'[t] = x
       /\ \A u \in Threads : u # t => ret'[u] = ret[u]
  BY <1>1, <1>5, <1>16 DEF TypeOK
<1>18. /\ pc' \in [Threads -> PCs] /\ \A u \in Threads : u # t => pc'[u] = pc[u]
       /\ pc'[t] = IF n = 1 THEN "abandon" ELSE "scan"
  BY <1>0, <1>1, <1>5 DEF TypeOK, PCs, Goto, Abandon, LeaveLoop
<1>19. return_stats' \in [Threads -> BOOLEAN]
  <2>1. LeaveLoop(t) \/ UNCHANGED return_stats
    BY <1>5
  <2> QED
    BY <1>1, <2>1, LeaveLoopType DEF TypeOK
<1>20. TypeOK'
  BY <1>1, <1>5, <1>6, <1>7, <1>11, <1>13, <1>14, <1>17, <1>18, <1>19, TypeNext DEF TypeOK
<1>21. Step(t)
  BY <1>1, <1>5, <1>6, <1>7, <1>11, <1>13, <1>14, <1>17, <1>18 DEF Step, Unmoved
<1>22. OwnedInv(t)'
  BY <1>0, <1>1, <1>11, <1>18, OwnedKept
<1>23. OpenOnes(t)' \subseteq InUse(t)'
  BY <1>1, <1>8, <1>10, <1>12
<1>24. CASE n = 1
  <2>1. OpenOnes(t)' = {}
    BY <1>8, <1>23, <1>24 DEF used
  <2>2. CountInv(t)'
    BY <1>18, <1>24, <1>7, <2>1, FS_EmptySet DEF CountInv
  <2> QED
    BY <1>18, <1>20, <1>21, <1>22, <1>24, <2>2 DEF SelectInv, InLoop
<1>25. CASE n # 1
  <2>1. CountInv(t)'
    BY <1>0, <1>3, <1>6, <1>18, <1>25, SameSettings DEF CountInv
  <2>2. c[t] <= (clients[t] - 1) + 1
    BY <1>0, <1>1
  <2>3. /\ readFD'[t] \cup writeFD'[t] \subseteq InUse(t)' /\ INVALID \notin InUse(t)'
        /\ t \in Servers => writeFD'[t] = {}
    BY <1>1, <1>8, <1>10, <1>14
  <2>4. SelectInv(t)'
    BY <1>0, <1>5, <1>7, <1>15, <1>17, <1>18, <1>23, <1>25, <2>2, <2>3, SameSettings DEF SelectInv
  <2> QED
    BY <1>20, <1>21, <1>22, <2>1, <2>4
<1> QED
  BY <1>24, <1>25

LEMMA ScanNextGeneral ==
  ASSUME GeneralInv, NEW t \in Threads, ScanNext(t)
  PROVE  TypeOK' /\ Step(t) /\ OwnedInv(t)' /\ CountInv(t)' /\ SelectInv(t)'
<1> DEFINE fd == client[t][c[t]]
<1>0. Scanning(t) /\ ScanUnchanged /\ TypeOK /\ TableInv
  BY DEF ScanNext, GeneralInv
<1>1. PICK result \in IF fd \in readFD[t] THEN RecvResults(t, fd) ELSE {"none"} :
          /\ Drained(t, fd, result)
          /\ \/ RemoveFromSelect(t, fd)
             \/ /\ Abandon(t)
                /\ UNCHANGED <<files, client, clients, readFD, writeFD, nfds, ret, c, return_stats>>
             \/ /\ readFD' = [readFD EXCEPT ![t] = @ \cup {fd}]
                /\ WriteTo(t, fd)
                /\ UNCHANGED <<files, client, clients, nfds, return_stats>>
  BY DEF ScanNext
<1>2. peer' \in [Threads -> [Slots -> Peers]]
  BY <1>0, <1>1, DrainedType
<1>3. pc[t] = "scan"
  BY <1>0 DEF Scanning
<1>4. fd = client[t][c[t]]
  OBVIOUS
<1> HIDE DEF fd
<1>5. CASE RemoveFromSelect(t, fd)
  BY <1>0, <1>2, <1>4, <1>5, RemoveFromSelectGeneral
<1>6. CASE /\ Abandon(t)
           /\ UNCHANGED <<files, client, clients, readFD, writeFD, nfds, ret, c, return_stats>>
  <2>1. settings' = settings
    BY <1>0 DEF ScanUnchanged
  <2>2. FilesOK' /\ TableInv' /\ \A u \in Threads : OwnsSame(u)
    BY <1>0, <1>6, <2>1, FilesKept
  <2>3. OwnedInv(t)' /\ CountInv(t)' /\ SelectInv(t)' /\ pc' \in [Threads -> PCs]
    BY <1>3, <1>6, <2>1, <2>2, GivesUpGeneral DEF OwnsSame
  <2>4. TypeOK'
    BY <1>0, <1>2, <1>6, <2>2, <2>3, TypeNext DEF TypeOK, ScanUnchanged
  <2>5. Step(t)
    BY <1>0, <1>6, <2>2 DEF Step, Unmoved, OwnsSame, TypeOK, Abandon, Goto, ScanUnchanged
  <2> QED
    BY <2>3, <2>4, <2>5
<1>7. CASE /\ readFD' = [readFD EXCEPT ![t] = @ \cup {fd}]
           /\ WriteTo(t, fd)
           /\ UNCHANGED <<files, client, clients, nfds, return_stats>>
  BY <1>0, <1>2, <1>4, <1>7, WriteToGeneral
<1> QED
  BY <1>1, <1>5, <1>6, <1>7

LEMMA EndScanGeneral ==
  ASSUME GeneralInv, NEW t \in Threads, EndScan(t), ~(t \in Clients /\ ret[t] # 0)
  PROVE  TypeOK' /\ Step(t) /\ OwnedInv(t)' /\ CountInv(t)' /\ SelectInv(t)'
<1>0. /\ ~settings.epoll /\ pc[t] = "scan" /\ pc' = [pc EXCEPT ![t] = "wait"]
      /\ UNCHANGED <<settings, files, peer, client, clients, readFD_epoll, s, loopVars, endVars>>
  BY DEF EndScan, Goto
<1> USE DEF loopVars, endVars, statsVars
<1>1. /\ TypeOK /\ TableInv /\ OwnedInv(t)
      /\ client[t] \in [Slots -> MaybeFds]
      /\ OpenOnes(t) \subseteq InUse(t) /\ INVALID \notin InUse(t)
      /\ readFD[t] \subseteq InUse(t) /\ writeFD[t] \subseteq InUse(t)
      /\ t \in Servers => writeFD[t] = {}
  BY <1>0, SelectFacts DEF InLoop
<1>2. FilesOK' /\ TableInv' /\ \A u \in Threads : OwnsSame(u) /\ OpenOnes(u)' = OpenOnes(u)
  BY <1>0, <1>1, FilesKept
<1>3. InUse(t)' = InUse(t)
  BY <1>0 DEF InUse
<1>4. /\ pc' \in [Threads -> PCs] /\ pc'[t] = "wait" /\ \A u \in Threads : u # t => pc'[u] = pc[u]
  BY <1>0, <1>1 DEF TypeOK, PCs
<1>5. TypeOK'
  BY <1>0, <1>1, <1>2, <1>4, TypeNext DEF TypeOK
<1>6. Step(t)
  BY <1>0, <1>2, <1>4 DEF Step, Unmoved, OwnsSame
<1>7. OwnedInv(t)'
  BY <1>0, <1>1, <1>2, <1>4, OwnedKept DEF OwnsSame
<1>8. CountInv(t)'
  BY <1>0, <1>1, <1>4, SameSettings DEF CountInv
<1>9. SelectInv(t)'
  BY <1>0, <1>1, <1>2, <1>3, <1>4 DEF SelectInv
<1> QED
  BY <1>5, <1>6, <1>7, <1>8, <1>9

-----------------------------------------------------------------------------
(* The clean-up and the statistics.                                        *)
LEMMA CleanupListType ==
  ASSUME TypeOK, NEW t \in Threads
  PROVE  /\ CleanupList(t) \in Seq(MaybeFds)
         /\ UsedPart(t) \in Seq(MaybeFds)
         /\ client[t] = <<>> => UsedPart(t) = <<>>
         /\ client[t] # <<>> => /\ Len(UsedPart(t)) = clients[t]
                                /\ \A i \in 1 .. clients[t] : UsedPart(t)[i] = client[t][i]
<1>1. /\ client[t] \in {<<>>} \cup [Slots -> MaybeFds] /\ clients[t] \in 0 .. Connections
      /\ readFD_epoll[t] \in MaybeFds /\ s[t] \in MaybeFds /\ Connections \in Nat \ {0}
  BY SettingsShape DEF TypeOK
<1>2. CASE client[t] = <<>>
  <2>1. UsedPart(t) = <<>>
    BY <1>2 DEF UsedPart
  <2> QED
    BY <1>1, <1>2, <2>1 DEF CleanupList
<1>3. CASE client[t] # <<>>
  <2>1. client[t] \in Seq(MaybeFds) /\ Len(client[t]) = Connections
    BY <1>1, <1>3 DEF Slots
  <2>2. UsedPart(t) = SubSeq(client[t], 1, clients[t])
    BY <1>3 DEF UsedPart
  <2>3. UsedPart(t) \in Seq(MaybeFds)
    BY <1>1, <2>1, <2>2
  <2>4. Len(UsedPart(t)) = clients[t] /\ \A i \in 1 .. clients[t] : UsedPart(t)[i] = client[t][i]
    BY <1>1, <2>1, <2>2
  <2>5. CleanupList(t) \in Seq(MaybeFds)
    BY <1>1, <2>3 DEF CleanupList
  <2> QED
    BY <1>3, <2>3, <2>4, <2>5
<1> QED
  BY <1>2, <1>3

LEMMA EnterCleanupGeneral ==
  ASSUME GeneralInv, NEW t \in Threads, EnterCleanup(t)
  PROVE  TypeOK' /\ Step(t) /\ OwnedInv(t)' /\ CountInv(t)' /\ SelectInv(t)'
<1> USE DEF EnterCleanup, loopVars, statsVars, Goto
<1>0. TypeOK /\ TableInv /\ OwnedInv(t) /\ settings' = settings /\ pc[t] = "abandon"
  BY DEF GeneralInv
<1>1. FilesOK' /\ TableInv' /\ \A u \in Threads : OwnsSame(u) /\ OpenOnes(u)' = OpenOnes(u)
  BY <1>0, FilesKept
<1>2. closing' \in [Threads -> Seq(MaybeFds)] /\ \A u \in Threads : u # t => closing'[u] = closing[u]
  BY <1>0, CleanupListType DEF TypeOK
<1>3. bRunning' \in [Procs -> BOOLEAN]
  BY <1>0 DEF TypeOK
<1>4. pc' \in [Threads -> PCs] /\ pc'[t] = "cleanup" /\ \A u \in Threads : u # t => pc'[u] = pc[u]
  BY <1>0 DEF TypeOK, PCs
<1>5. TypeOK'
  BY <1>0, <1>1, <1>2, <1>3, <1>4, TypeNext DEF TypeOK
<1>6. Step(t)
  BY <1>0, <1>1, <1>2, <1>4 DEF Step, Unmoved, OwnsSame
<1>7. OwnedInv(t)'
  BY <1>0, <1>1, <1>4, OwnedKept DEF OwnsSame
<1> QED
  BY <1>4, <1>5, <1>6, <1>7 DEF CountInv, SelectInv, InLoop

LEMMA CloseNextGeneral ==
  ASSUME GeneralInv, NEW t \in Threads, CloseNext(t)
  PROVE  TypeOK' /\ Step(t) /\ OwnedInv(t)' /\ CountInv(t)' /\ SelectInv(t)'
<1> USE DEF CloseNext, loopVars, statsVars
<1>0. TypeOK /\ TableInv /\ OwnedInv(t) /\ settings' = settings /\ pc[t] = "cleanup" /\ pc' = pc
  BY DEF GeneralInv
<1>1. FilesOK' /\ TableInv' /\ \A u \in Threads : OwnsLess(u)
  BY <1>0, ClosedEffect
<1>2. closing' \in [Threads -> Seq(MaybeFds)] /\ \A u \in Threads : u # t => closing'[u] = closing[u]
  <2>1. closing[t] \in Seq(MaybeFds) /\ closing[t] # <<>>
    BY <1>0 DEF TypeOK
  <2>2. Tail(closing[t]) \in Seq(MaybeFds)
    BY <2>1
  <2> QED
    BY <1>0, <2>2 DEF TypeOK
<1>3. TypeOK'
  BY <1>0, <1>1, <1>2, TypeNext DEF TypeOK
<1>4. Step(t)
  BY <1>0, <1>1, <1>2 DEF Step, Unmoved
<1>5. OwnedInv(t)'
  BY <1>0, <1>1, OwnedKept
<1> QED
  BY <1>0, <1>3, <1>4, <1>5 DEF CountInv, SelectInv, InLoop

LEMMA EndCleanupGeneral ==
  ASSUME GeneralInv, NEW t \in Threads, EndCleanup(t)
  PROVE  TypeOK' /\ Step(t) /\ OwnedInv(t)' /\ CountInv(t)' /\ SelectInv(t)'
<1> USE DEF EndCleanup, loopVars, endVars, statsVars, Goto
<1>0. TypeOK /\ TableInv /\ OwnedInv(t) /\ settings' = settings /\ pc[t] = "cleanup"
  BY DEF GeneralInv
<1>1. FilesOK' /\ TableInv' /\ \A u \in Threads : OwnsSame(u)
  BY <1>0, FilesKept
<1>2. /\ pc' \in [Threads -> PCs] /\ pc'[t] \in {"report", "done"}
      /\ \A u \in Threads : u # t => pc'[u] = pc[u]
  BY <1>0 DEF TypeOK, PCs
<1>3. TypeOK'
  BY <1>0, <1>1, <1>2, TypeNext DEF TypeOK
<1>4. Step(t)
  BY <1>0, <1>1, <1>2 DEF Step, Unmoved, OwnsSame
<1>5. OwnedInv(t)'
  BY <1>0, <1>1, <1>2, OwnedKept DEF OwnsSame
<1> QED
  BY <1>2, <1>3, <1>4, <1>5 DEF CountInv, SelectInv, InLoop

LEMMA OpenStatsGeneral ==
  ASSUME GeneralInv, NEW t \in Threads, OpenStats(t)
  PROVE  TypeOK' /\ Step(t) /\ OwnedInv(t)' /\ CountInv(t)' /\ SelectInv(t)'
<1> USE DEF OpenStats, loopVars, Goto
<1>0. TypeOK /\ TableInv /\ OwnedInv(t) /\ settings' = settings /\ pc[t] = "report"
  BY DEF GeneralInv
<1> DEFINE f == File(t, "stats", 1)
           n == NextFd(t)
<1>1. f \in FileRecords /\ f.owner = t /\ f.kind = "stats" /\ IsFile(Process(t), f)
  BY Sizes DEF File, FileRecords, Kinds, IsFile
<1>2. Opened(t, f) /\ n = NextFd(t) /\ sock' = [sock EXCEPT ![t] = n]
  OBVIOUS
<1> HIDE DEF f, n
<1>3. \A fd \in Owned(t) : Files(t)[fd] # f
  BY <1>0, <1>1 DEF OwnedInv, FileAt
<1>4. /\ n \in Fds /\ FilesOK' /\ TableInv'
      /\ \A u \in Threads : u # t => OwnsSame(u)
  BY <1>0, <1>1, <1>2, <1>3, OpenedEffect
<1>5. /\ pc' \in [Threads -> PCs] /\ pc'[t] = "send" /\ \A u \in Threads : u # t => pc'[u] = pc[u]
  BY <1>0 DEF TypeOK, PCs
<1>6. sock' \in [Threads -> MaybeFds] /\ \A u \in Threads : u # t => sock'[u] = sock[u]
  BY <1>0, <1>2, <1>4 DEF TypeOK, MaybeFds
<1>7. TypeOK'
  BY <1>0, <1>4, <1>5, <1>6, TypeNext DEF TypeOK
<1>8. Step(t)
  BY <1>0, <1>4, <1>5, <1>6 DEF Step, Unmoved, OwnsSame
<1> QED
  BY <1>5, <1>7, <1>8 DEF OwnedInv, CountInv, SelectInv, InLoop

LEMMA CloseStatsGeneral ==
  ASSUME GeneralInv, NEW t \in Threads, CloseStats(t)
  PROVE  TypeOK' /\ Step(t) /\ OwnedInv(t)' /\ CountInv(t)' /\ SelectInv(t)'
<1> USE DEF CloseStats, loopVars, endVars, statsVars, Goto
<1>0. TypeOK /\ TableInv /\ settings' = settings /\ pc[t] = "send"
  BY DEF GeneralInv
<1>1. FilesOK' /\ TableInv' /\ \A u \in Threads : OwnsLess(u)
  BY <1>0, ClosedEffect
<1>2. /\ pc' \in [Threads -> PCs] /\ pc'[t] = "done" /\ \A u \in Threads : u # t => pc'[u] = pc[u]
  BY <1>0 DEF TypeOK, PCs
<1>3. TypeOK'
  BY <1>0, <1>1, <1>2, TypeNext DEF TypeOK
<1>4. Step(t)
  BY <1>0, <1>1, <1>2 DEF Step, Unmoved
<1> QED
  BY <1>2, <1>3, <1>4 DEF OwnedInv, CountInv, SelectInv, InLoop

-----------------------------------------------------------------------------
(* A step of a thread, and the general invariant as a whole.               *)

\* A step of t that does not end its process.
StepOf(t) ==
    \/ CallocFails(t) \/ StartServer(t) \/ StartClient(t)
    \/ AcceptConnections(t) \/ ConnectConnections(t) \/ NoBuffer(t) \/ Watch(t)
    \/ LoopEnds(t) \/ EpollWait(t) \/ EndBatch(t) \/ HandleHangup(t) \/ HandleEvent(t)
    \/ Select(t) \/ SkipRest(t) \/ ScanNext(t)
    \/ EndScan(t) /\ ~(t \in Clients /\ ret[t] # 0)
    \/ EnterCleanup(t) \/ CloseNext(t) \/ EndCleanup(t)
    \/ OpenStats(t) \/ CloseStats(t)

LEMMA StepOrCrash ==
  ASSUME NEW t \in Threads, ThreadNext(t)
  PROVE  StepOf(t) \/ Crash(t)
BY DEF ThreadNext, StepOf, WatchAsserts, EndScan

LEMMA StepGeneral ==
  ASSUME GeneralInv, NEW t \in Threads, StepOf(t)
  PROVE  TypeOK' /\ Step(t) /\ OwnedInv(t)' /\ CountInv(t)' /\ SelectInv(t)'
BY CallocFailsGeneral, StartServerGeneral, StartClientGeneral, AcceptConnectionsGeneral,
   ConnectConnectionsGeneral, NoBufferGeneral, WatchSelectGeneral, WatchEpollGeneral,
   LoopEndsGeneral, EpollWaitGeneral, EndBatchGeneral, HandleHangupGeneral, HandleEventGeneral,
   SelectGeneral, SkipRestGeneral, ScanNextGeneral, EndScanGeneral, EnterCleanupGeneral,
   CloseNextGeneral, EndCleanupGeneral, OpenStatsGeneral, CloseStatsGeneral DEF StepOf

\* Only a thread that is neither done nor dead takes a step.
LEMMA StepsAlive ==
  ASSUME GeneralInv, NEW t \in Threads, StepOf(t)
  PROVE  pc[t] \notin {"done", "dead"} /\ pc'[t] # "dead"
<1>0. TypeOK
  BY DEF GeneralInv
<1> USE DEF Abandon, Goto, TypeOK
<1>1. CASE CallocFails(t) \/ StartServer(t) \/ StartClient(t)
  BY <1>0, <1>1 DEF CallocFails, StartServer, StartClient
<1>2. CASE AcceptConnections(t) \/ ConnectConnections(t)
  BY <1>0, <1>2 DEF AcceptConnections, ConnectConnections, Connected
<1>3. CASE NoBuffer(t) \/ Watch(t)
  BY <1>0, <1>3 DEF NoBuffer, Watch
<1>4. CASE LoopEnds(t) \/ EpollWait(t) \/ EndBatch(t) \/ HandleHangup(t)
  BY <1>0, <1>4 DEF LoopEnds, LeaveLoop, EpollWait, EndBatch, HandleHangup, HasEvent
<1>5. CASE HandleEvent(t)
  BY <1>0, <1>5 DEF HandleEvent, HasEvent, RemoveFromEpoll, LeaveLoop
<1>6. CASE Select(t) \/ SkipRest(t)
  BY <1>0, <1>6 DEF Select, SkipRest, Scanning
<1>7. CASE ScanNext(t)
  BY <1>0, <1>7 DEF ScanNext, Scanning, RemoveFromSelect, LeaveLoop, WriteTo
<1>8. CASE EndScan(t) /\ ~(t \in Clients /\ ret[t] # 0)
  BY <1>0, <1>8 DEF EndScan
<1>9. CASE EnterCleanup(t) \/ CloseNext(t) \/ EndCleanup(t) \/ OpenStats(t) \/ CloseStats(t)
  BY <1>0, <1>9 DEF EnterCleanup, CloseNext, EndCleanup, OpenStats, CloseStats
<1> QED
  BY <1>1, <1>2, <1>3, <1>4, <1>5, <1>6, <1>7, <1>8, <1>9 DEF StepOf

\* The others are as they were.
LEMMA ProcessNext ==
  ASSUME settings' = settings
  PROVE  \A u \in Threads : Process(u)' = Process(u)
BY SameSettings

LEMMA StepKeepsGeneral ==
  ASSUME GeneralInv, NEW t \in Threads, StepOf(t)
  PROVE  GeneralInv'
<1>1. TypeOK' /\ Step(t) /\ OwnedInv(t)' /\ CountInv(t)' /\ SelectInv(t)'
  BY StepGeneral
<1>2. pc[t] \notin {"done", "dead"} /\ pc'[t] # "dead"
  BY StepsAlive
<1>3. ASSUME NEW u \in Threads PROVE OwnedInv(u)' /\ CountInv(u)' /\ SelectInv(u)'
  <2>1. CASE u = t
    BY <1>1, <2>1
  <2>2. CASE u # t
    BY <1>1, <2>2, OtherGeneral DEF Step, GeneralInv
  <2> QED
    BY <2>1, <2>2
<1>4. DeadInv'
  <2> SUFFICES ASSUME NEW u \in Threads, NEW v \in Threads,
                      pc'[u] = "dead", Process(v)' = Process(u)'
               PROVE  pc'[v] = "dead"
    BY DEF DeadInv
  <2>1. u # t /\ pc[u] = "dead"
    BY <1>1, <1>2 DEF Step, Unmoved
  <2>2. Process(v) = Process(u)
    BY <1>1, ProcessNext DEF Step
  <2>3. pc[v] = "dead"
    BY <2>1, <2>2 DEF GeneralInv, DeadInv
  <2> QED
    BY <1>1, <1>2, <2>3 DEF Step, Unmoved
<1> QED
  BY <1>1, <1>3, <1>4 DEF GeneralInv, Step

LEMMA CrashKeepsGeneral ==
  ASSUME GeneralInv, NEW t \in Threads, Crash(t)
  PROVE  GeneralInv'
<1> USE DEF Crash, loopVars, endVars, statsVars
<1>0. TypeOK /\ TableInv /\ DeadInv /\ settings' = settings
  BY DEF GeneralInv
<1>1. FilesOK' /\ TableInv' /\ \A u \in Threads : OwnsSame(u)
  BY <1>0, FilesKept
<1>2. \A u \in Threads : pc'[u] = IF Process(u) = Process(t) THEN "dead" ELSE pc[u]
  OBVIOUS
<1>3. pc' \in [Threads -> PCs]
  BY <1>0 DEF TypeOK, PCs
<1>4. TypeOK'
  BY <1>0, <1>1, <1>3, TypeNext DEF TypeOK
<1>5. ASSUME NEW u \in Threads PROVE OwnedInv(u)' /\ CountInv(u)' /\ SelectInv(u)'
  <2>1. CASE Process(u) = Process(t)
    BY <1>2, <2>1, DeadGeneral
  <2>2. CASE Process(u) # Process(t)
    <3>1. Unmoved(u) /\ OwnsLess(u)
      BY <1>1, <1>2, <2>2 DEF Unmoved, OwnsSame
    <3> QED
      BY <1>0, <3>1, OtherGeneral DEF GeneralInv
  <2> QED
    BY <2>1, <2>2
<1>6. DeadInv'
  <2> SUFFICES ASSUME NEW u \in Threads, NEW v \in Threads,
                      pc'[u] = "dead", Process(v)' = Process(u)'
               PROVE  pc'[v] = "dead"
    BY DEF DeadInv
  <2>1. Process(v) = Process(u)
    BY <1>0, ProcessNext
  <2> QED
    BY <1>0, <1>2, <2>1 DEF DeadInv
<1> QED
  BY <1>1, <1>4, <1>5, <1>6 DEF GeneralInv

\* The peers, and who stops the process, touch no thread and no descriptor.
LEMMA OutsideKeepsGeneral ==
  ASSUME GeneralInv, TypeOK',
         UNCHANGED <<settings, files, pc, client, clients, s, loopVars, closing, sock>>
  PROVE  GeneralInv'
<1> USE DEF loopVars
<1>1. TableInv' /\ \A u \in Threads : OwnsSame(u)
  BY FilesKept DEF GeneralInv
<1>2. ASSUME NEW u \in Threads PROVE OwnedInv(u)' /\ CountInv(u)' /\ SelectInv(u)'
  <2>1. Unmoved(u) /\ OwnsLess(u)
    BY <1>1 DEF Unmoved, OwnsSame
  <2> QED
    BY <2>1, OtherGeneral DEF GeneralInv
<1>3. DeadInv'
  <2>1. \A u \in Threads : Process(u)' = Process(u)
    BY ProcessNext
  <2> QED
    BY <2>1 DEF GeneralInv, DeadInv
<1> QED
  BY <1>1, <1>2, <1>3 DEF GeneralInv

LEMMA PeerActsType ==
  ASSUME GeneralInv, NEW t \in Threads, PeerActs(t)
  PROVE  TypeOK'
<1> USE DEF PeerActs, loopVars, endVars, statsVars
<1>0. TypeOK /\ TableInv /\ settings' = settings
  BY DEF GeneralInv
<1>1. FilesOK'
  BY <1>0, FilesKept
<1>2. peer' \in [Threads -> [Slots -> Peers]]
  <2>1. PICK k \in Slots, becomes \in Peers \ {"quiet"} : peer' = [peer EXCEPT ![t][k] = becomes]
    OBVIOUS
  <2>2. peer' = [peer EXCEPT ![t] = [peer[t] EXCEPT ![k] = becomes]]
    BY <2>1
  <2>3. [peer[t] EXCEPT ![k] = becomes] \in [Slots -> Peers]
    BY <1>0 DEF TypeOK
  <2> QED
    BY <1>0, <2>2, <2>3 DEF TypeOK
<1> QED
  BY <1>0, <1>1, <1>2, TypeNext DEF TypeOK

LEMMA StopType ==
  ASSUME GeneralInv, NEW p \in Procs, Stop(p)
  PROVE  TypeOK'
<1> USE DEF Stop, loopVars, statsVars
<1>0. TypeOK /\ TableInv /\ settings' = settings
  BY DEF GeneralInv
<1>1. FilesOK'
  BY <1>0, FilesKept
<1>2. bRunning' \in [Procs -> BOOLEAN]
  BY <1>0 DEF TypeOK
<1> QED
  BY <1>0, <1>1, <1>2, TypeNext DEF TypeOK

LEMMA InitGeneral == Init => GeneralInv
<1> SUFFICES ASSUME Init PROVE GeneralInv
  OBVIOUS
<1>1. settings \in Settings /\ settings \in AllSettings
  BY SettingsAssumption DEF Init
<1>2. Connections \in Nat \ {0} /\ MaxFd \in Nat /\ MaxFd >= 3
  <2>1. Connections \in Nat \ {0}
    BY <1>1 DEF AllSettings, Connections
  <2>2. (NServers + NClients) * (Connections + 3) \in Nat
    BY <2>1, TableSize
  <2>3. PICK m \in Nat : m = (NServers + NClients) * (Connections + 3)
    BY <2>2
  <2>4. MaxFd = 3 + m
    BY <2>3 DEF MaxFd
  <2> QED
    BY <2>1, <2>4
<1> USE DEF Init
<1>3. /\ DOMAIN files = Procs
      /\ \A p \in Procs : /\ DOMAIN files[p] = MainFds
                          /\ \A fd \in MainFds : files[p][fd] = File(Main, "std", fd)
  OBVIOUS
<1>4. \A fd \in MainFds : File(Main, "std", fd) \in FileRecords
  BY Sizes DEF File, FileRecords, Kinds, MainFds
<1>5. MainFds \subseteq Fds
  BY <1>2 DEF MainFds, Fds
<1>6. FilesOK
  BY <1>3, <1>4, <1>5 DEF FilesOK
<1>7. TypeOK
  <2>1. /\ peer \in [Threads -> [Slots -> Peers]]
        /\ bRunning \in [Procs -> BOOLEAN]
        /\ pc \in [Threads -> PCs]
    BY DEF Peers, PCs
  <2>2. /\ s \in [Threads -> MaybeFds] /\ sock \in [Threads -> MaybeFds]
        /\ readFD_epoll \in [Threads -> MaybeFds]
    BY <1>5 DEF MaybeFds, MainFds
  <2>3. /\ client \in [Threads -> {<<>>} \cup [Slots -> MaybeFds]]
        /\ clients \in [Threads -> 0 .. Connections]
        /\ nfds \in [Threads -> 0 .. MaxFd + 1]
        /\ ret \in [Threads -> -(2 * Connections + 1) .. 2 * Connections]
        /\ c \in [Threads -> 1 .. Connections + 1]
    BY <1>2
  <2>4. events \in [Threads -> Seq(EventRecords)] /\ closing \in [Threads -> Seq(MaybeFds)]
    OBVIOUS
  <2>5. /\ readFD \in [Threads -> SUBSET Fds] /\ writeFD \in [Threads -> SUBSET Fds]
        /\ return_stats \in [Threads -> BOOLEAN]
    OBVIOUS
  <2> QED
    BY <1>1, <1>6, <2>1, <2>2, <2>3, <2>4, <2>5 DEF TypeOK
<1>8. TableInv
  BY <1>3 DEF TableInv, IsFile, File
<1>9. \A t \in Threads : Owned(t) = {}
  BY <1>3, <1>7, SettingsShape, Sizes DEF Owned, Files, FileAt, File
<1>10. DeadInv
  BY DEF DeadInv
<1>11. ASSUME NEW t \in Threads PROVE OwnedInv(t) /\ CountInv(t) /\ SelectInv(t)
  <2>1. pc[t] \in {"start", "done"}
    OBVIOUS
  <2> QED
    BY <1>9, <2>1 DEF OwnedInv, CountInv, SelectInv, InLoop
<1> QED
  BY <1>7, <1>8, <1>10, <1>11 DEF GeneralInv

LEMMA NextGeneral == GeneralInv /\ [Next]_vars => GeneralInv'
<1> SUFFICES ASSUME GeneralInv, [Next]_vars PROVE GeneralInv'
  OBVIOUS
<1>1. ASSUME NEW t \in Threads, ThreadNext(t) PROVE GeneralInv'
  BY <1>1, StepOrCrash, StepKeepsGeneral, CrashKeepsGeneral
<1>2. ASSUME NEW t \in Threads, PeerActs(t) PROVE GeneralInv'
  BY <1>2, PeerActsType, OutsideKeepsGeneral DEF PeerActs, endVars, statsVars
<1>3. ASSUME NEW p \in Procs, Stop(p) PROVE GeneralInv'
  BY <1>3, StopType, OutsideKeepsGeneral DEF Stop, statsVars
<1>4. CASE UNCHANGED vars
  <2>1. FilesOK'
    BY <1>4, FilesKept DEF vars, GeneralInv
  <2>2. TypeOK'
    BY <1>4, <2>1, TypeNext DEF vars, loopVars, endVars, statsVars, GeneralInv, TypeOK
  <2> QED
    BY <1>4, <2>2, OutsideKeepsGeneral DEF vars, endVars, statsVars
<1> QED
  BY <1>1, <1>2, <1>3, <1>4 DEF Next

LEMMA GeneralCorrect == Spec => []GeneralInv
BY InitGeneral, NextGeneral, PTL DEF Spec

\* Whatever fails, and even when the descriptors of a process are closed by the
\* wrong thread, the counts of a thread stay within its array.
THEOREM TypeCorrect == Spec => []TypeOK
<1>1. GeneralInv => TypeOK
  BY DEF GeneralInv
<1> QED
  BY <1>1, GeneralCorrect, PTL

\* A thread never has more connections open than it counts: the batch it asks
\* epoll_wait() for has room for all of them, and a count of 0 means none.
THEOREM CountsCorrect == Spec => []CountsTheOpen
<1>1. GeneralInv => CountsTheOpen
  <2> SUFFICES ASSUME GeneralInv, NEW t \in Threads,
                      InLoop(t) \/ (pc[t] = "abandon" /\ client[t] # <<>>)
               PROVE  Cardinality(OpenOnes(t)) <= clients[t]
    BY DEF CountsTheOpen
  <2>1. CASE InLoop(t)
    BY <2>1, Counted DEF InLoop
  <2>2. CASE pc[t] = "abandon" /\ client[t] # <<>>
    BY <2>2 DEF GeneralInv, CountInv
  <2> QED
    BY <2>1, <2>2
<1> QED
  BY <1>1, GeneralCorrect, PTL

-----------------------------------------------------------------------------
(***************************************************************************)
(* With select, and where no thread closes what is not its own.            *)
(***************************************************************************)
Plain == OwnTable /\ ~settings.epoll

\* What a thread holds is its own, and in its array once; and it has nothing else.
HoldsInv(t) ==
    /\ s[t] # INVALID => s[t] \in Owned(t) /\ FileAt(t, s[t]).kind = "listen"
    /\ client[t] # <<>> => \A k \in 1 .. clients[t] : client[t][k] # INVALID =>
         /\ client[t][k] \in Owned(t) /\ FileAt(t, client[t][k]).kind \in Transfers
         /\ \A j \in 1 .. clients[t] : j # k => client[t][j] # client[t][k]
    /\ ~Fault("options") =>
         \A fd \in Owned(t) : fd = s[t] \/ (client[t] # <<>> /\ fd \in InUse(t))

KeepsInv(t) ==
    /\ t \notin settings.threads => pc[t] \in {"done", "dead"}
    /\ t \in Clients => s[t] = INVALID
    /\ pc[t] \in {"connect", "watch", "wait", "scan", "abandon"} => HoldsInv(t)
    /\ pc[t] = "connect" => \A k \in Slots : k < c[t] <=> client[t][k] # INVALID

\* The sockets the scan has still to look at.
Rest(t) == {client[t][k] : k \in c[t] .. clients[t]}

\* Each socket is asked about again as soon as it has been looked at, and ret is
\* the number of bits that are still set of those that have not been.
ScanInv(t) ==
    /\ InLoop(t) => \A fd \in InUse(t) : fd < nfds[t]
    /\ pc[t] = "wait" => readFD[t] = InUse(t) /\ (t \in Clients => writeFD[t] = InUse(t))
    /\ pc[t] = "scan" =>
         /\ \A k \in 1 .. (c[t] - 1) :
               client[t][k] \in readFD[t] /\ (t \in Clients => client[t][k] \in writeFD[t])
         /\ ret[t] = Cardinality(Rest(t) \cap readFD[t]) + Cardinality(Rest(t) \cap writeFD[t])

\* The clean-up has still to close what the thread owns, and nothing else: a
\* stream closes each descriptor once, a datagram server has the process for
\* itself.
ClosingInv(t) ==
    /\ pc[t] \notin {"cleanup", "dead"} => closing[t] = <<>>
    /\ \A i \in DOMAIN closing[t] : IsOpen(t, closing[t][i]) => closing[t][i] \in Owned(t)
    /\ settings.stream \/ t \in Clients =>
          \A i \in DOMAIN closing[t] : closing[t][i] # INVALID =>
             /\ closing[t][i] \in Owned(t)
             /\ \A j \in DOMAIN closing[t] : i # j => closing[t][i] # closing[t][j]
    /\ pc[t] = "send" => sock[t] \in Owned(t)
    /\ ~Fault("options") =>
          /\ pc[t] \in {"report", "done"} => Owned(t) = {}
          /\ pc[t] = "cleanup" => \A fd \in Owned(t) : \E i \in DOMAIN closing[t] : closing[t][i] = fd
          /\ pc[t] = "send" => Owned(t) \subseteq {sock[t]}

\* There is no epoll set, and nobody closes a datagram socket.
PeersInv ==
    /\ \A t \in Threads : readFD_epoll[t] = INVALID
    /\ ~settings.stream => \A t \in Threads, k \in Slots : peer[t][k] # "closed"

PlainOf(t) == KeepsInv(t) /\ ScanInv(t) /\ ClosingInv(t)
PlainInv == Plain => PeersInv /\ \A t \in Threads : PlainOf(t)

IndInv == GeneralInv /\ PlainInv

-----------------------------------------------------------------------------
(* A thread that does not take part in a step, once more.                  *)

\* Only the end of its process has reached it.
Untouched(u) ==
    /\ pc'[u] = pc[u] \/ pc'[u] = "dead"
    /\ s'[u] = s[u] /\ client'[u] = client[u] /\ clients'[u] = clients[u]
    /\ readFD'[u] = readFD[u] /\ writeFD'[u] = writeFD[u]
    /\ nfds'[u] = nfds[u] /\ ret'[u] = ret[u] /\ c'[u] = c[u]
    /\ sock'[u] = sock[u] /\ closing'[u] = closing[u]

LEMMA NoOptions ==
  ASSUME settings' = settings
  PROVE  Fault("options")' = Fault("options")
BY DEF Fault

\* What is open under a number of u.
LEMMA OpenOrOwned ==
  ASSUME TypeOK, NEW u \in Threads
  PROVE  Owned(u) \subseteq Fds /\ INVALID \notin Owned(u) /\ ~IsOpen(u, INVALID)
         /\ \A x \in Owned(u) : IsOpen(u, x)
<1>1. Process(u) \in Procs /\ INVALID \notin Fds
  BY SettingsShape
<1>2. DOMAIN Files(u) \subseteq Fds
  BY <1>1 DEF TypeOK, FilesOK, Files
<1> QED
  BY <1>1, <1>2 DEF Owned, IsOpen

LEMMA HoldsKept ==
  ASSUME settings' = settings, NEW u \in Threads, OwnsSame(u), HoldsInv(u),
         s'[u] = s[u], client'[u] = client[u], clients'[u] = clients[u]
  PROVE  HoldsInv(u)'
<1>1. Transfers' = Transfers /\ Fault("options")' = Fault("options") /\ InUse(u)' = InUse(u)
  BY SameSettings, NoOptions DEF InUse
<1>2. Owned(u)' = Owned(u) /\ \A x \in Owned(u) : Files(u)'[x] = Files(u)[x]
  BY DEF OwnsSame, OwnsLess
<1>3. s[u] # INVALID => s[u] \in Owned(u) /\ Files(u)'[s[u]].kind = "listen"
  BY <1>2 DEF HoldsInv, FileAt
<1>4. client[u] # <<>> => \A k \in 1 .. clients[u] : client[u][k] # INVALID =>
         /\ client[u][k] \in Owned(u) /\ Files(u)'[client[u][k]].kind \in Transfers
         /\ \A j \in 1 .. clients[u] : j # k => client[u][j] # client[u][k]
  BY <1>2 DEF HoldsInv, FileAt
<1>5. ~Fault("options") =>
         \A fd \in Owned(u) : fd = s[u] \/ (client[u] # <<>> /\ fd \in InUse(u))
  BY DEF HoldsInv
<1> QED
  BY <1>1, <1>2, <1>3, <1>4, <1>5 DEF HoldsInv, FileAt

LEMMA OtherPlain ==
  ASSUME Plain, TypeOK, TypeOK', settings' = settings, NEW u \in Threads,
         OwnsSame(u), Untouched(u), PlainOf(u),
         \/ Files(u)' = Files(u) \/ settings.stream \/ u \in Clients \/ closing[u] = <<>>
  PROVE  PlainOf(u)'
<1>0. KeepsInv(u) /\ ScanInv(u) /\ ClosingInv(u)
  BY DEF PlainOf
<1>1. Fault("options")' = Fault("options") /\ InUse(u)' = InUse(u) /\ Rest(u)' = Rest(u)
      /\ Slots' = Slots
  BY SameSettings, NoOptions DEF InUse, Rest, Untouched
<1>2. Owned(u)' = Owned(u)
  BY DEF OwnsSame
<1>3. KeepsInv(u)'
  <2>1. pc'[u] \in {"connect", "watch", "wait", "scan", "abandon"} => HoldsInv(u)'
    BY <1>0, HoldsKept DEF KeepsInv, Untouched
  <2> QED
    BY <1>0, <1>1, <2>1 DEF KeepsInv, Untouched
<1>4. ScanInv(u)'
  BY <1>0, <1>1 DEF ScanInv, Untouched, InLoop
<1>5. \A i \in DOMAIN closing[u] : IsOpen(u, closing[u][i])' => closing[u][i] \in Owned(u)
  <2>1. CASE Files(u)' = Files(u)
    BY <1>0, <2>1 DEF ClosingInv, IsOpen, Untouched
  <2>2. CASE closing[u] = <<>>
    BY <2>2
  <2>3. CASE settings.stream \/ u \in Clients
    <3> TAKE i \in DOMAIN closing[u]
    <3>1. CASE closing[u][i] # INVALID
      BY <1>0, <2>3, <3>1 DEF ClosingInv
    <3>2. CASE closing[u][i] = INVALID
      <4>1. INVALID' = INVALID /\ ~IsOpen(u, INVALID)'
        <5>1. Process(u)' \in Procs /\ Process(u)' = Process(u)
          BY SettingsShape, SameSettings
        <5>2. DOMAIN Files(u)' \subseteq Fds'
          BY <5>1 DEF TypeOK, FilesOK, Files
        <5>3. INVALID \notin Fds'
          BY SettingsShape, SameSettings
        <5> QED
          BY <5>2, <5>3 DEF IsOpen, INVALID
      <4>2. closing'[u] = closing[u]
        BY DEF Untouched
      <4> QED
        BY <3>2, <4>1, <4>2 DEF IsOpen, INVALID
    <3> QED
      BY <3>1, <3>2
  <2> QED
    BY <2>1, <2>2, <2>3
<1>6. ClosingInv(u)'
  <2>1. \A x : IsOpen(u, x)' <=> x \in DOMAIN Files(u)'
    BY DEF IsOpen
  <2>2. \A i \in DOMAIN closing'[u] : closing'[u][i] \in DOMAIN Files(u)' => closing'[u][i] \in Owned(u)'
    BY <1>2, <1>5 DEF Untouched, IsOpen
  <2> QED
    BY <1>0, <1>1, <1>2, <2>2 DEF ClosingInv, Untouched, IsOpen
<1> QED
  BY <1>3, <1>4, <1>6 DEF PlainOf

\* What a step does to the tables.
LEMMA TableSteps ==
  ASSUME NEW t \in Threads, StepOf(t)
  PROVE  settings' = settings
         /\ (UNCHANGED files \/ (\E f : Opened(t, f)) \/ (\E x : Closed(t, x)))
<1> USE DEF endVars, loopVars, statsVars, StartUnchanged, ConnectUnchanged, ScanUnchanged
<1>1. CASE CallocFails(t) \/ StartServer(t) \/ StartClient(t)
  BY <1>1 DEF CallocFails, StartServer, StartClient
<1>2. CASE AcceptConnections(t) \/ ConnectConnections(t)
  BY <1>2 DEF AcceptConnections, ConnectConnections, Connected
<1>3. CASE NoBuffer(t) \/ Watch(t)
  BY <1>3 DEF NoBuffer, Watch
<1>4. CASE LoopEnds(t) \/ EpollWait(t) \/ EndBatch(t) \/ HandleHangup(t)
  BY <1>4 DEF LoopEnds, EpollWait, EndBatch, HandleHangup, NextEvent
<1>5. CASE HandleEvent(t)
  BY <1>5 DEF HandleEvent, RemoveFromEpoll, NextEvent
<1>6. CASE Select(t) \/ SkipRest(t)
  BY <1>6 DEF Select, SkipRest
<1>7. CASE ScanNext(t)
  BY <1>7 DEF ScanNext, RemoveFromSelect
<1>8. CASE EndScan(t) /\ ~(t \in Clients /\ ret[t] # 0)
  BY <1>8 DEF EndScan
<1>9. CASE EnterCleanup(t) \/ CloseNext(t) \/ EndCleanup(t) \/ OpenStats(t) \/ CloseStats(t)
  BY <1>9 DEF EnterCleanup, CloseNext, EndCleanup, OpenStats, CloseStats
<1> QED
  BY <1>1, <1>2, <1>3, <1>4, <1>5, <1>6, <1>7, <1>8, <1>9 DEF StepOf

\* The table of another process is left alone.
LEMMA TablesApart ==
  ASSUME TypeOK, NEW t \in Threads, StepOf(t), NEW u \in Threads, Process(u) # Process(t)
  PROVE  Files(u)' = Files(u)
<1>1. /\ settings' = settings
      /\ UNCHANGED files \/ (\E f : Opened(t, f)) \/ (\E x : Closed(t, x))
  BY TableSteps
<1>2. Process(u)' = Process(u)
  BY <1>1, SameSettings
<1>3. files'[Process(u)] = files[Process(u)]
  <2>1. DOMAIN files = Procs /\ Process(u) \in Procs
    BY SettingsShape DEF TypeOK, FilesOK
  <2>2. CASE \E f : Opened(t, f)
    <3> PICK f : Opened(t, f)
      BY <2>2
    <3> QED
      BY <2>1 DEF Opened
  <2>3. CASE \E x : Closed(t, x)
    <3> PICK x : Closed(t, x)
      BY <2>3
    <3> QED
      BY <2>1 DEF Closed
  <2> QED
    BY <1>1, <2>2, <2>3
<1> QED
  BY <1>2, <1>3 DEF Files

\* A datagram server that shares its process with threads that run has nothing
\* to close.
LEMMA SharedTable ==
  ASSUME GeneralInv, PlainInv, Plain, NEW t \in Threads, StepOf(t),
         NEW u \in Threads, u # t, Process(u) = Process(t)
  PROVE  settings.stream \/ u \in Clients \/ closing[u] = <<>>
<1> SUFFICES ASSUME ~settings.stream, u \in Servers PROVE closing[u] = <<>>
  BY Sizes
<1>1. pc[t] \notin {"done", "dead"}
  BY StepsAlive
<1>2. pc[u] # "dead"
  BY <1>1 DEF GeneralInv, DeadInv
<1>3. settings.threaded
  BY DEF Process
<1>4. t \in settings.threads /\ (u \notin settings.threads => pc[u] = "done")
  BY <1>1, <1>2 DEF PlainInv, PlainOf, KeepsInv
<1>5. u \notin settings.threads
  BY <1>3, <1>4 DEF Plain, OwnTable
<1> QED
  BY <1>4, <1>5 DEF PlainInv, PlainOf, ClosingInv

LEMMA OthersPlain ==
  ASSUME GeneralInv, PlainInv, Plain, NEW t \in Threads, StepOf(t),
         NEW u \in Threads, u # t, OwnsSame(u)
  PROVE  PlainOf(u)'
<1>1. TypeOK' /\ Step(t)
  BY StepGeneral
<1>2. Untouched(u) /\ settings' = settings
  BY <1>1 DEF Step, Unmoved, Untouched
<1>3. Files(u)' = Files(u) \/ settings.stream \/ u \in Clients \/ closing[u] = <<>>
  BY TablesApart, SharedTable DEF GeneralInv
<1> QED
  BY <1>1, <1>2, <1>3, OtherPlain DEF GeneralInv, PlainInv

\* Nobody opens an epoll set, and no datagram socket is closed.
LEMMA DrainedPeers ==
  ASSUME TypeOK, NEW t, NEW fd, NEW result, Drained(t, fd, result),
         NEW u \in Threads, NEW k \in Slots, peer[u][k] # "closed"
  PROVE  peer'[u][k] # "closed"
<1>1. CASE result = "data"
  <2>1. peer' = [peer EXCEPT ![FileAt(t, fd).owner][FileAt(t, fd).k] = "quiet"]
    BY <1>1 DEF Drained
  <2>2. peer \in [Threads -> [Slots -> Peers]]
    BY DEF TypeOK
  <2> QED
    BY <2>1, <2>2
<1>2. CASE result # "data"
  BY <1>2 DEF Drained
<1> QED
  BY <1>1, <1>2

LEMMA StepPeers ==
  ASSUME GeneralInv, PlainInv, Plain, NEW t \in Threads, StepOf(t)
  PROVE  PeersInv'
<1>0. TypeOK /\ ~settings.epoll /\ PeersInv
  BY DEF GeneralInv, PlainInv, Plain
<1> USE DEF endVars, loopVars, statsVars, StartUnchanged, ConnectUnchanged, ScanUnchanged
<1>1. CASE UNCHANGED <<settings, readFD_epoll, peer>>
  BY <1>0, <1>1, SameSettings DEF PeersInv
<1>2. CASE ScanNext(t)
  <2>1. UNCHANGED <<settings, readFD_epoll>> /\ \E result : Drained(t, client[t][c[t]], result)
    BY <1>2 DEF ScanNext
  <2> QED
    BY <1>0, <2>1, DrainedPeers, SameSettings DEF PeersInv
<1>3. StepOf(t) => UNCHANGED <<settings, readFD_epoll, peer>> \/ ScanNext(t)
  <2>1. CASE CallocFails(t) \/ StartServer(t) \/ StartClient(t)
    BY <2>1 DEF CallocFails, StartServer, StartClient
  <2>2. CASE AcceptConnections(t) \/ ConnectConnections(t)
    BY <2>2 DEF AcceptConnections, ConnectConnections
  <2>3. CASE NoBuffer(t) \/ Watch(t)
    BY <1>0, <2>3 DEF NoBuffer, Watch
  <2>4. CASE LoopEnds(t) \/ EpollWait(t) \/ EndBatch(t) \/ HandleHangup(t) \/ HandleEvent(t)
    BY <1>0, <2>4 DEF LoopEnds, EpollWait, EndBatch, HandleHangup, HandleEvent, HasEvent
  <2>6. CASE Select(t) \/ SkipRest(t)
    BY <2>6 DEF Select, SkipRest
  <2>8. CASE EndScan(t) /\ ~(t \in Clients /\ ret[t] # 0)
    BY <2>8 DEF EndScan
  <2>9. CASE EnterCleanup(t) \/ CloseNext(t) \/ EndCleanup(t) \/ OpenStats(t) \/ CloseStats(t)
    BY <2>9 DEF EnterCleanup, CloseNext, EndCleanup, OpenStats, CloseStats
  <2> QED
    BY <2>1, <2>2, <2>3, <2>4, <2>6, <2>8, <2>9 DEF StepOf
<1> QED
  BY <1>1, <1>2, <1>3

-----------------------------------------------------------------------------
(* The step of a thread, from its start to its loop.                       *)

\* What holds of a thread in the middle of its work.
LEMMA PlainFacts ==
  ASSUME GeneralInv, PlainInv, Plain, NEW t \in Threads,
         pc[t] \notin {"done", "dead"}
  PROVE  /\ TypeOK /\ TableInv /\ OwnedInv(t) /\ CountInv(t) /\ SelectInv(t) /\ ~settings.epoll
         /\ KeepsInv(t) /\ ScanInv(t) /\ ClosingInv(t) /\ t \in settings.threads
         /\ Connections \in Nat \ {0} /\ clients[t] \in 0 .. Connections /\ c[t] \in 1 .. Connections + 1
BY SettingsShape DEF GeneralInv, PlainInv, Plain, PlainOf, KeepsInv, TypeOK

\* A thread that is not in its clean-up has nothing to close.
LEMMA NothingToClose ==
  ASSUME GeneralInv, PlainInv, Plain, NEW t \in Threads,
         pc[t] \in {"start", "connect", "watch", "wait", "scan", "abandon"},
         pc'[t] \in {"connect", "watch", "wait", "scan", "abandon"}, closing'[t] = closing[t]
  PROVE  ClosingInv(t)'
<1>1. closing'[t] = <<>>
  BY PlainFacts DEF ClosingInv
<1> QED
  BY <1>1 DEF ClosingInv

\* A thread that gets on, with what it had.
LEMMA GetsOn ==
  ASSUME GeneralInv, PlainInv, Plain, NEW t \in Threads, settings' = settings, OwnsSame(t),
         pc[t] \in {"connect", "watch", "wait", "scan", "abandon"},
         pc'[t] \in {"watch", "wait", "scan", "abandon"},
         s'[t] = s[t], client'[t] = client[t], clients'[t] = clients[t]
  PROVE  KeepsInv(t)'
<1>1. KeepsInv(t) /\ HoldsInv(t) /\ t \in settings.threads
  BY PlainFacts DEF KeepsInv
<1>2. HoldsInv(t)'
  BY <1>1, HoldsKept
<1> QED
  BY <1>1, <1>2 DEF KeepsInv

\* Where it gets to, when it is not in its loop.
LEMMA GetsOnPlain ==
  ASSUME GeneralInv, PlainInv, Plain, NEW t \in Threads, settings' = settings, UNCHANGED files,
         pc[t] \in {"connect", "watch", "wait", "scan"}, pc'[t] \in {"watch", "abandon"},
         s'[t] = s[t], client'[t] = client[t], clients'[t] = clients[t], closing'[t] = closing[t]
  PROVE  PlainOf(t)' /\ \A u \in Threads : OwnsSame(u)
<1>1. \A u \in Threads : OwnsSame(u)
  BY FilesKept DEF GeneralInv
<1>2. KeepsInv(t)' /\ ClosingInv(t)'
  BY <1>1, GetsOn, NothingToClose
<1>3. ScanInv(t)'
  BY DEF ScanInv, InLoop
<1> QED
  BY <1>1, <1>2, <1>3 DEF PlainOf

\* Before it has opened anything.
LEMMA StartFacts ==
  ASSUME GeneralInv, PlainInv, Plain, NEW t \in Threads, pc[t] = "start"
  PROVE  /\ TypeOK /\ TableInv /\ Owned(t) = {} /\ s[t] = INVALID /\ client[t] = <<>> /\ c[t] = 1
         /\ Connections \in Nat \ {0} /\ clients[t] = Connections /\ t \in settings.threads
BY PlainFacts DEF OwnedInv, CountInv

LEMMA CallocFailsPlain ==
  ASSUME GeneralInv, PlainInv, Plain, NEW t \in Threads, CallocFails(t)
  PROVE  PlainOf(t)' /\ \A u \in Threads : u # t => OwnsSame(u)
<1> USE DEF CallocFails, StartUnchanged, endVars, Abandon, Goto
<1>0. /\ TypeOK /\ TableInv /\ Owned(t) = {} /\ s[t] = INVALID /\ client[t] = <<>>
      /\ t \in settings.threads /\ settings' = settings /\ pc[t] = "start"
  BY StartFacts
<1>1. \A u \in Threads : OwnsSame(u)
  BY <1>0, FilesKept
<1>2. pc'[t] = "abandon" /\ Owned(t)' = {}
  BY <1>0, <1>1 DEF TypeOK, OwnsSame
<1>3. KeepsInv(t)'
  BY <1>0, <1>2 DEF KeepsInv, HoldsInv, INVALID
<1>4. ClosingInv(t)'
  BY <1>0, <1>2, NothingToClose
<1> QED
  BY <1>1, <1>2, <1>3, <1>4 DEF PlainOf, ScanInv, InLoop

\* The array when it is blank.
LEMMA BlankHolds ==
  ASSUME GeneralInv, PlainInv, Plain, NEW t \in Threads, pc[t] = "start", settings' = settings,
         pc'[t] \in {"connect", "abandon"}, BlankArray(t),
         clients'[t] = clients[t], c'[t] = c[t], closing'[t] = closing[t], t \in Clients => s'[t] = INVALID,
         \/ s'[t] = INVALID /\ Owned(t)' = {}
         \/ s'[t] # INVALID /\ Owned(t)' = {s'[t]} /\ Files(t)'[s'[t]].kind = "listen"
  PROVE  PlainOf(t)'
<1>0. /\ TypeOK /\ c[t] = 1 /\ Connections \in Nat \ {0} /\ clients[t] = Connections
      /\ t \in settings.threads
  BY StartFacts
<1>1. /\ client'[t] = [k \in Slots |-> INVALID] /\ INVALID' = INVALID /\ Slots' = Slots
  BY <1>0, SameSettings DEF BlankArray, TypeOK, INVALID
<1>2. \A k \in 1 .. clients'[t] : client'[t][k] = INVALID
  BY <1>0, <1>1 DEF Slots
<1>3. HoldsInv(t)'
  BY <1>1, <1>2 DEF HoldsInv, FileAt
<1>4. \A k \in Slots : ~(k < c'[t]) /\ client'[t][k] = INVALID
  BY <1>0, <1>1 DEF Slots
<1>5. KeepsInv(t)'
  BY <1>0, <1>1, <1>3, <1>4 DEF KeepsInv
<1>6. ClosingInv(t)'
  BY NothingToClose
<1> QED
  BY <1>5, <1>6 DEF PlainOf, ScanInv, InLoop

LEMMA StartClientPlain ==
  ASSUME GeneralInv, PlainInv, Plain, NEW t \in Threads, StartClient(t)
  PROVE  PlainOf(t)' /\ \A u \in Threads : u # t => OwnsSame(u)
<1> USE DEF StartClient, StartUnchanged, endVars, loopVars, Goto
<1>0. /\ TypeOK /\ TableInv /\ Owned(t) = {} /\ s[t] = INVALID
      /\ settings' = settings /\ pc[t] = "start"
  BY StartFacts
<1>1. \A u \in Threads : OwnsSame(u)
  BY <1>0, FilesKept
<1>2. pc'[t] = "connect" /\ Owned(t)' = {} /\ s'[t] = INVALID
  BY <1>0, <1>1 DEF TypeOK, OwnsSame
<1> QED
  BY <1>0, <1>1, <1>2, BlankHolds

LEMMA StartServerPlain ==
  ASSUME GeneralInv, PlainInv, Plain, NEW t \in Threads, StartServer(t)
  PROVE  PlainOf(t)' /\ \A u \in Threads : u # t => OwnsSame(u)
<1> USE DEF loopVars, endVars, Goto, Abandon
<1>a. pc[t] = "start" /\ t \in Servers /\ t \notin Clients
  BY Sizes DEF StartServer
<1>0. /\ TypeOK /\ TableInv /\ Owned(t) = {} /\ s[t] = INVALID /\ c[t] = 1
      /\ Connections \in Nat \ {0} /\ clients[t] = Connections /\ t \in settings.threads
  BY <1>a, StartFacts
<1>b. settings' = settings /\ c' = c /\ closing' = closing
  BY DEF StartServer
<1>1. CASE Fault("socket") /\ BlankArray(t) /\ Abandon(t) /\ UNCHANGED <<files, s, clients>>
  <2>1. \A u \in Threads : OwnsSame(u)
    BY <1>0, <1>b, <1>1, FilesKept
  <2>2. pc'[t] = "abandon" /\ Owned(t)' = {} /\ s'[t] = INVALID
    BY <1>0, <1>1, <2>1 DEF TypeOK, OwnsSame
  <2> QED
    BY <1>a, <1>0, <1>b, <1>1, <2>1, <2>2, BlankHolds
<1>2. CASE /\ Opened(t, File(t, "listen", 1))
           /\ s' = [s EXCEPT ![t] = NextFd(t)]
           /\ \/ Fault("bind") /\ BlankArray(t) /\ Abandon(t) /\ UNCHANGED clients
              \/ settings.stream /\ BlankArray(t) /\ Goto(t, "connect") /\ UNCHANGED clients
              \/ /\ ~settings.stream /\ Goto(t, "watch")
                 /\ client' = [client EXCEPT ![t] = [k \in Slots |-> IF k = 1 THEN NextFd(t) ELSE INVALID]]
                 /\ clients' = [clients EXCEPT ![t] = 1]
  <2> DEFINE f == File(t, "listen", 1)
             n == NextFd(t)
  <2>1. f \in FileRecords /\ f.owner = t /\ f.kind = "listen" /\ IsFile(Process(t), f)
    BY Sizes DEF File, FileRecords, Kinds, IsFile
  <2>2. Opened(t, f) /\ n = NextFd(t) /\ s' = [s EXCEPT ![t] = n]
    BY <1>2
  <2> HIDE DEF f, n
  <2>3. /\ n \in Fds /\ Owned(t)' = {n} /\ Files(t)'[n] = f
        /\ \A u \in Threads : u # t => OwnsSame(u)
    BY <1>0, <1>b, <2>1, <2>2, OpenedEffect
  <2>4. n # INVALID /\ s'[t] = n
    BY <1>0, <2>2, <2>3, SettingsShape DEF TypeOK
  <2>5. CASE BlankArray(t) /\ (Abandon(t) \/ Goto(t, "connect")) /\ UNCHANGED clients
    <3>1. pc'[t] \in {"connect", "abandon"}
      BY <1>0, <2>5 DEF TypeOK
    <3> QED
      BY <1>a, <1>b, <2>1, <2>3, <2>4, <2>5, <3>1, BlankHolds
  <2>6. CASE /\ ~settings.stream /\ Goto(t, "watch")
             /\ client' = [client EXCEPT ![t] = [k \in Slots |-> IF k = 1 THEN NextFd(t) ELSE INVALID]]
             /\ clients' = [clients EXCEPT ![t] = 1]
    <3>1. client' = [client EXCEPT ![t] = [k \in Slots |-> IF k = 1 THEN n ELSE INVALID]]
      BY <2>2, <2>6
    <3>2. pc'[t] = "watch" /\ clients'[t] = 1 /\ 1 \in Slots
      BY <1>0, <2>6 DEF TypeOK, Slots
    <3>3. client'[t] = [k \in Slots |-> IF k = 1 THEN n ELSE INVALID]
      BY <1>0, <3>1 DEF TypeOK
    <3>4. client'[t][1] = n
      BY <3>2, <3>3
    <3>5. \A k \in 1 .. clients'[t] : k = 1
      BY <3>2
    <3>6. Transfers' = Transfers /\ "listen" \in Transfers
      BY <1>b, <2>6, SameSettings DEF Transfers
    <3>7. HoldsInv(t)'
      BY <2>1, <2>3, <2>4, <3>4, <3>5, <3>6 DEF HoldsInv, FileAt
    <3>8. KeepsInv(t)'
      BY <1>a, <1>0, <1>b, <3>2, <3>7 DEF KeepsInv
    <3>9. ClosingInv(t)'
      BY <1>a, <1>b, <3>2, NothingToClose
    <3> QED
      BY <2>3, <3>2, <3>8, <3>9 DEF PlainOf, ScanInv, InLoop
  <2> QED
    BY <1>2, <2>5, <2>6
<1> QED
  BY <1>1, <1>2 DEF StartServer

LEMMA ConnectedPlain ==
  ASSUME GeneralInv, PlainInv, Plain, NEW t \in Threads, pc[t] = "connect", c[t] <= Connections,
         Connected(t), ConnectUnchanged
  PROVE  PlainOf(t)' /\ \A u \in Threads : u # t => OwnsSame(u)
<1> USE DEF ConnectUnchanged, endVars
<1>0. /\ TypeOK /\ TableInv /\ OwnedInv(t) /\ settings' = settings
      /\ Connections \in Nat \ {0} /\ c[t] \in 1 .. Connections /\ c[t] \in Slots
      /\ client[t] \in [Slots -> MaybeFds] /\ clients[t] = Connections
  BY Connecting
<1>a. KeepsInv(t) /\ HoldsInv(t) /\ t \in settings.threads
  BY PlainFacts DEF KeepsInv
<1> DEFINE f == File(t, "connection", c[t])
           n == NextFd(t)
<1>1. /\ f \in FileRecords /\ f.owner = t /\ f.kind = "connection" /\ f.k = c[t]
      /\ IsFile(Process(t), f)
  BY <1>0, Sizes DEF File, FileRecords, Kinds, IsFile
<1> HIDE DEF f
<1>2. /\ Opened(t, f) /\ client' = [client EXCEPT ![t][c[t]] = n] /\ c' = [c EXCEPT ![t] = @ + 1]
      /\ pc' = pc /\ n = NextFd(t)
  BY DEF Connected, f
<1>3. \A fd \in Owned(t) : Files(t)[fd] # f
  BY <1>0, <1>1 DEF OwnedInv, FileAt
<1> HIDE DEF n
<1>4. /\ n \in Fds /\ n \notin DOMAIN Files(t)
      /\ Owned(t)' = Owned(t) \cup {n} /\ Files(t)'[n] = f
      /\ \A fd \in Owned(t) : Files(t)'[fd] = Files(t)[fd]
      /\ \A u \in Threads : u # t => OwnsSame(u)
  BY <1>0, <1>1, <1>2, <1>3, OpenedEffect
<1>5. n # INVALID /\ n \notin Owned(t) /\ INVALID \notin Owned(t)
  BY <1>0, <1>4, SettingsShape, OpenOrOwned DEF Owned
<1>6. /\ client'[t] \in [Slots -> MaybeFds \cup {n}] /\ client'[t][c[t]] = n
      /\ \A k \in Slots : k # c[t] => client'[t][k] = client[t][k]
  <2>1. client'[t] = [client[t] EXCEPT ![c[t]] = n]
    BY <1>0, <1>2 DEF TypeOK
  <2> QED
    BY <1>0, <2>1
<1>7. /\ c'[t] = c[t] + 1 /\ clients'[t] = Connections /\ s'[t] = s[t] /\ Slots' = Slots
      /\ Slots = 1 .. Connections /\ Transfers' = Transfers /\ Fault("options")' = Fault("options")
  BY <1>0, <1>2, SameSettings, NoOptions DEF TypeOK, Slots
<1>8. \A k \in Slots : k < c'[t] <=> client'[t][k] # INVALID
  <2> TAKE k \in Slots
  <2>1. CASE k = c[t]
    BY <1>0, <1>5, <1>6, <1>7, <2>1
  <2>2. CASE k # c[t]
    <3>1. k < c[t] <=> client[t][k] # INVALID
      BY <1>a DEF KeepsInv
    <3> QED
      BY <1>0, <1>6, <1>7, <2>2, <3>1
  <2> QED
    BY <2>1, <2>2
<1>9. HoldsInv(t)'
  <2>1. s'[t] # INVALID => s'[t] \in Owned(t)' /\ Files(t)'[s'[t]].kind = "listen"
    BY <1>a, <1>4, <1>7 DEF HoldsInv, FileAt
  <2>2. ASSUME NEW k \in Slots, client'[t][k] # INVALID
        PROVE  /\ client'[t][k] \in Owned(t)' /\ Files(t)'[client'[t][k]].kind \in Transfers
               /\ \A j \in Slots : j # k => client'[t][j] # client'[t][k]
    <3>1. \A j \in Slots : j # c[t] /\ client[t][j] # INVALID => client[t][j] \in Owned(t)
      BY <1>a, <1>0, <1>7 DEF HoldsInv
    <3>2. CASE k = c[t]
      <4>1. \A j \in Slots : j # k => client'[t][j] # n
        BY <1>5, <1>6, <3>1, <3>2
      <4>2. "connection" \in Transfers
        BY DEF Transfers
      <4> QED
        BY <1>1, <1>4, <1>6, <3>2, <4>1, <4>2
    <3>3. CASE k # c[t]
      <4>1. client'[t][k] = client[t][k] /\ client[t][k] # INVALID
        BY <1>6, <2>2, <3>3
      <4>2. /\ client[t][k] \in Owned(t) /\ Files(t)[client[t][k]].kind \in Transfers
            /\ \A j \in Slots : j # k => client[t][j] # client[t][k]
        BY <1>a, <1>0, <1>7, <4>1 DEF HoldsInv, FileAt
      <4>3. \A j \in Slots : j # k => client'[t][j] # client'[t][k]
        BY <1>5, <1>6, <4>1, <4>2
      <4> QED
        BY <1>4, <4>1, <4>2, <4>3
    <3> QED
      BY <3>2, <3>3
  <2>3. ASSUME ~Fault("options"), NEW fd \in Owned(t)'
        PROVE  fd = s'[t] \/ \E k \in Slots : fd = client'[t][k]
    <3>1. CASE fd = n
      BY <1>0, <1>6, <3>1
    <3>2. CASE fd # n
      <4>1. fd \in Owned(t) /\ fd # INVALID
        BY <1>4, <1>5, <2>3, <3>2
      <4>2. CASE fd = s[t]
        BY <1>7, <4>2
      <4>3. CASE fd \in InUse(t)
        <5>1. PICK k \in Slots : fd = client[t][k]
          BY <1>0, <1>7, <4>3 DEF InUse
        <5>2. k # c[t]
          BY <1>a, <1>0, <1>7, <4>1, <5>1 DEF KeepsInv
        <5> QED
          BY <1>6, <5>1, <5>2
      <4> QED
        BY <1>a, <2>3, <4>1, <4>2, <4>3 DEF HoldsInv
    <3> QED
      BY <3>1, <3>2
  <2>4. client'[t] # <<>> /\ InUse(t)' = {client'[t][k] : k \in Slots} /\ 1 .. clients'[t] = Slots
    BY <1>0, <1>6, <1>7 DEF InUse
  <2>5. ~Fault("options") => \A fd \in Owned(t)' : fd = s'[t] \/ fd \in InUse(t)'
    BY <2>3, <2>4
  <2> QED
    BY <1>7, <2>1, <2>2, <2>4, <2>5 DEF HoldsInv, FileAt
<1>10. KeepsInv(t)'
  BY <1>a, <1>0, <1>2, <1>7, <1>8, <1>9 DEF KeepsInv
<1>11. ClosingInv(t)'
  BY <1>2, NothingToClose
<1> QED
  BY <1>2, <1>4, <1>10, <1>11 DEF PlainOf, ScanInv, InLoop

LEMMA OptionsFailPlain ==
  ASSUME GeneralInv, PlainInv, Plain, NEW t \in Threads, pc[t] = "connect", c[t] <= Connections,
         Abandon(t), Opened(t, File(t, "connection", c[t])), UNCHANGED <<client, c>>, ConnectUnchanged,
         Fault("options")
  PROVE  PlainOf(t)' /\ \A u \in Threads : u # t => OwnsSame(u)
<1> USE DEF ConnectUnchanged, endVars, Abandon, Goto
<1>0. /\ TypeOK /\ TableInv /\ OwnedInv(t) /\ settings' = settings
      /\ Connections \in Nat \ {0} /\ c[t] \in 1 .. Connections /\ c[t] \in Slots
  BY Connecting
<1>a. KeepsInv(t) /\ HoldsInv(t) /\ t \in settings.threads
  BY PlainFacts DEF KeepsInv
<1> DEFINE f == File(t, "connection", c[t])
           n == NextFd(t)
<1>1. /\ f \in FileRecords /\ f.owner = t /\ f.kind = "connection" /\ f.k = c[t]
      /\ IsFile(Process(t), f)
  BY <1>0, Sizes DEF File, FileRecords, Kinds, IsFile
<1>2. Opened(t, f) /\ n = NextFd(t)
  OBVIOUS
<1> HIDE DEF f, n
<1>3. \A fd \in Owned(t) : Files(t)[fd] # f
  BY <1>0, <1>1 DEF OwnedInv, FileAt
<1>4. /\ Owned(t)' = Owned(t) \cup {n}
      /\ \A fd \in Owned(t) : Files(t)'[fd] = Files(t)[fd]
      /\ \A u \in Threads : u # t => OwnsSame(u)
  BY <1>0, <1>1, <1>2, <1>3, OpenedEffect
<1>5. /\ pc'[t] = "abandon" /\ client' = client /\ clients' = clients /\ s' = s /\ closing' = closing
      /\ Transfers' = Transfers /\ Fault("options")'
  BY <1>0, SameSettings, NoOptions DEF TypeOK
<1>6. HoldsInv(t)'
  BY <1>a, <1>4, <1>5 DEF HoldsInv, FileAt
<1>7. KeepsInv(t)'
  BY <1>a, <1>0, <1>5, <1>6 DEF KeepsInv
<1>8. ClosingInv(t)'
  BY <1>5, NothingToClose
<1> QED
  BY <1>4, <1>5, <1>7, <1>8 DEF PlainOf, ScanInv, InLoop

LEMMA LeavesConnectPlain ==
  ASSUME GeneralInv, PlainInv, Plain, NEW t \in Threads, pc[t] = "connect",
         Goto(t, "watch") \/ Abandon(t), UNCHANGED <<files, client, c>>, ConnectUnchanged
  PROVE  PlainOf(t)' /\ \A u \in Threads : OwnsSame(u)
<1>1. pc'[t] \in {"watch", "abandon"}
  BY DEF Goto, Abandon, GeneralInv, TypeOK
<1> QED
  BY <1>1, GetsOnPlain DEF ConnectUnchanged, endVars

LEMMA AcceptConnectionsPlain ==
  ASSUME GeneralInv, PlainInv, Plain, NEW t \in Threads, AcceptConnections(t)
  PROVE  PlainOf(t)' /\ \A u \in Threads : u # t => OwnsSame(u)
<1>1. pc[t] = "connect" /\ ConnectUnchanged /\ c[t] \in Nat /\ Connections \in Nat
  <2>1. pc[t] = "connect" /\ ConnectUnchanged
    BY DEF AcceptConnections
  <2>2. c[t] \in 1 .. Connections + 1 /\ Connections \in Nat
    BY <2>1, PlainFacts
  <2> QED
    BY <2>1, <2>2
<1>2. ~AcceptsAll(t) => c[t] <= Connections
  BY <1>1 DEF AcceptsAll
<1> QED
  BY <1>1, <1>2, ConnectedPlain, LeavesConnectPlain, OptionsFailPlain DEF AcceptConnections

LEMMA ConnectConnectionsPlain ==
  ASSUME GeneralInv, PlainInv, Plain, NEW t \in Threads, ConnectConnections(t)
  PROVE  PlainOf(t)' /\ \A u \in Threads : u # t => OwnsSame(u)
<1>1. pc[t] = "connect" /\ ConnectUnchanged
  BY DEF ConnectConnections
<1> QED
  BY <1>1, ConnectedPlain, LeavesConnectPlain DEF ConnectConnections

LEMMA NoBufferPlain ==
  ASSUME GeneralInv, PlainInv, Plain, NEW t \in Threads, NoBuffer(t)
  PROVE  PlainOf(t)' /\ \A u \in Threads : OwnsSame(u)
<1>1. pc[t] = "watch" /\ pc'[t] = "abandon"
  BY DEF NoBuffer, Goto, Abandon, GeneralInv, TypeOK
<1> QED
  BY <1>1, GetsOnPlain DEF NoBuffer, endVars

LEMMA LoopEndsPlain ==
  ASSUME GeneralInv, PlainInv, Plain, NEW t \in Threads, LoopEnds(t)
  PROVE  PlainOf(t)' /\ \A u \in Threads : OwnsSame(u)
<1>1. pc[t] = "wait" /\ pc'[t] = "abandon"
  BY DEF LoopEnds, LeaveLoop, Goto, Abandon, GeneralInv, TypeOK
<1> QED
  BY <1>1, GetsOnPlain DEF LoopEnds

LEMMA WatchPlain ==
  ASSUME GeneralInv, PlainInv, Plain, NEW t \in Threads, Watch(t)
  PROVE  PlainOf(t)' /\ \A u \in Threads : OwnsSame(u)
<1> USE DEF endVars
<1>0. TypeOK /\ TableInv /\ ~settings.epoll /\ pc[t] = "watch" /\ INVALID \notin InUse(t)
  BY DEF GeneralInv, Plain, Watch
<1>1. /\ readFD' = [readFD EXCEPT ![t] = InUse(t)]
      /\ writeFD' = [writeFD EXCEPT ![t] = IF t \in Clients THEN InUse(t) ELSE {}]
      /\ nfds' = [nfds EXCEPT ![t] = HighestOf(InUse(t)) + 1]
      /\ pc' = [pc EXCEPT ![t] = "wait"]
      /\ UNCHANGED <<settings, files, client, clients, s, endVars>>
  BY <1>0 DEF Watch, Goto
<1>2. \A u \in Threads : OwnsSame(u)
  BY <1>0, <1>1, FilesKept
<1>3. InUse(t) \in SUBSET Fds
  BY <1>0, Counted DEF MaybeFds
<1>4. /\ readFD'[t] = InUse(t) /\ (t \in Clients => writeFD'[t] = InUse(t))
      /\ nfds'[t] = HighestOf(InUse(t)) + 1 /\ pc'[t] = "wait" /\ InUse(t)' = InUse(t)
  BY <1>0, <1>1 DEF TypeOK, InUse
<1>5. \A fd \in InUse(t) : fd < nfds'[t]
  BY <1>0, <1>3, <1>4, HighestOfType
<1>6. ScanInv(t)'
  BY <1>4, <1>5 DEF ScanInv
<1>7. KeepsInv(t)' /\ ClosingInv(t)'
  BY <1>0, <1>1, <1>2, <1>4, GetsOn, NothingToClose
<1> QED
  BY <1>2, <1>6, <1>7 DEF PlainOf

\* What a thread in its loop waits for is open, and is its own.
LEMMA InUseIsMine ==
  ASSUME GeneralInv, PlainInv, Plain, NEW t \in Threads, InLoop(t)
  PROVE  /\ InUse(t) \subseteq Owned(t) /\ InUse(t) \subseteq OpenOnes(t)
         /\ \A j, k \in 1 .. clients[t] : j # k => client[t][j] # client[t][k]
<1>1. HoldsInv(t) /\ client[t] # <<>> /\ INVALID \notin InUse(t)
  <2>1. pc[t] \in {"wait", "scan"} /\ ~settings.epoll
    BY DEF InLoop, Plain
  <2>2. client[t] \in [Slots -> MaybeFds] /\ Connections \in Nat \ {0} /\ INVALID \notin InUse(t)
    BY <2>1, SelectFacts
  <2>3. client[t] # <<>>
    BY <2>2 DEF Slots
  <2> QED
    BY <2>1, <2>2, <2>3, PlainFacts DEF KeepsInv
<1>2. \A k \in 1 .. clients[t] : /\ client[t][k] \in Owned(t)
                                 /\ Files(t)[client[t][k]].kind \in Transfers
                                 /\ \A j \in 1 .. clients[t] : j # k => client[t][j] # client[t][k]
  BY <1>1 DEF HoldsInv, InUse, FileAt
<1>3. InUse(t) \subseteq Owned(t) /\ InUse(t) \subseteq OpenOnes(t)
  BY <1>2, OpenOnesAreOwned DEF InUse
<1> QED
  BY <1>2, <1>3

LEMMA SelectPlain ==
  ASSUME GeneralInv, PlainInv, Plain, NEW t \in Threads, Select(t)
  PROVE  PlainOf(t)' /\ \A u \in Threads : OwnsSame(u)
<1> USE DEF endVars
<1>0. /\ ~settings.epoll /\ pc[t] = "wait" /\ InLoop(t) /\ TypeOK /\ TableInv
      /\ UNCHANGED <<settings, files, client, clients, s, nfds, endVars>>
  BY DEF Select, InLoop, GeneralInv
<1>1. /\ InUse(t) \in SUBSET Fds /\ readFD[t] = InUse(t) /\ writeFD[t] \subseteq InUse(t)
      /\ \A fd \in InUse(t) : fd < nfds[t]
  BY <1>0, SelectFacts, PlainFacts DEF ScanInv
<1>2. Asked(t) = InUse(t) /\ Asked(t) \subseteq DOMAIN Files(t)
  BY <1>0, <1>1, InUseIsMine DEF Asked, Owned
<1>3. PICK r \in SUBSET InUse(t), w \in SUBSET InUse(t) :
         /\ readFD' = [readFD EXCEPT ![t] = r] /\ writeFD' = [writeFD EXCEPT ![t] = w]
         /\ ret' = [ret EXCEPT ![t] = Cardinality(r) + Cardinality(w)]
         /\ c' = [c EXCEPT ![t] = 1] /\ Goto(t, "scan")
  <2>1. PICK w \in SUBSET (Asked(t) \cap writeFD[t]) :
            LET r == {fd \in Asked(t) \cap readFD[t] : IsSocket(t, fd) => Readable(t, fd)}
            IN /\ readFD' = [readFD EXCEPT ![t] = r]
               /\ writeFD' = [writeFD EXCEPT ![t] = w]
               /\ ret' = [ret EXCEPT ![t] = Cardinality(r) + Cardinality(w)]
               /\ c' = [c EXCEPT ![t] = 1]
               /\ Goto(t, "scan")
    BY <1>2 DEF Select
  <2> DEFINE r == {fd \in Asked(t) \cap readFD[t] : IsSocket(t, fd) => Readable(t, fd)}
  <2>2. r \in SUBSET InUse(t) /\ w \in SUBSET InUse(t)
    BY <1>2
  <2> QED
    BY <2>1, <2>2
<1>4. \A u \in Threads : OwnsSame(u)
  BY <1>0, FilesKept
<1>5. /\ readFD'[t] = r /\ writeFD'[t] = w /\ ret'[t] = Cardinality(r) + Cardinality(w)
      /\ c'[t] = 1 /\ pc'[t] = "scan" /\ InUse(t)' = InUse(t)
  BY <1>0, <1>3 DEF TypeOK, Goto, InUse
<1>6. Rest(t)' = InUse(t)
  BY <1>0, <1>5 DEF Rest, InUse
<1>7. Rest(t)' \cap readFD'[t] = r /\ Rest(t)' \cap writeFD'[t] = w
  BY <1>5, <1>6
<1>8. ScanInv(t)'
  <2>1. \A k \in 1 .. (c'[t] - 1) : FALSE
    BY <1>5
  <2>2. nfds'[t] = nfds[t] /\ ~(pc'[t] = "wait")
    BY <1>0, <1>5
  <2>3. ret'[t] = Cardinality(Rest(t)' \cap readFD'[t]) + Cardinality(Rest(t)' \cap writeFD'[t])
    BY <1>5, <1>7
  <2> QED
    BY <1>1, <1>5, <2>1, <2>2, <2>3 DEF ScanInv
<1>9. KeepsInv(t)' /\ ClosingInv(t)'
  BY <1>0, <1>4, <1>5, GetsOn, NothingToClose
<1> QED
  BY <1>4, <1>8, <1>9 DEF PlainOf

-----------------------------------------------------------------------------
(* The scan.                                                               *)

\* A set that loses one of its elements.
LEMMA CountOff ==
  ASSUME TypeOK, NEW S \in SUBSET Fds, NEW fd
  PROVE  /\ Cardinality(S) \in Nat /\ Cardinality(S \ {fd}) \in Nat
         /\ Cardinality(S \ {fd}) = Cardinality(S) - (IF fd \in S THEN 1 ELSE 0)
<1>1. IsFiniteSet(S) /\ Cardinality(S) \in Nat /\ Cardinality(S \ {fd}) \in Nat
  BY OpenOnesFinite, Sizes
<1>2. CASE fd \in S
  BY <1>1, <1>2, FS_RemoveElement
<1>3. CASE fd \notin S
  <2>1. S \ {fd} = S
    BY <1>3
  <2>2. Cardinality(S \ {fd}) = Cardinality(S)
    BY <2>1
  <2>3. Cardinality(S \ {fd}) = Cardinality(S) - 0
    BY <1>1, <2>2
  <2> QED
    BY <1>1, <1>3, <2>3
<1> QED
  BY <1>1, <1>2, <1>3

LEMMA RestFacts ==
  ASSUME GeneralInv, PlainInv, Plain, NEW t \in Threads, Scanning(t), NEW fd, fd = client[t][c[t]]
  PROVE  /\ Rest(t) \in SUBSET Fds /\ fd \in Rest(t) /\ fd \in Owned(t)
         /\ {client[t][k] : k \in (c[t] + 1) .. clients[t]} = Rest(t) \ {fd}
         /\ \A k \in 1 .. (c[t] - 1) : client[t][k] # fd
         /\ ret[t] = Cardinality(Rest(t) \cap readFD[t]) + Cardinality(Rest(t) \cap writeFD[t])
         /\ \A k \in 1 .. (c[t] - 1) :
               client[t][k] \in readFD[t] /\ (t \in Clients => client[t][k] \in writeFD[t])
<1>0. /\ pc[t] = "scan" /\ ~settings.epoll /\ InLoop(t) /\ c[t] \in 1 .. clients[t] /\ fd \in InUse(t)
  BY ScanFacts
<1>1. clients[t] \in Nat /\ InUse(t) \in SUBSET Fds
  BY <1>0, SelectFacts
<1>2. /\ InUse(t) \subseteq Owned(t)
      /\ \A j, k \in 1 .. clients[t] : j # k => client[t][j] # client[t][k]
  BY <1>0, InUseIsMine
<1>3. Rest(t) \in SUBSET Fds /\ fd \in Rest(t)
  <2>1. \A k \in c[t] .. clients[t] : k \in 1 .. clients[t]
    BY <1>0, <1>1
  <2>2. c[t] \in c[t] .. clients[t]
    BY <1>0, <1>1
  <2> QED
    BY <1>1, <2>1, <2>2 DEF Rest, InUse
<1>4. {client[t][k] : k \in (c[t] + 1) .. clients[t]} = Rest(t) \ {fd}
  <2>1. \A k \in (c[t] + 1) .. clients[t] : k \in c[t] .. clients[t] /\ client[t][k] # fd
    BY <1>0, <1>1, <1>2
  <2>2. \A k \in c[t] .. clients[t] : client[t][k] # fd => k \in (c[t] + 1) .. clients[t]
    BY <1>0, <1>1
  <2> QED
    BY <2>1, <2>2 DEF Rest
<1>5. \A k \in 1 .. (c[t] - 1) : client[t][k] # fd
  BY <1>0, <1>1, <1>2
<1>6. ScanInv(t)
  BY <1>0, PlainFacts
<1> QED
  BY <1>0, <1>2, <1>3, <1>4, <1>5, <1>6 DEF ScanInv

\* A socket has been looked at, its bits are counted off and it is asked about
\* again.
LEMMA ScansOnPlain ==
  ASSUME GeneralInv, PlainInv, Plain, NEW t \in Threads, Scanning(t), NEW fd, fd = client[t][c[t]],
         readFD'[t] = readFD[t] \cup {fd},
         writeFD'[t] \ {fd} = writeFD[t] \ {fd}, t \in Clients => fd \in writeFD'[t],
         ret'[t] = ret[t] - (IF fd \in readFD[t] THEN 1 ELSE 0) - (IF fd \in writeFD[t] THEN 1 ELSE 0),
         c' = [c EXCEPT ![t] = @ + 1], pc'[t] \in {"scan", "abandon"},
         UNCHANGED <<files, client, clients, nfds>>, ScanUnchanged
  PROVE  PlainOf(t)' /\ \A u \in Threads : OwnsSame(u)
<1> USE DEF ScanUnchanged
<1>0. TypeOK /\ TableInv /\ pc[t] = "scan" /\ c[t] \in 1 .. clients[t] /\ clients[t] \in Nat
  <2>1. pc[t] = "scan" /\ ~settings.epoll /\ InLoop(t) /\ c[t] \in 1 .. clients[t]
    BY ScanFacts
  <2> QED
    BY <2>1, SelectFacts
<1>1. \A u \in Threads : OwnsSame(u)
  BY <1>0, FilesKept
<1>2. KeepsInv(t)' /\ ClosingInv(t)'
  BY <1>0, <1>1, GetsOn, NothingToClose
<1>3. ScanInv(t)'
  <2> DEFINE R == Rest(t) \cap readFD[t]
             W == Rest(t) \cap writeFD[t]
  <2>1. /\ Rest(t) \in SUBSET Fds /\ fd \in Rest(t)
        /\ {client[t][k] : k \in (c[t] + 1) .. clients[t]} = Rest(t) \ {fd}
        /\ \A k \in 1 .. (c[t] - 1) : client[t][k] # fd
        /\ ret[t] = Cardinality(R) + Cardinality(W)
        /\ \A k \in 1 .. (c[t] - 1) :
              client[t][k] \in readFD[t] /\ (t \in Clients => client[t][k] \in writeFD[t])
    BY RestFacts
  <2>2. c'[t] = c[t] + 1 /\ InUse(t)' = InUse(t)
    BY <1>0 DEF TypeOK, InUse
  <2>3. Rest(t)' = Rest(t) \ {fd}
    BY <2>1, <2>2 DEF Rest
  <2>4. Rest(t)' \cap readFD'[t] = R \ {fd} /\ Rest(t)' \cap writeFD'[t] = W \ {fd}
    BY <2>3
  <2>5. fd \in R <=> fd \in readFD[t]
    BY <2>1
  <2>6. fd \in W <=> fd \in writeFD[t]
    BY <2>1
  <2>7. R \in SUBSET Fds /\ W \in SUBSET Fds
    BY <2>1
  <2> HIDE DEF R, W
  <2>8. /\ Cardinality(R) \in Nat /\ Cardinality(R \ {fd}) \in Nat
        /\ Cardinality(R \ {fd}) = Cardinality(R) - (IF fd \in R THEN 1 ELSE 0)
        /\ Cardinality(W) \in Nat /\ Cardinality(W \ {fd}) \in Nat
        /\ Cardinality(W \ {fd}) = Cardinality(W) - (IF fd \in W THEN 1 ELSE 0)
    BY <1>0, <2>7, CountOff
  <2>9. ret'[t] = Cardinality(R \ {fd}) + Cardinality(W \ {fd})
    BY <2>1, <2>5, <2>6, <2>8
  <2>10. \A k \in 1 .. (c'[t] - 1) :
            client[t][k] \in readFD'[t] /\ (t \in Clients => client[t][k] \in writeFD'[t])
    <3> TAKE k \in 1 .. (c'[t] - 1)
    <3>1. CASE k = c[t]
      BY <3>1
    <3>2. CASE k # c[t]
      <4>1. k \in 1 .. (c[t] - 1)
        BY <1>0, <2>2, <3>2
      <4> QED
        BY <2>1, <4>1
    <3> QED
      BY <3>1, <3>2
  <2>11. \A x \in InUse(t)' : x < nfds'[t]
    <3>1. \A x \in InUse(t) : x < nfds[t]
      BY <1>0, PlainFacts DEF ScanInv, InLoop
    <3> QED
      BY <2>2, <3>1
  <2> QED
    BY <2>4, <2>9, <2>10, <2>11 DEF ScanInv
<1> QED
  BY <1>1, <1>2, <1>3 DEF PlainOf

LEMMA SkipRestPlain ==
  ASSUME GeneralInv, PlainInv, Plain, NEW t \in Threads, SkipRest(t)
  PROVE  PlainOf(t)' /\ \A u \in Threads : OwnsSame(u)
<1> DEFINE fd == client[t][c[t]]
<1>0. /\ Scanning(t) /\ ret[t] = 0 /\ ScanUnchanged /\ c' = [c EXCEPT ![t] = @ + 1]
      /\ UNCHANGED <<files, pc, client, clients, nfds, ret>>
      /\ readFD' = [readFD EXCEPT ![t] = @ \cup {fd}]
      /\ writeFD' = [writeFD EXCEPT ![t] = Watched(t, fd, @)]
      /\ TypeOK /\ pc[t] = "scan"
  BY DEF SkipRest, GeneralInv, Scanning
<1>1. /\ Rest(t) \in SUBSET Fds /\ fd \in Rest(t)
      /\ ret[t] = Cardinality(Rest(t) \cap readFD[t]) + Cardinality(Rest(t) \cap writeFD[t])
  BY <1>0, RestFacts
<1> HIDE DEF fd
<1>2. fd \notin readFD[t] /\ fd \notin writeFD[t]
  <2> DEFINE R == Rest(t) \cap readFD[t]
             W == Rest(t) \cap writeFD[t]
  <2>1. R \in SUBSET Fds /\ W \in SUBSET Fds
    BY <1>1
  <2>2. IsFiniteSet(R) /\ IsFiniteSet(W) /\ Cardinality(R) \in Nat /\ Cardinality(W) \in Nat
    BY <1>0, <2>1, OpenOnesFinite
  <2>3. Cardinality(R) = 0 /\ Cardinality(W) = 0
    BY <1>0, <1>1, <2>2
  <2>4. R = {} /\ W = {}
    BY <2>2, <2>3, FS_EmptySet
  <2> QED
    BY <1>1, <2>4
<1>3. readFD'[t] = readFD[t] \cup {fd} /\ writeFD'[t] = Watched(t, fd, writeFD[t])
  BY <1>0 DEF TypeOK
<1>4. writeFD'[t] \ {fd} = writeFD[t] \ {fd} /\ (t \in Clients => fd \in writeFD'[t])
  BY <1>3 DEF Watched
<1>5. ret'[t] = ret[t] - (IF fd \in readFD[t] THEN 1 ELSE 0) - (IF fd \in writeFD[t] THEN 1 ELSE 0)
  BY <1>0, <1>2
<1> QED
  BY <1>0, <1>3, <1>4, <1>5, ScansOnPlain DEF fd

LEMMA WriteToPlain ==
  ASSUME GeneralInv, PlainInv, Plain, NEW t \in Threads, Scanning(t), NEW fd, fd = client[t][c[t]],
         readFD' = [readFD EXCEPT ![t] = @ \cup {fd}], WriteTo(t, fd),
         UNCHANGED <<files, client, clients, nfds, return_stats>>, ScanUnchanged
  PROVE  PlainOf(t)' /\ \A u \in Threads : OwnsSame(u)
<1>0. TypeOK /\ pc[t] = "scan" /\ ret[t] \in Int
  BY ScanFacts DEF GeneralInv
<1>1. readFD'[t] = readFD[t] \cup {fd} /\ c' = [c EXCEPT ![t] = @ + 1]
      /\ pc'[t] \in {"scan", "abandon"}
  BY <1>0 DEF TypeOK, WriteTo, Abandon, Goto
<1>2. CASE fd \in writeFD[t]
  <2>1. ret' = [ret EXCEPT ![t] = IF fd \in readFD[t] THEN @ - 2 ELSE @ - 1] /\ writeFD' = writeFD
    BY <1>2 DEF WriteTo
  <2>2. ret'[t] = ret[t] - (IF fd \in readFD[t] THEN 1 ELSE 0) - 1
    BY <1>0, <2>1 DEF TypeOK
  <2>3. ret'[t] = ret[t] - (IF fd \in readFD[t] THEN 1 ELSE 0) - (IF fd \in writeFD[t] THEN 1 ELSE 0)
    BY <1>2, <2>2
  <2> QED
    BY <1>1, <1>2, <2>1, <2>3, ScansOnPlain
<1>3. CASE fd \notin writeFD[t]
  <2>1. /\ ret' = [ret EXCEPT ![t] = IF fd \in readFD[t] THEN @ - 1 ELSE @]
        /\ writeFD' = [writeFD EXCEPT ![t] = Watched(t, fd, @)]
    BY <1>3 DEF WriteTo
  <2>2. ret'[t] = ret[t] - (IF fd \in readFD[t] THEN 1 ELSE 0) - 0
    BY <1>0, <2>1 DEF TypeOK
  <2>3. ret'[t] = ret[t] - (IF fd \in readFD[t] THEN 1 ELSE 0) - (IF fd \in writeFD[t] THEN 1 ELSE 0)
    BY <1>3, <2>2
  <2>4. writeFD'[t] = Watched(t, fd, writeFD[t])
    BY <1>0, <2>1 DEF TypeOK
  <2>5. writeFD'[t] \ {fd} = writeFD[t] \ {fd} /\ (t \in Clients => fd \in writeFD'[t])
    BY <2>4 DEF Watched
  <2> QED
    BY <1>1, <2>3, <2>5, ScansOnPlain
<1> QED
  BY <1>2, <1>3

LEMMA RemoveFromSelectPlain ==
  ASSUME GeneralInv, PlainInv, Plain, NEW t \in Threads, Scanning(t), NEW fd, fd = client[t][c[t]],
         settings.stream, fd \in readFD[t], RemoveFromSelect(t, fd), ScanUnchanged
  PROVE  PlainOf(t)' /\ \A u \in Threads : u # t => OwnsSame(u)
<1> USE DEF ScanUnchanged
<1>0. /\ pc[t] = "scan" /\ ~settings.epoll /\ InLoop(t) /\ c[t] \in 1 .. clients[t] /\ ret[t] \in Int
  BY ScanFacts
<1>1. /\ TypeOK /\ TableInv /\ Connections \in Nat \ {0} /\ clients[t] \in 0 .. Connections
      /\ client[t] \in [Slots -> MaybeFds] /\ InUse(t) \in SUBSET Fds /\ INVALID \notin InUse(t)
  BY <1>0, SelectFacts
<1>2. HoldsInv(t) /\ KeepsInv(t) /\ t \in settings.threads
  BY <1>0, PlainFacts DEF KeepsInv
<1> DEFINE k == c[t]
           n == clients[t]
           b == MovedDown(client[t], k, n)
<1>3. n \in 1 .. Connections /\ k \in 1 .. n /\ n \in Nat /\ k \in Nat
  BY <1>0, <1>1
<1>4. /\ Closed(t, fd) /\ settings' = settings /\ s' = s /\ closing' = closing /\ c' = c
      /\ client' = [client EXCEPT ![t] = b]
      /\ clients' = [clients EXCEPT ![t] = @ - 1]
      /\ ret' = [ret EXCEPT ![t] = @ - BitsOf(t, fd)]
      /\ readFD' = [readFD EXCEPT ![t] = @ \ {fd}]
      /\ writeFD' = [writeFD EXCEPT ![t] = @ \ {fd}]
      /\ nfds' = [nfds EXCEPT ![t] = HighestOf({client'[t][i] : i \in 1 .. (clients[t] - 1)}) + 1]
      /\ IF clients[t] = 1 THEN LeaveLoop(t) ELSE UNCHANGED pc
  BY DEF RemoveFromSelect
<1>5. /\ b \in [Slots -> MaybeFds]
      /\ \A i \in 1 .. (k - 1) : b[i] = client[t][i]
      /\ \A i \in k .. (n - 1) : b[i] = client[t][i + 1]
  <2>1. TypeOK /\ client[t] \in [Slots -> MaybeFds] /\ n \in 1 .. Connections /\ k \in 1 .. n
    BY <1>1, <1>3
  <2> HIDE DEF k, n
  <2> QED
    BY <2>1, MovedDownFacts
<1>6. ASSUME NEW i \in 1 .. (n - 1)
      PROVE  \E j \in 1 .. n : /\ j # k /\ b[i] = client[t][j]
                               /\ (i < k => j = i) /\ (i >= k => j = i + 1)
  <2> HIDE DEF b, k, n
  <2>1. CASE i < k
    <3>1. i \in 1 .. (k - 1) /\ i \in 1 .. n /\ i # k /\ ~(i >= k)
      BY <1>3, <2>1
    <3>2. b[i] = client[t][i]
      BY <1>5, <3>1
    <3> QED
      BY <3>1, <3>2
  <2>2. CASE i >= k
    <3>1. i \in k .. (n - 1) /\ i + 1 \in 1 .. n /\ i + 1 # k /\ ~(i < k)
      BY <1>3, <2>2
    <3>2. b[i] = client[t][i + 1]
      BY <1>5, <3>1
    <3> QED
      BY <3>1, <3>2
  <2> QED
    BY <1>3, <2>1, <2>2
<1>a. ASSUME NEW j \in 1 .. n, j # k
      PROVE  \E i \in 1 .. (n - 1) : b[i] = client[t][j] /\ (j > k => i >= k)
  <2> HIDE DEF b, k, n
  <2>1. CASE j < k
    <3>1. j \in 1 .. (k - 1) /\ j \in 1 .. (n - 1) /\ ~(j > k)
      BY <1>3, <2>1
    <3>2. b[j] = client[t][j]
      BY <1>5, <3>1
    <3> QED
      BY <3>1, <3>2
  <2>2. CASE j > k
    <3>1. j - 1 \in k .. (n - 1) /\ (j - 1) + 1 = j /\ j - 1 \in 1 .. (n - 1) /\ j - 1 >= k
      BY <1>3, <2>2
    <3>2. b[j - 1] = client[t][(j - 1) + 1]
      BY <1>5, <3>1
    <3> QED
      BY <3>1, <3>2
  <2> QED
    BY <1>3, <1>a, <2>1, <2>2
<1>7. /\ client'[t] = b /\ clients'[t] = n - 1 /\ ret'[t] = ret[t] - BitsOf(t, fd)
      /\ readFD'[t] = readFD[t] \ {fd} /\ writeFD'[t] = writeFD[t] \ {fd}
      /\ nfds'[t] = HighestOf({b[i] : i \in 1 .. (n - 1)}) + 1
      /\ pc'[t] \in {"scan", "abandon"}
  BY <1>0, <1>1, <1>4 DEF TypeOK, LeaveLoop, Abandon, Goto
<1> HIDE DEF b
<1>8. /\ InUse(t) \subseteq Owned(t)
      /\ \A i, j \in 1 .. n : i # j => client[t][i] # client[t][j]
  BY <1>0, InUseIsMine
<1>9. /\ fd \in Owned(t) /\ Files(t)[fd].kind \in Transfers
      /\ \A i \in 1 .. n : client[t][i] \in Owned(t) /\ Files(t)[client[t][i]].kind \in Transfers
  <2>1. InUse(t) \subseteq OpenOnes(t)
    BY <1>0, InUseIsMine
  <2> QED
    BY <1>3, <1>8, <2>1, OpenOnesAreOwned DEF InUse
<1>10. /\ Owned(t)' = Owned(t) \ {fd} /\ OwnsLess(t)
       /\ \A u \in Threads : u # t => OwnsSame(u)
  <2>1. FileAt(t, fd).owner = t
    BY <1>9 DEF Owned
  <2> QED
    BY <1>1, <1>4, <2>1, ClosedEffect
<1>11. /\ Transfers' = Transfers /\ Fault("options")' = Fault("options")
       /\ \A x \in Owned(t)' : Files(t)'[x] = Files(t)[x]
  BY <1>4, <1>10, SameSettings, NoOptions DEF OwnsLess
<1>12. s[t] # fd
  <2>1. CASE s[t] = INVALID
    BY <1>9, <2>1, OpenOrOwned, <1>1
  <2>2. CASE s[t] # INVALID
    <3>1. Files(t)[s[t]].kind = "listen" /\ Transfers = {"connection"}
      BY <1>2, <2>2 DEF HoldsInv, Transfers, FileAt
    <3> QED
      BY <1>9, <3>1
  <2> QED
    BY <2>1, <2>2
<1>13. \A i \in 1 .. (n - 1) :
          /\ b[i] \in Owned(t)' /\ Files(t)'[b[i]].kind \in Transfers /\ b[i] \in InUse(t)
          /\ \A m \in 1 .. (n - 1) : m # i => b[m] # b[i]
  <2> TAKE i \in 1 .. (n - 1)
  <2>1. PICK j \in 1 .. n :
            j # k /\ b[i] = client[t][j] /\ (i < k => j = i) /\ (i >= k => j = i + 1)
    BY <1>6
  <2>2. b[i] # fd /\ b[i] \in InUse(t)
    BY <1>3, <1>8, <2>1 DEF InUse
  <2>3. b[i] \in Owned(t)' /\ Files(t)'[b[i]].kind \in Transfers
    BY <1>9, <1>10, <1>11, <2>1, <2>2
  <2>4. ASSUME NEW m \in 1 .. (n - 1), m # i PROVE b[m] # b[i]
    <3>1. PICK l \in 1 .. n :
              l # k /\ b[m] = client[t][l] /\ (m < k => l = m) /\ (m >= k => l = m + 1)
      BY <1>6
    <3>2. l # j
      BY <1>3, <2>1, <2>4, <3>1
    <3> QED
      BY <1>8, <2>1, <3>1, <3>2
  <2> QED
    BY <2>2, <2>3, <2>4
<1>14. InUse(t)' = {b[i] : i \in 1 .. (n - 1)}
  BY <1>7 DEF InUse
<1>15. HoldsInv(t)'
  <2>1. s'[t] # INVALID => s'[t] \in Owned(t)' /\ Files(t)'[s'[t]].kind = "listen"
    BY <1>2, <1>4, <1>10, <1>11, <1>12 DEF HoldsInv, FileAt
  <2>2. ASSUME ~Fault("options"), NEW x \in Owned(t)' PROVE x = s'[t] \/ x \in InUse(t)'
    <3>1. x \in Owned(t) /\ x # fd
      BY <1>10
    <3>2. CASE x = s[t]
      BY <1>4, <3>2
    <3>3. CASE x \in InUse(t)
      <4>1. PICK j \in 1 .. n : x = client[t][j]
        BY <3>3 DEF InUse
      <4>2. j # k
        BY <3>1, <4>1
      <4>3. PICK i \in 1 .. (n - 1) : b[i] = x
        BY <1>a, <4>1, <4>2
      <4> QED
        BY <1>14, <4>3
    <3> QED
      BY <1>2, <2>2, <3>1, <3>2, <3>3 DEF HoldsInv
  <2>3. client'[t] # <<>>
    BY <1>1, <1>5, <1>7 DEF Slots
  <2> QED
    BY <1>7, <1>11, <1>13, <2>1, <2>2, <2>3 DEF HoldsInv, FileAt
<1>16. KeepsInv(t)'
  BY <1>2, <1>4, <1>7, <1>15 DEF KeepsInv
<1>17. ClosingInv(t)'
  BY <1>0, <1>4, <1>7, NothingToClose
<1>18. ScanInv(t)'
  <2> DEFINE R == Rest(t) \cap readFD[t]
             W == Rest(t) \cap writeFD[t]
  <2>1. /\ Rest(t) \in SUBSET Fds /\ fd \in Rest(t)
        /\ {client[t][j] : j \in (k + 1) .. n} = Rest(t) \ {fd}
        /\ \A i \in 1 .. (k - 1) : client[t][i] # fd
        /\ ret[t] = Cardinality(R) + Cardinality(W)
        /\ \A i \in 1 .. (k - 1) :
              client[t][i] \in readFD[t] /\ (t \in Clients => client[t][i] \in writeFD[t])
    BY RestFacts
  <2>2. Rest(t)' = Rest(t) \ {fd}
    <3>1. Rest(t)' = {b[i] : i \in k .. (n - 1)}
      BY <1>4, <1>7 DEF Rest
    <3>2. ASSUME NEW i \in k .. (n - 1) PROVE b[i] \in {client[t][j] : j \in (k + 1) .. n}
      <4>1. i \in 1 .. (n - 1) /\ i >= k
        BY <1>3
      <4>2. i + 1 \in (k + 1) .. n /\ b[i] = client[t][i + 1]
        BY <1>3, <1>6, <4>1
      <4> QED
        BY <4>2
    <3>3. ASSUME NEW j \in (k + 1) .. n PROVE client[t][j] \in {b[i] : i \in k .. (n - 1)}
      <4>1. j \in 1 .. n /\ j # k /\ j > k
        BY <1>3
      <4>2. PICK i \in 1 .. (n - 1) : b[i] = client[t][j] /\ i >= k
        BY <1>a, <4>1
      <4>3. i \in k .. (n - 1)
        BY <1>3, <4>2
      <4> QED
        BY <4>2, <4>3
    <3>4. {b[i] : i \in k .. (n - 1)} = {client[t][j] : j \in (k + 1) .. n}
      BY <3>2, <3>3
    <3> QED
      BY <2>1, <3>1, <3>4
  <2>3. /\ Rest(t)' \cap readFD'[t] = R \ {fd} /\ Rest(t)' \cap writeFD'[t] = W \ {fd}
        /\ fd \in R /\ (fd \in W <=> fd \in writeFD[t])
        /\ R \in SUBSET Fds /\ W \in SUBSET Fds
    BY <1>7, <2>1, <2>2
  <2> HIDE DEF R, W
  <2>4. /\ Cardinality(R) \in Nat /\ Cardinality(R \ {fd}) \in Nat
        /\ Cardinality(R \ {fd}) = Cardinality(R) - (IF fd \in R THEN 1 ELSE 0)
        /\ Cardinality(W) \in Nat /\ Cardinality(W \ {fd}) \in Nat
        /\ Cardinality(W \ {fd}) = Cardinality(W) - (IF fd \in W THEN 1 ELSE 0)
    <3>1. R \in SUBSET Fds /\ W \in SUBSET Fds
      BY <2>3
    <3> QED
      BY <1>1, <3>1, CountOff
  <2>5. ret'[t] = Cardinality(R \ {fd}) + Cardinality(W \ {fd})
    BY <1>0, <1>7, <2>1, <2>3, <2>4 DEF BitsOf
  <2>6. \A i \in 1 .. (c'[t] - 1) :
            b[i] \in readFD'[t] /\ (t \in Clients => b[i] \in writeFD'[t])
    BY <1>4, <1>5, <1>7, <2>1
  <2>7. \A x \in InUse(t)' : x < nfds'[t]
    <3>1. InUse(t)' \in SUBSET Fds
      BY <1>1, <1>13, <1>14
    <3> QED
      BY <1>1, <1>7, <1>14, <3>1, HighestOfType
  <2> QED
    BY <1>7, <2>3, <2>5, <2>6, <2>7 DEF ScanInv
<1> QED
  BY <1>10, <1>16, <1>17, <1>18 DEF PlainOf

\* recv() tells of a peer that is gone only where there are streams.
LEMMA ClosedIsStream ==
  ASSUME GeneralInv, PlainInv, Plain, NEW t \in Threads, NEW fd,
         "closed" \in RecvResults(t, fd) \cup {"none"}
  PROVE  settings.stream
<1> SUFFICES ASSUME ~settings.stream PROVE FALSE
  BY DEF GeneralInv, TypeOK
<1>1. Received(t, fd) = "closed"
  BY DEF RecvResults
<1>2. IsSocket(t, fd)
  BY <1>1 DEF Received
<1>3. fd \in DOMAIN Files(t) /\ FileAt(t, fd).kind \in {"listen", "connection"}
  BY <1>2 DEF IsSocket, IsOpen, Transfers
<1>4. FileAt(t, fd).owner \in Threads /\ FileAt(t, fd).k \in Slots
  BY <1>3, FileFacts, SettingsShape DEF IsFile, Slots, GeneralInv
<1>5. PeerAt(t, fd) \in Peers /\ PeerAt(t, fd) # "closed"
  BY <1>4 DEF PeerAt, PlainInv, PeersInv, GeneralInv, TypeOK
<1> QED
  BY <1>1, <1>2, <1>5 DEF Received, Peers

LEMMA ScanNextPlain ==
  ASSUME GeneralInv, PlainInv, Plain, NEW t \in Threads, ScanNext(t)
  PROVE  PlainOf(t)' /\ \A u \in Threads : u # t => OwnsSame(u)
<1> DEFINE fd == client[t][c[t]]
<1>0. Scanning(t) /\ ScanUnchanged /\ pc[t] = "scan"
  BY DEF ScanNext, Scanning
<1>1. PICK result \in IF fd \in readFD[t] THEN RecvResults(t, fd) ELSE {"none"} :
          \/ result = "closed" /\ RemoveFromSelect(t, fd)
          \/ /\ Abandon(t)
             /\ UNCHANGED <<files, client, clients, readFD, writeFD, nfds, ret, c, return_stats>>
          \/ /\ readFD' = [readFD EXCEPT ![t] = @ \cup {fd}]
             /\ WriteTo(t, fd)
             /\ UNCHANGED <<files, client, clients, nfds, return_stats>>
  BY DEF ScanNext
<1>2. fd = client[t][c[t]]
  OBVIOUS
<1> HIDE DEF fd
<1>3. CASE result = "closed" /\ RemoveFromSelect(t, fd)
  <2>1. fd \in readFD[t] /\ "closed" \in RecvResults(t, fd) \cup {"none"}
    BY <1>1, <1>3
  <2>2. settings.stream
    BY <2>1, ClosedIsStream
  <2> QED
    BY <1>0, <1>2, <1>3, <2>1, <2>2, RemoveFromSelectPlain
<1>4. CASE /\ Abandon(t)
           /\ UNCHANGED <<files, client, clients, readFD, writeFD, nfds, ret, c, return_stats>>
  <2>1. pc'[t] = "abandon"
    BY <1>4 DEF Abandon, Goto, GeneralInv, TypeOK
  <2> QED
    BY <1>0, <1>4, <2>1, GetsOnPlain DEF ScanUnchanged
<1>5. CASE /\ readFD' = [readFD EXCEPT ![t] = @ \cup {fd}]
           /\ WriteTo(t, fd)
           /\ UNCHANGED <<files, client, clients, nfds, return_stats>>
  BY <1>0, <1>2, <1>5, WriteToPlain
<1> QED
  BY <1>1, <1>3, <1>4, <1>5

\* At the end of the scan there is nothing left to look at.
LEMMA ScanOver ==
  ASSUME GeneralInv, PlainInv, Plain, NEW t \in Threads, pc[t] = "scan", c[t] > clients[t]
  PROVE  /\ ret[t] = 0 /\ readFD[t] = InUse(t) /\ (t \in Clients => writeFD[t] = InUse(t))
         /\ \A fd \in InUse(t) : fd < nfds[t]
<1>0. InLoop(t) /\ ~settings.epoll /\ ScanInv(t) /\ c[t] \in Nat /\ clients[t] \in Nat
  BY PlainFacts DEF InLoop
<1>1. readFD[t] \subseteq InUse(t) /\ writeFD[t] \subseteq InUse(t)
  BY <1>0, SelectFacts
<1>2. Rest(t) = {}
  BY <1>0 DEF Rest
<1>3. Rest(t) \cap readFD[t] = {} /\ Rest(t) \cap writeFD[t] = {}
  BY <1>2
<1>4. ret[t] = 0
  <2>1. Cardinality(Rest(t) \cap readFD[t]) = 0 /\ Cardinality(Rest(t) \cap writeFD[t]) = 0
    BY <1>3, FS_EmptySet
  <2>2. ret[t] = Cardinality(Rest(t) \cap readFD[t]) + Cardinality(Rest(t) \cap writeFD[t])
    BY <1>0 DEF ScanInv
  <2> QED
    BY <2>1, <2>2
<1>5. \A k \in 1 .. clients[t] : k \in 1 .. (c[t] - 1)
  BY <1>0
<1>6. \A k \in 1 .. clients[t] : client[t][k] \in readFD[t] /\ (t \in Clients => client[t][k] \in writeFD[t])
  BY <1>0, <1>5 DEF ScanInv
<1>7. InUse(t) \subseteq readFD[t] /\ (t \in Clients => InUse(t) \subseteq writeFD[t])
  BY <1>6 DEF InUse
<1> QED
  BY <1>0, <1>1, <1>4, <1>7 DEF ScanInv

LEMMA EndScanPlain ==
  ASSUME GeneralInv, PlainInv, Plain, NEW t \in Threads, EndScan(t), ~(t \in Clients /\ ret[t] # 0)
  PROVE  PlainOf(t)' /\ \A u \in Threads : OwnsSame(u)
<1>0. /\ pc[t] = "scan" /\ pc' = [pc EXCEPT ![t] = "wait"] /\ c[t] > clients[t]
      /\ UNCHANGED <<settings, files, client, clients, s, loopVars, endVars>>
  BY DEF EndScan, Goto
<1> USE DEF loopVars, endVars
<1>1. TypeOK /\ TableInv /\ pc'[t] = "wait"
  BY <1>0 DEF GeneralInv, TypeOK
<1>2. \A u \in Threads : OwnsSame(u)
  BY <1>0, <1>1, FilesKept
<1>3. KeepsInv(t)' /\ ClosingInv(t)'
  BY <1>0, <1>1, <1>2, GetsOn, NothingToClose
<1>4. /\ readFD[t] = InUse(t) /\ (t \in Clients => writeFD[t] = InUse(t))
      /\ \A fd \in InUse(t) : fd < nfds[t]
  BY <1>0, ScanOver
<1>5. InUse(t)' = InUse(t)
  BY <1>0 DEF InUse
<1>6. ScanInv(t)'
  BY <1>0, <1>1, <1>4, <1>5 DEF ScanInv
<1> QED
  BY <1>2, <1>3, <1>6 DEF PlainOf

-----------------------------------------------------------------------------
(* The clean-up and the statistics, once more.                             *)

\* What is in the list of the clean-up, and where.
LEMMA CleanupPlaces ==
  ASSUME GeneralInv, PlainInv, Plain, NEW t \in Threads, NEW d, d = IF t \in Servers THEN 2 ELSE 0
  PROVE  /\ \A k \in 1 .. Len(UsedPart(t)) :
               k + d \in DOMAIN CleanupList(t) /\ CleanupList(t)[k + d] = UsedPart(t)[k]
         /\ t \in Servers => 2 \in DOMAIN CleanupList(t) /\ CleanupList(t)[2] = s[t]
         /\ \A i \in DOMAIN CleanupList(t) :
               \/ i - d \in 1 .. Len(UsedPart(t)) /\ CleanupList(t)[i] = UsedPart(t)[i - d]
               \/ CleanupList(t)[i] = INVALID
               \/ t \in Servers /\ i = 2 /\ CleanupList(t)[i] = s[t]
<1> DEFINE U == UsedPart(t)
<1>0. TypeOK /\ readFD_epoll[t] = INVALID
  BY DEF GeneralInv, PlainInv, PeersInv
<1>1. U \in Seq(MaybeFds) /\ Len(U) \in Nat /\ s[t] \in MaybeFds /\ INVALID \in MaybeFds
  <2>1. U \in Seq(MaybeFds)
    BY <1>0, CleanupListType
  <2> QED
    BY <1>0, <2>1 DEF TypeOK, MaybeFds
<1>2. CleanupList(t) = IF t \in Servers THEN <<INVALID, s[t]>> \o U ELSE Append(U, INVALID)
  BY <1>0 DEF CleanupList
<1> HIDE DEF U
<1>3. CASE t \in Servers
  <2>1. PICK p : p = <<INVALID, s[t]>>
    OBVIOUS
  <2>2. p \in Seq(MaybeFds) /\ Len(p) = 2 /\ p[1] = INVALID /\ p[2] = s[t]
    BY <1>1, <2>1
  <2>3. CleanupList(t) = p \o U /\ d = 2
    BY <1>2, <1>3, <2>1
  <2>4. /\ Len(p \o U) = 2 + Len(U) /\ DOMAIN (p \o U) = 1 .. (2 + Len(U))
        /\ \A i \in 1 .. (2 + Len(U)) : (p \o U)[i] = IF i <= 2 THEN p[i] ELSE U[i - 2]
    <3>1. p \o U \in Seq(MaybeFds) /\ Len(p \o U) = Len(p) + Len(U)
      BY <1>1, <2>2, ConcatProperties
    <3>2. \A i \in 1 .. Len(p) + Len(U) :
             (p \o U)[i] = IF i <= Len(p) THEN p[i] ELSE U[i - Len(p)]
      BY <1>1, <2>2, ConcatProperties
    <3>3. DOMAIN (p \o U) = 1 .. (Len(p) + Len(U))
      BY <3>1
    <3> QED
      BY <2>2, <3>1, <3>2, <3>3
  <2>5. \A i \in 1 .. (2 + Len(U)) : i = 1 \/ i = 2 \/ (i - 2 \in 1 .. Len(U) /\ ~(i <= 2))
    BY <1>1
  <2>6. \A k \in 1 .. Len(U) : k + 2 \in 1 .. (2 + Len(U)) /\ ~(k + 2 <= 2) /\ (k + 2) - 2 = k
    BY <1>1
  <2>7. 2 \in 1 .. (2 + Len(U))
    BY <1>1
  <2>8. \A k \in 1 .. Len(U) : k + d \in DOMAIN CleanupList(t) /\ CleanupList(t)[k + d] = U[k]
    BY <2>3, <2>4, <2>6
  <2>9. 2 \in DOMAIN CleanupList(t) /\ CleanupList(t)[2] = s[t]
    BY <2>2, <2>3, <2>4, <2>7
  <2>10. \A i \in DOMAIN CleanupList(t) :
               \/ i - d \in 1 .. Len(U) /\ CleanupList(t)[i] = U[i - d]
               \/ CleanupList(t)[i] = INVALID
               \/ i = 2 /\ CleanupList(t)[i] = s[t]
    BY <2>2, <2>3, <2>4, <2>5
  <2> QED
    BY <1>3, <2>8, <2>9, <2>10 DEF U
<1>4. CASE t \notin Servers
  <2>1. CleanupList(t) = Append(U, INVALID) /\ d = 0
    BY <1>2, <1>4
  <2>2. /\ DOMAIN Append(U, INVALID) = 1 .. (Len(U) + 1)
        /\ \A i \in 1 .. Len(U) : Append(U, INVALID)[i] = U[i]
        /\ Append(U, INVALID)[Len(U) + 1] = INVALID
    BY <1>1
  <2>3. \A i \in 1 .. (Len(U) + 1) : i \in 1 .. Len(U) \/ i = Len(U) + 1
    BY <1>1
  <2>4. \A i \in 1 .. Len(U) : i \in 1 .. (Len(U) + 1) /\ i + 0 = i /\ i - 0 = i
    BY <1>1
  <2>5. \A k \in 1 .. Len(U) : k + d \in DOMAIN CleanupList(t) /\ CleanupList(t)[k + d] = U[k]
    BY <2>1, <2>2, <2>4
  <2>6. \A i \in DOMAIN CleanupList(t) :
               \/ i - d \in 1 .. Len(U) /\ CleanupList(t)[i] = U[i - d]
               \/ CleanupList(t)[i] = INVALID
    BY <2>1, <2>2, <2>3, <2>4
  <2> QED
    BY <1>4, <2>5, <2>6 DEF U
<1> QED
  BY <1>3, <1>4

\* A thread that cleans up closes what it owns, once.
LEMMA CleanupFacts ==
  ASSUME GeneralInv, PlainInv, Plain, NEW t \in Threads, pc[t] = "abandon"
  PROVE  /\ \A i \in DOMAIN CleanupList(t) :
               CleanupList(t)[i] # INVALID => CleanupList(t)[i] \in Owned(t)
         /\ settings.stream \/ t \in Clients =>
               \A i, j \in DOMAIN CleanupList(t) :
                  i # j /\ CleanupList(t)[i] # INVALID => CleanupList(t)[i] # CleanupList(t)[j]
         /\ ~Fault("options") => \A fd \in Owned(t) : \E i \in DOMAIN CleanupList(t) : CleanupList(t)[i] = fd
<1>0. TypeOK /\ HoldsInv(t) /\ KeepsInv(t) /\ clients[t] \in Nat
  BY PlainFacts DEF KeepsInv
<1>1. PICK d : d = IF t \in Servers THEN 2 ELSE 0
  OBVIOUS
<1>2. PICK l, m : l = CleanupList(t) /\ m = Len(UsedPart(t))
  OBVIOUS
<1>3. /\ \A k \in 1 .. m : k + d \in DOMAIN l /\ l[k + d] = UsedPart(t)[k]
      /\ t \in Servers => 2 \in DOMAIN l /\ l[2] = s[t]
      /\ \A i \in DOMAIN l :
            \/ i - d \in 1 .. m /\ l[i] = UsedPart(t)[i - d]
            \/ l[i] = INVALID
            \/ t \in Servers /\ i = 2 /\ l[i] = s[t]
  BY <1>1, <1>2, CleanupPlaces
<1>4. \A k \in 1 .. m : client[t] # <<>> /\ k \in 1 .. clients[t] /\ UsedPart(t)[k] = client[t][k]
  <2>1. CASE client[t] = <<>>
    <3>1. m = 0
      BY <1>0, <1>2, <2>1, CleanupListType
    <3> QED
      BY <3>1
  <2>2. CASE client[t] # <<>>
    BY <1>0, <1>2, <2>2, CleanupListType
  <2> QED
    BY <2>1, <2>2
<1>5. client[t] # <<>> => m = clients[t]
  BY <1>0, <1>2, CleanupListType
<1>6. DOMAIN l \subseteq Int /\ d \in Int
  <2>1. l \in Seq(MaybeFds)
    BY <1>0, <1>2, CleanupListType
  <2> QED
    BY <1>1, <2>1
<1>7. \A k \in 1 .. m : client[t][k] # INVALID =>
         /\ client[t][k] \in Owned(t) /\ FileAt(t, client[t][k]).kind \in Transfers
         /\ \A j \in 1 .. m : j # k => client[t][j] # client[t][k]
  BY <1>0, <1>4, <1>5 DEF HoldsInv
<1>8. \A i \in DOMAIN l : l[i] # INVALID => l[i] \in Owned(t)
  BY <1>0, <1>3, <1>4, <1>7 DEF HoldsInv
<1>9. ASSUME settings.stream \/ t \in Clients,
             NEW i \in DOMAIN l, NEW j \in DOMAIN l, i # j, l[i] # INVALID, l[i] = l[j]
      PROVE  FALSE
  <2>1. \A k \in 1 .. m : t \in Servers /\ s[t] # INVALID => client[t][k] # s[t]
    <3> SUFFICES ASSUME NEW k \in 1 .. m, t \in Servers, s[t] # INVALID, client[t][k] = s[t]
                 PROVE  FALSE
      OBVIOUS
    <3>1. settings.stream
      BY <1>9, Sizes
    <3>2. FileAt(t, s[t]).kind = "listen"
      BY <1>0 DEF HoldsInv
    <3>3. FileAt(t, s[t]).kind = "connection"
      BY <1>7, <3>1 DEF Transfers
    <3> QED
      BY <3>2, <3>3
  <2>2. CASE i - d \in 1 .. m /\ j - d \in 1 .. m /\ l[i] = client[t][i - d] /\ l[j] = client[t][j - d]
    <3>1. i - d # j - d
      BY <1>6, <1>9
    <3> QED
      BY <1>7, <1>9, <2>2, <3>1
  <2>3. CASE t \in Servers /\ (l[i] = s[t] \/ l[j] = s[t])
    <3>1. l[i] = s[t] /\ l[j] = s[t] /\ s[t] # INVALID
      BY <1>9, <2>3
    <3>2. i = 2
      BY <1>3, <1>4, <1>9, <2>1, <2>3, <3>1
    <3>3. j = 2
      BY <1>3, <1>4, <1>9, <2>1, <2>3, <3>1
    <3> QED
      BY <1>9, <3>2, <3>3
  <2> QED
    BY <1>3, <1>4, <1>9, <2>2, <2>3
<1>10. ASSUME ~Fault("options"), NEW fd \in Owned(t) PROVE \E i \in DOMAIN l : l[i] = fd
  <2>1. CASE fd = s[t]
    <3>1. t \in Servers
      BY <1>0, <2>1, OpenOrOwned, Sizes DEF KeepsInv
    <3> QED
      BY <1>3, <2>1, <3>1
  <2>2. CASE client[t] # <<>> /\ fd \in InUse(t)
    <3>1. PICK k \in 1 .. clients[t] : fd = client[t][k]
      BY <2>2 DEF InUse
    <3>2. k \in 1 .. m
      BY <1>5, <2>2, <3>1
    <3> QED
      BY <1>3, <1>4, <3>1, <3>2
  <2> QED
    BY <1>0, <1>10, <2>1, <2>2 DEF HoldsInv
<1> QED
  BY <1>2, <1>8, <1>9, <1>10

LEMMA EnterCleanupPlain ==
  ASSUME GeneralInv, PlainInv, Plain, NEW t \in Threads, EnterCleanup(t)
  PROVE  PlainOf(t)' /\ \A u \in Threads : OwnsSame(u)
<1> USE DEF EnterCleanup, loopVars, Goto
<1>0. /\ TypeOK /\ TableInv /\ settings' = settings /\ pc[t] = "abandon" /\ KeepsInv(t)
      /\ t \in settings.threads
  BY PlainFacts
<1>1. \A u \in Threads : OwnsSame(u)
  BY <1>0, FilesKept
<1>2. pc'[t] = "cleanup" /\ closing'[t] = CleanupList(t) /\ s'[t] = s[t]
  BY <1>0 DEF TypeOK
<1>3. Owned(t)' = Owned(t)
  BY <1>1 DEF OwnsSame
<1>4. Fault("options")' = Fault("options") /\ Files(t)' = Files(t) /\ INVALID' = INVALID
  BY <1>0, NoOptions, SameSettings DEF Files, INVALID
<1>5. PICK l : l = CleanupList(t)
  OBVIOUS
<1>6. /\ \A i \in DOMAIN l : l[i] # INVALID => l[i] \in Owned(t)
      /\ settings.stream \/ t \in Clients =>
            \A i, j \in DOMAIN l : i # j /\ l[i] # INVALID => l[i] # l[j]
      /\ ~Fault("options") => \A fd \in Owned(t) : \E i \in DOMAIN l : l[i] = fd
  BY <1>0, <1>5, CleanupFacts
<1>7. \A i \in DOMAIN l : l[i] \in DOMAIN Files(t)' => l[i] \in Owned(t)
  <2>1. INVALID \notin DOMAIN Files(t)
    BY <1>0, OpenOrOwned DEF IsOpen
  <2> QED
    BY <1>4, <1>6, <2>1
<1>8. ClosingInv(t)'
  BY <1>0, <1>2, <1>3, <1>4, <1>5, <1>6, <1>7 DEF ClosingInv, IsOpen
<1>9. KeepsInv(t)'
  BY <1>0, <1>2 DEF KeepsInv
<1> QED
  BY <1>1, <1>2, <1>8, <1>9 DEF PlainOf, ScanInv, InLoop

LEMMA CloseNextPlain ==
  ASSUME GeneralInv, PlainInv, Plain, NEW t \in Threads, CloseNext(t)
  PROVE  PlainOf(t)' /\ \A u \in Threads : u # t => OwnsSame(u)
<1> USE DEF CloseNext, loopVars
<1>0. /\ TypeOK /\ TableInv /\ settings' = settings /\ pc[t] = "cleanup" /\ pc' = pc /\ s' = s
      /\ KeepsInv(t) /\ ClosingInv(t) /\ t \in settings.threads
  BY PlainFacts
<1>1. PICK l, x : l = closing[t] /\ x = l[1]
  OBVIOUS
<1>2. l \in Seq(MaybeFds) /\ l # <<>> /\ Closed(t, x) /\ closing'[t] = Tail(l)
  BY <1>0, <1>1 DEF TypeOK
<1>3. PICK m : m = Tail(l)
  OBVIOUS
<1>4. \A i \in DOMAIN m : i + 1 \in DOMAIN l /\ i + 1 # 1 /\ m[i] = l[i + 1]
  BY <1>2, <1>3
<1>5. \A i \in DOMAIN l : i # 1 => i - 1 \in DOMAIN m /\ m[i - 1] = l[i]
  BY <1>2, <1>3
<1>6. 1 \in DOMAIN l /\ \A i, j \in DOMAIN m : i # j => i + 1 # j + 1
  BY <1>2, <1>3
<1>7. Owned(t)' = Owned(t) \ {x}
  BY <1>0, <1>2, ClosedEffect
<1>8. IsOpen(t, x) => FileAt(t, x).owner = t
  BY <1>0, <1>1, <1>6 DEF ClosingInv, Owned
<1>9. \A u \in Threads : u # t => OwnsSame(u)
  BY <1>0, <1>2, <1>8, ClosedEffect
<1>10. DOMAIN Files(t)' \subseteq DOMAIN Files(t) \ {x}
  <2>1. Process(t)' = Process(t) /\ Process(t) \in Procs
    BY <1>0, SameSettings, SettingsShape
  <2> QED
    BY <1>0, <1>2, <2>1 DEF Closed, Files, TypeOK, FilesOK
<1>11. Fault("options")' = Fault("options") /\ INVALID' = INVALID
  BY <1>0, NoOptions DEF INVALID
<1>12. \A i \in DOMAIN m : m[i] \in DOMAIN Files(t)' => m[i] \in Owned(t)'
  BY <1>0, <1>1, <1>4, <1>7, <1>10 DEF ClosingInv, IsOpen
<1>13. settings.stream \/ t \in Clients =>
          \A i \in DOMAIN m : m[i] # INVALID =>
             m[i] \in Owned(t)' /\ \A j \in DOMAIN m : i # j => m[i] # m[j]
  <2> SUFFICES ASSUME settings.stream \/ t \in Clients, NEW i \in DOMAIN m, m[i] # INVALID
               PROVE  m[i] \in Owned(t)' /\ \A j \in DOMAIN m : i # j => m[i] # m[j]
    OBVIOUS
  <2>1. /\ l[i + 1] \in Owned(t)
        /\ \A j \in DOMAIN l : i + 1 # j => l[i + 1] # l[j]
    BY <1>0, <1>1, <1>4 DEF ClosingInv
  <2>2. m[i] # x
    BY <1>1, <1>4, <1>6, <2>1
  <2>3. \A j \in DOMAIN m : i # j => m[i] # m[j]
    BY <1>4, <1>6, <2>1
  <2> QED
    BY <1>4, <1>7, <2>1, <2>2, <2>3
<1>14. ~Fault("options") => \A fd \in Owned(t)' : \E i \in DOMAIN m : m[i] = fd
  <2> SUFFICES ASSUME ~Fault("options"), NEW fd \in Owned(t)' PROVE \E i \in DOMAIN m : m[i] = fd
    OBVIOUS
  <2>1. PICK i \in DOMAIN l : l[i] = fd
    BY <1>0, <1>1, <1>7 DEF ClosingInv
  <2>2. i # 1
    BY <1>1, <1>7, <2>1
  <2> QED
    BY <1>5, <2>1, <2>2
<1>15. ClosingInv(t)'
  <2>1. closing'[t] = m /\ pc'[t] = "cleanup"
    BY <1>0, <1>2, <1>3
  <2> QED
    BY <1>0, <1>11, <1>12, <1>13, <1>14, <2>1 DEF ClosingInv, IsOpen
<1>16. KeepsInv(t)'
  BY <1>0 DEF KeepsInv
<1> QED
  BY <1>0, <1>9, <1>15, <1>16 DEF PlainOf, ScanInv, InLoop

LEMMA EndCleanupPlain ==
  ASSUME GeneralInv, PlainInv, Plain, NEW t \in Threads, EndCleanup(t)
  PROVE  PlainOf(t)' /\ \A u \in Threads : OwnsSame(u)
<1> USE DEF EndCleanup, loopVars, endVars, Goto
<1>0. /\ TypeOK /\ TableInv /\ settings' = settings /\ pc[t] = "cleanup" /\ closing[t] = <<>>
      /\ closing' = closing /\ s' = s /\ KeepsInv(t) /\ ClosingInv(t) /\ t \in settings.threads
  BY PlainFacts
<1>1. \A u \in Threads : OwnsSame(u)
  BY <1>0, FilesKept
<1>2. pc'[t] \in {"report", "done"} /\ Owned(t)' = Owned(t)
  BY <1>0, <1>1 DEF TypeOK, OwnsSame
<1>3. ~Fault("options")' => Owned(t)' = {}
  BY <1>0, <1>2, NoOptions DEF ClosingInv
<1>4. ClosingInv(t)'
  BY <1>0, <1>2, <1>3 DEF ClosingInv
<1>5. KeepsInv(t)'
  BY <1>0, <1>2 DEF KeepsInv
<1> QED
  BY <1>1, <1>2, <1>4, <1>5 DEF PlainOf, ScanInv, InLoop

LEMMA OpenStatsPlain ==
  ASSUME GeneralInv, PlainInv, Plain, NEW t \in Threads, OpenStats(t)
  PROVE  PlainOf(t)' /\ \A u \in Threads : u # t => OwnsSame(u)
<1> USE DEF OpenStats, loopVars, Goto
<1>0. /\ TypeOK /\ TableInv /\ OwnedInv(t) /\ settings' = settings /\ pc[t] = "report"
      /\ closing' = closing /\ s' = s /\ KeepsInv(t) /\ ClosingInv(t) /\ t \in settings.threads
  BY PlainFacts
<1> DEFINE f == File(t, "stats", 1)
           n == NextFd(t)
<1>1. f \in FileRecords /\ f.owner = t /\ f.kind = "stats" /\ IsFile(Process(t), f)
  BY Sizes DEF File, FileRecords, Kinds, IsFile
<1>2. Opened(t, f) /\ n = NextFd(t) /\ sock' = [sock EXCEPT ![t] = n]
  OBVIOUS
<1> HIDE DEF f, n
<1>3. \A fd \in Owned(t) : Files(t)[fd] # f
  BY <1>0, <1>1 DEF OwnedInv, FileAt
<1>4. /\ Owned(t)' = Owned(t) \cup {n}
      /\ \A u \in Threads : u # t => OwnsSame(u)
  BY <1>0, <1>1, <1>2, <1>3, OpenedEffect
<1>5. pc'[t] = "send" /\ sock'[t] = n /\ closing[t] = <<>> /\ closing'[t] = <<>>
  BY <1>0, <1>2 DEF TypeOK, ClosingInv
<1>6. ~Fault("options")' => Owned(t) = {}
  BY <1>0, NoOptions DEF ClosingInv
<1>7. ClosingInv(t)'
  BY <1>4, <1>5, <1>6 DEF ClosingInv
<1>8. KeepsInv(t)'
  BY <1>0, <1>5 DEF KeepsInv
<1> QED
  BY <1>4, <1>5, <1>7, <1>8 DEF PlainOf, ScanInv, InLoop

LEMMA CloseStatsPlain ==
  ASSUME GeneralInv, PlainInv, Plain, NEW t \in Threads, CloseStats(t)
  PROVE  PlainOf(t)' /\ \A u \in Threads : u # t => OwnsSame(u)
<1> USE DEF CloseStats, loopVars, endVars, statsVars, Goto
<1>0. /\ TypeOK /\ TableInv /\ settings' = settings /\ pc[t] = "send"
      /\ closing' = closing /\ s' = s /\ KeepsInv(t) /\ ClosingInv(t) /\ t \in settings.threads
  BY PlainFacts
<1>1. Closed(t, sock[t]) /\ sock[t] \in Owned(t)
  BY <1>0 DEF ClosingInv
<1>2. FileAt(t, sock[t]).owner = t
  BY <1>1 DEF Owned
<1>3. Owned(t)' = Owned(t) \ {sock[t]} /\ \A u \in Threads : u # t => OwnsSame(u)
  BY <1>0, <1>1, <1>2, ClosedEffect
<1>4. pc'[t] = "done" /\ closing'[t] = <<>>
  BY <1>0 DEF TypeOK, ClosingInv
<1>5. ~Fault("options")' => Owned(t)' = {}
  BY <1>0, <1>3, NoOptions DEF ClosingInv
<1>6. ClosingInv(t)'
  BY <1>4, <1>5 DEF ClosingInv
<1>7. KeepsInv(t)'
  BY <1>0, <1>4 DEF KeepsInv
<1> QED
  BY <1>3, <1>4, <1>6, <1>7 DEF PlainOf, ScanInv, InLoop

-----------------------------------------------------------------------------
(* The inductive invariant as a whole.                                     *)
LEMMA StepPlain ==
  ASSUME GeneralInv, PlainInv, Plain, NEW t \in Threads, StepOf(t)
  PROVE  PlainOf(t)' /\ \A u \in Threads : u # t => OwnsSame(u)
<1>1. ~settings.epoll
  BY DEF Plain
<1>2. CASE CallocFails(t) \/ StartServer(t) \/ StartClient(t)
           \/ AcceptConnections(t) \/ ConnectConnections(t) \/ NoBuffer(t) \/ Watch(t)
  BY <1>2, CallocFailsPlain, StartServerPlain, StartClientPlain, AcceptConnectionsPlain,
     ConnectConnectionsPlain, NoBufferPlain, WatchPlain
<1>3. CASE LoopEnds(t) \/ Select(t) \/ SkipRest(t) \/ ScanNext(t)
           \/ (EndScan(t) /\ ~(t \in Clients /\ ret[t] # 0))
  BY <1>3, LoopEndsPlain, SelectPlain, SkipRestPlain, ScanNextPlain, EndScanPlain
<1>4. CASE EnterCleanup(t) \/ CloseNext(t) \/ EndCleanup(t) \/ OpenStats(t) \/ CloseStats(t)
  BY <1>4, EnterCleanupPlain, CloseNextPlain, EndCleanupPlain, OpenStatsPlain, CloseStatsPlain
<1>5. ~(EpollWait(t) \/ EndBatch(t) \/ HandleHangup(t) \/ HandleEvent(t))
  BY <1>1 DEF EpollWait, EndBatch, HandleHangup, HandleEvent, HasEvent
<1> QED
  BY <1>2, <1>3, <1>4, <1>5 DEF StepOf

LEMMA SamePlain ==
  ASSUME settings' = settings
  PROVE  Plain' <=> Plain
BY SameSettings DEF Plain

LEMMA StepKeepsPlain ==
  ASSUME GeneralInv, PlainInv, NEW t \in Threads, StepOf(t)
  PROVE  PlainInv'
<1> SUFFICES ASSUME Plain' PROVE PeersInv' /\ \A u \in Threads : PlainOf(u)'
  BY DEF PlainInv
<1>1. Plain
  BY TableSteps, SamePlain
<1>2. PeersInv'
  BY <1>1, StepPeers
<1>3. PlainOf(t)' /\ \A u \in Threads : u # t => OwnsSame(u)
  BY <1>1, StepPlain
<1>4. \A u \in Threads : u # t => PlainOf(u)'
  BY <1>1, <1>3, OthersPlain
<1> QED
  BY <1>2, <1>3, <1>4

\* No descriptor and no thread is touched, except by the end of a process.
LEMMA OutsideKeepsPlain ==
  ASSUME GeneralInv, PlainInv, TypeOK', UNCHANGED <<settings, files, readFD_epoll>>,
         \A u \in Threads : Untouched(u), Plain => PeersInv'
  PROVE  PlainInv'
<1> SUFFICES ASSUME Plain' PROVE \A u \in Threads : PlainOf(u)'
  BY SamePlain DEF PlainInv
<1>1. Plain
  BY SamePlain
<1>2. \A u \in Threads : OwnsSame(u) /\ Files(u)' = Files(u)
  <2>1. \A u \in Threads : OwnsSame(u)
    BY FilesKept DEF GeneralInv
  <2>2. \A u \in Threads : Files(u)' = Files(u)
    BY SameSettings DEF Files
  <2> QED
    BY <2>1, <2>2
<1> QED
  BY <1>1, <1>2, OtherPlain DEF GeneralInv, PlainInv

LEMMA SamePeers ==
  ASSUME PlainInv, UNCHANGED <<settings, readFD_epoll, peer>>
  PROVE  Plain => PeersInv'
BY SameSettings DEF PlainInv, PeersInv, INVALID

LEMMA CrashKeepsPlain ==
  ASSUME GeneralInv, PlainInv, NEW t \in Threads, Crash(t)
  PROVE  PlainInv'
<1> USE DEF Crash, loopVars, endVars, statsVars
<1>1. TypeOK'
  BY CrashKeepsGeneral DEF GeneralInv
<1>2. \A u \in Threads : Untouched(u)
  BY DEF Untouched
<1>3. Plain => PeersInv'
  BY SamePeers
<1> QED
  BY <1>1, <1>2, <1>3, OutsideKeepsPlain

LEMMA PeerActsKeepsPlain ==
  ASSUME GeneralInv, PlainInv, NEW t \in Threads, PeerActs(t)
  PROVE  PlainInv'
<1> USE DEF PeerActs, loopVars, endVars, statsVars
<1>1. TypeOK' /\ TypeOK
  BY PeerActsType DEF GeneralInv
<1>2. \A u \in Threads : Untouched(u)
  BY DEF Untouched
<1>3. Plain => PeersInv'
  <2> SUFFICES ASSUME Plain PROVE PeersInv'
    OBVIOUS
  <2>1. PICK k \in Slots, becomes \in Peers \ {"quiet"} :
            peer' = [peer EXCEPT ![t][k] = becomes] /\ (becomes = "closed" => settings.stream)
    OBVIOUS
  <2>2. ASSUME ~settings.stream, NEW u \in Threads, NEW j \in Slots PROVE peer'[u][j] # "closed"
    <3>1. peer[u][j] # "closed" /\ peer \in [Threads -> [Slots -> Peers]]
      BY <1>1, <2>2 DEF PlainInv, PeersInv, TypeOK
    <3> QED
      BY <2>1, <2>2, <3>1
  <2> QED
    BY <2>2, SameSettings DEF PlainInv, PeersInv, INVALID
<1> QED
  BY <1>1, <1>2, <1>3, OutsideKeepsPlain

LEMMA StopKeepsPlain ==
  ASSUME GeneralInv, PlainInv, NEW p \in Procs, Stop(p)
  PROVE  PlainInv'
<1> USE DEF Stop, loopVars, statsVars
<1>1. TypeOK'
  BY StopType
<1>2. \A u \in Threads : Untouched(u)
  BY DEF Untouched
<1>3. Plain => PeersInv'
  BY SamePeers
<1> QED
  BY <1>1, <1>2, <1>3, OutsideKeepsPlain

LEMMA InitPlain == Init => PlainInv
<1> SUFFICES ASSUME Init, Plain PROVE PeersInv /\ \A t \in Threads : PlainOf(t)
  BY DEF PlainInv
<1>1. TypeOK
  BY InitGeneral DEF GeneralInv
<1>2. PeersInv
  BY DEF Init, Plain, PeersInv
<1>3. ASSUME NEW t \in Threads PROVE PlainOf(t)
  <2>1. /\ pc[t] = IF t \in settings.threads THEN "start" ELSE "done"
        /\ s[t] = INVALID /\ closing[t] = <<>>
    BY DEF Init
  <2>2. Owned(t) = {}
    <3>1. \A p \in Procs : \A fd \in DOMAIN files[p] : files[p][fd].owner = Main
      BY DEF Init, File
    <3>2. Process(t) \in Procs /\ t # Main
      BY <1>1, SettingsShape, Sizes
    <3> QED
      BY <3>1, <3>2 DEF Owned, Files, FileAt
  <2>3. KeepsInv(t)
    BY <2>1 DEF KeepsInv
  <2>4. ClosingInv(t)
    BY <2>1, <2>2 DEF ClosingInv
  <2>5. ScanInv(t)
    BY <2>1 DEF ScanInv, InLoop
  <2> QED
    BY <2>3, <2>4, <2>5 DEF PlainOf
<1> QED
  BY <1>2, <1>3

LEMMA NextInd == IndInv /\ [Next]_vars => IndInv'
<1> SUFFICES ASSUME GeneralInv, PlainInv, [Next]_vars PROVE IndInv'
  BY DEF IndInv
<1>1. GeneralInv'
  BY NextGeneral
<1>2. ASSUME NEW t \in Threads, ThreadNext(t) PROVE PlainInv'
  BY <1>2, StepOrCrash, StepKeepsPlain, CrashKeepsPlain
<1>3. ASSUME NEW t \in Threads, PeerActs(t) PROVE PlainInv'
  BY <1>3, PeerActsKeepsPlain
<1>4. ASSUME NEW p \in Procs, Stop(p) PROVE PlainInv'
  BY <1>4, StopKeepsPlain
<1>5. CASE UNCHANGED vars
  <2>1. \A u \in Threads : Untouched(u)
    BY <1>5 DEF vars, loopVars, endVars, statsVars, Untouched
  <2>2. UNCHANGED <<settings, files, readFD_epoll, peer>>
    BY <1>5 DEF vars
  <2>3. TypeOK' /\ (Plain => PeersInv')
    BY <1>1, <2>2, SamePeers DEF GeneralInv
  <2> QED
    BY <1>1, <2>1, <2>2, <2>3, OutsideKeepsPlain DEF IndInv
<1> QED
  BY <1>1, <1>2, <1>3, <1>4, <1>5 DEF Next, IndInv

LEMMA IndCorrect == Spec => []IndInv
<1>1. Init => IndInv
  BY InitGeneral, InitPlain DEF IndInv
<1> QED
  BY <1>1, NextInd, PTL DEF Spec

-----------------------------------------------------------------------------
(* What follows.                                                           *)

\* A thread that waits with select() asks about everything it has open, about
\* nothing else, and about each connection once, whatever has been removed from
\* its array before.
THEOREM WatchedCorrect == Spec => []AllWatched
<1>1. IndInv => AllWatched
  <2> SUFFICES ASSUME GeneralInv, PlainInv, OwnTable, NEW t \in Threads,
                      ~settings.epoll, pc[t] = "wait"
               PROVE  /\ InUse(t) = OpenOnes(t) /\ Cardinality(InUse(t)) = clients[t]
                      /\ readFD[t] = InUse(t) /\ (t \in Clients => writeFD[t] = InUse(t))
                      /\ \A fd \in InUse(t) : fd < nfds[t]
    BY DEF AllWatched, IndInv
  <2>1. Plain /\ InLoop(t)
    BY DEF Plain, InLoop
  <2>2. ScanInv(t)
    BY <2>1, PlainFacts
  <2>3. InUse(t) = OpenOnes(t)
    BY <2>1, SelectFacts, InUseIsMine
  <2>4. Cardinality(InUse(t)) = clients[t]
    <3>1. clients[t] \in Nat /\ \A j, k \in 1 .. clients[t] : j # k => client[t][j] # client[t][k]
      BY <2>1, SelectFacts, InUseIsMine
    <3> DEFINE f == [k \in 1 .. clients[t] |-> client[t][k]]
    <3>2. f \in Bijection(1 .. clients[t], InUse(t))
      <4>1. f \in [1 .. clients[t] -> InUse(t)]
        BY DEF InUse
      <4>2. \A j, k \in 1 .. clients[t] : f[j] = f[k] => j = k
        BY <3>1
      <4>3. \A fd \in InUse(t) : \E k \in 1 .. clients[t] : f[k] = fd
        BY DEF InUse
      <4> HIDE DEF f
      <4> QED
        <5>1. f \in Injection(1 .. clients[t], InUse(t))
          BY <4>1, <4>2 DEF Injection, IsInjective
        <5>2. f \in Surjection(1 .. clients[t], InUse(t))
          BY <4>1, <4>3 DEF Surjection
        <5> QED
          BY <5>1, <5>2 DEF Bijection
    <3>3. IsFiniteSet(1 .. clients[t]) /\ Cardinality(1 .. clients[t]) = clients[t]
      BY <3>1, FS_Interval
    <3> HIDE DEF f
    <3> QED
      BY <3>2, <3>3, FS_Bijection DEF ExistsBijection
  <2> QED
    BY <2>1, <2>2, <2>3, <2>4 DEF ScanInv
<1> QED
  BY <1>1, IndCorrect, PTL

\* When the scan is over every bit that select() has returned has been found:
\* the assert at the end of the scan of a client never fails.
THEOREM RetCorrect == Spec => []RetIsZero
<1>1. IndInv => RetIsZero
  BY ScanOver DEF RetIsZero, IndInv, Plain
<1> QED
  BY <1>1, IndCorrect, PTL

\* The clean-up of a thread never closes a descriptor that somebody else has
\* open by then.
THEOREM ClosesCorrect == Spec => []ClosesItsOwn
<1>1. IndInv => ClosesItsOwn
  <2> SUFFICES ASSUME PlainInv, Plain, NEW t \in Threads, NEW i \in DOMAIN closing[t],
                      IsOpen(t, closing[t][i])
               PROVE  FileAt(t, closing[t][i]).owner = t
    BY DEF ClosesItsOwn, IndInv, Plain
  <2>1. closing[t][i] \in Owned(t)
    BY DEF PlainInv, PlainOf, ClosingInv
  <2> QED
    BY <2>1 DEF Owned
<1> QED
  BY <1>1, IndCorrect, PTL

\* A thread that is done has closed everything it had opened.
THEOREM LeaksCorrect == Spec => []LeaksNothing
<1>1. IndInv => LeaksNothing
  <2> SUFFICES ASSUME PlainInv, Plain, ~Fault("options"), NEW t \in Threads, pc[t] = "done",
                      NEW fd \in DOMAIN Files(t), FileAt(t, fd).owner = t
               PROVE  FALSE
    BY DEF LeaksNothing, IndInv, Plain
  <2>1. Owned(t) = {}
    BY DEF PlainInv, PlainOf, ClosingInv
  <2> QED
    BY <2>1 DEF Owned
<1> QED
  BY <1>1, IndCorrect, PTL
=============================================================================
