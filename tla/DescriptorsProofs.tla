------------------------- MODULE DescriptorsProofs -------------------------
(***************************************************************************)
(* The table of descriptors, the counts of the devices and the objects of  *)
(* the file systems, for every set of devices and partitions, file         *)
(* systems and files, and every size of the table.                         *)
(***************************************************************************)
EXTENDS Descriptors, KernelListsProofs, FiniteSetTheorems

-----------------------------------------------------------------------------
(* What holds of the descriptors, the counts and the drivers between two   *)
(* calls on a device, the nested ones included.                            *)

\* The table and the fd of the objects name each other.
Paired(s) ==
  /\ s \in IoType
  /\ \A n \in Fds, x \in Ios : s.table[n] = x <=> s.fd[x] = n

Sound(s) ==
  /\ Paired(s)
  /\ \A d \in Devices : s.count[d] > 0 <=> s.fd[d] # NoFd
  /\ \A f \in Files : f \in s.driver <=> s.fd[f] # NoFd
  /\ \A d \in Devices :
       Parent[d] = NoDevice => (d \in s.driver <=> s.count[d] > 0)

\* One descriptor changes: count is left alone and so are the others.
SameBut(s, r, x) ==
  /\ r.count = s.count
  /\ r.driver = s.driver
  /\ \A y \in Ios \ {x} : r.fd[y] = s.fd[y]

\* A table that is not full has a first free entry.
LEMMA FirstFree ==
  ASSUME NEW s, FreeFds(s) # {}
  PROVE  Min(FreeFds(s)) \in FreeFds(s)
<1>. DEFINE F == FreeFds(s)
<1>1. F \subseteq Nat
  BY SystemAssumption DEF FreeFds, Fds, Reserved
<1>2. \E x \in F : \A y \in F : x <= y
  <2>. HIDE DEF F
  <2>0. F # {}
    BY DEF F
  <2>1. PICK x \in F : \A y \in F : ~ (<<y, x>> \in OpToRel(<, Nat))
    BY <1>1, <2>0, NatLessThanWellFounded, WFMin
  <2>. SUFFICES ASSUME NEW y \in F
                PROVE  x <= y
    OBVIOUS
  <2>2. x \in Nat /\ y \in Nat
    BY <1>1
  <2>3. y < x => <<y, x>> \in OpToRel(<, Nat)
    BY <2>2 DEF OpToRel
  <2>4. ~ (y < x)
    BY <2>1, <2>3, Zenon
  <2>. QED  BY <2>2, <2>4
<1>. QED  BY <1>2 DEF Min

\* The fields of the record after each of the two calls on the table.
LEMMA AllocateFields ==
  ASSUME NEW s \in IoType, NEW x \in Ios, NEW n, n = Min(FreeFds(s))
  PROVE  /\ Allocate(s, x).table = [s.table EXCEPT ![n] = x]
         /\ Allocate(s, x).fd = [s.fd EXCEPT ![x] = n]
         /\ Allocate(s, x).count = s.count
         /\ Allocate(s, x).driver = s.driver
BY DEF Allocate, IoType

\* What deallocate() leaves in each field: one slot of the table and the
\* descriptor of x are cleared, nothing else.
LEMMA DeallocateFields ==
  ASSUME NEW s \in IoType, NEW x \in Ios
  PROVE  /\ Deallocate(s, x).table
              = [n \in Fds |-> IF n = s.fd[x] THEN NoIo ELSE s.table[n]]
         /\ Deallocate(s, x).fd = [s.fd EXCEPT ![x] = NoFd]
         /\ Deallocate(s, x).count = s.count
         /\ Deallocate(s, x).driver = s.driver
BY DEF Deallocate, IoType

\* A record of the four fields is known by them.
LEMMA IoEqual ==
  ASSUME NEW s \in IoType, NEW r \in IoType, s.table = r.table, s.fd = r.fd,
         s.count = r.count, s.driver = r.driver
  PROVE  s = r
BY DEF IoType

\* allocate() keeps table and descriptors inverse to each other, and touches
\* the descriptor of x only.
LEMMA AllocatePairs ==
  ASSUME NEW s, Paired(s), NEW x \in Ios, CanAllocate(s, x)
  PROVE  /\ Paired(Allocate(s, x))
         /\ SameBut(s, Allocate(s, x), x)
         /\ Allocate(s, x).fd[x] # NoFd
<1>. DEFINE n == Min(FreeFds(s))
            r == Allocate(s, x)
<1>1. n \in Fds /\ s.table[n] = NoIo
  BY FirstFree DEF FreeFds, CanAllocate
<1>2. s \in IoType
  BY DEF Paired
<1>3. /\ r.table = [s.table EXCEPT ![n] = x]
      /\ r.fd = [s.fd EXCEPT ![x] = n]
      /\ r.count = s.count /\ r.driver = s.driver
  BY <1>2, AllocateFields
<1>4. r \in IoType
  BY <1>1, <1>2 DEF IoType, Allocate
<1>. HIDE DEF n, r
<1>5. ASSUME NEW m \in Fds, NEW y \in Ios
      PROVE  r.table[m] = y <=> r.fd[y] = m
  <2>1. s.table[m] = y <=> s.fd[y] = m
    BY DEF Paired
  <2>2. s.fd[x] # m
    BY DEF CanAllocate, NoFd, Fds, Reserved
  <2>3. s.table[n] = y <=> s.fd[y] = n
    BY <1>1 DEF Paired
  <2>4. /\ s.table \in [Fds -> Ios \union {NoIo}]
        /\ s.fd \in [Ios -> Fds \union {NoFd}]
    BY <1>2 DEF IoType
  <2>5. NoIo \notin Ios
    BY SystemAssumption DEF Ios
  <2>. QED  BY <1>1, <1>3, <2>1, <2>2, <2>3, <2>4, <2>5
<1>6. r.fd[x] # NoFd
  <2>1. s.fd \in [Ios -> Fds \union {NoFd}]
    BY <1>2 DEF IoType
  <2>2. n # NoFd
    BY <1>1, SystemAssumption DEF NoFd, Fds, Reserved
  <2>. QED  BY <1>3, <2>1, <2>2
<1>7. SameBut(s, r, x)
  <2>1. s.fd \in [Ios -> Fds \union {NoFd}]
    BY <1>2 DEF IoType
  <2>. QED  BY <1>3, <2>1 DEF SameBut
<1>8. Paired(r)
  BY <1>4, <1>5 DEF Paired
<1>. QED  BY <1>6, <1>7, <1>8 DEF r

\* So does deallocate().
LEMMA DeallocatePairs ==
  ASSUME NEW s, Paired(s), NEW x \in Ios
  PROVE  /\ Paired(Deallocate(s, x))
         /\ SameBut(s, Deallocate(s, x), x)
         /\ Deallocate(s, x).fd[x] = NoFd
<1>. DEFINE r == Deallocate(s, x)
<1>2. s \in IoType
  BY DEF Paired
<1>3. /\ r.table = [n \in Fds |-> IF n = s.fd[x] THEN NoIo ELSE s.table[n]]
      /\ r.fd = [s.fd EXCEPT ![x] = NoFd]
      /\ r.count = s.count /\ r.driver = s.driver
  BY <1>2, DeallocateFields
<1>4. r \in IoType
  BY <1>2 DEF IoType, Deallocate
<1>. HIDE DEF r
<1>0. /\ s.table \in [Fds -> Ios \union {NoIo}]
      /\ s.fd \in [Ios -> Fds \union {NoFd}]
  BY <1>2 DEF IoType
<1>5. ASSUME NEW m \in Fds, NEW y \in Ios
      PROVE  r.table[m] = y <=> r.fd[y] = m
  <2>1. s.table[m] = y <=> s.fd[y] = m
    BY DEF Paired
  <2>2. s.table[m] = x <=> s.fd[x] = m
    BY DEF Paired
  <2>3. m # NoFd
    BY SystemAssumption DEF NoFd, Fds, Reserved
  <2>4. NoIo \notin Ios
    BY SystemAssumption DEF Ios
  <2>. QED  BY <1>0, <1>3, <2>1, <2>2, <2>3, <2>4
<1>6. r.fd[x] = NoFd
  BY <1>0, <1>3
<1>7. SameBut(s, r, x)
  BY <1>0, <1>3 DEF SameBut
<1>8. Paired(r)
  BY <1>4, <1>5 DEF Paired
<1>. QED  BY <1>6, <1>7, <1>8 DEF r

\* What was taken from the table and given back leaves it as it was.
LEMMA AllocateUndone ==
  ASSUME NEW s, Paired(s), NEW x \in Ios, CanAllocate(s, x)
  PROVE  /\ Deallocate(Allocate(s, x), x).table = s.table
         /\ Deallocate(Allocate(s, x), x).fd = s.fd
<1>. DEFINE n == Min(FreeFds(s))
            r == Allocate(s, x)
<1>1. n \in Fds /\ s.table[n] = NoIo
  BY FirstFree DEF FreeFds, CanAllocate
<1>2. s \in IoType
  BY DEF Paired
<1>3. /\ r.table = [s.table EXCEPT ![n] = x]
      /\ r.fd = [s.fd EXCEPT ![x] = n]
  BY <1>2, AllocateFields
<1>4. r \in IoType
  BY AllocatePairs DEF Paired
<1>0. /\ s.table \in [Fds -> Ios \union {NoIo}]
      /\ s.fd \in [Ios -> Fds \union {NoFd}]
  BY <1>2 DEF IoType
<1>. HIDE DEF n, r
<1>5. /\ Deallocate(r, x).table
           = [m \in Fds |-> IF m = r.fd[x] THEN NoIo ELSE r.table[m]]
      /\ Deallocate(r, x).fd = [r.fd EXCEPT ![x] = NoFd]
  BY <1>4, DeallocateFields
<1>6. r.fd[x] = n
  BY <1>0, <1>3
<1>7. Deallocate(r, x).table = s.table
  <2>1. \A m \in Fds : (IF m = n THEN NoIo ELSE r.table[m]) = s.table[m]
    BY <1>0, <1>1, <1>3
  <2>. QED  BY <1>0, <1>5, <1>6, <2>1
<1>8. Deallocate(r, x).fd = s.fd
  <2>1. s.fd[x] = NoFd
    BY DEF CanAllocate
  <2>. QED  BY <1>0, <1>3, <1>5, <2>1
<1>. QED  BY <1>7, <1>8 DEF r
-----------------------------------------------------------------------------
(* Devices that are not partitions.                                        *)

\* One more or one less open of a device that is open anyway.
LEMMA CountSound ==
  ASSUME NEW s, Sound(s), NEW d \in Devices, s.count[d] > 0,
         NEW n \in Nat, n > 0
  PROVE  /\ Sound([s EXCEPT !.count[d] = n])
         /\ [s EXCEPT !.count[d] = n].count = [s.count EXCEPT ![d] = n]
         /\ [s EXCEPT !.count[d] = n].driver = s.driver
<1>. DEFINE r == [s EXCEPT !.count[d] = n]
<1>1. s \in IoType
  BY DEF Sound, Paired
<1>2. /\ r \in IoType
      /\ r.table = s.table /\ r.fd = s.fd /\ r.driver = s.driver
      /\ r.count = [s.count EXCEPT ![d] = n]
  BY <1>1 DEF IoType
<1>3. s.count \in [Devices -> Nat]
  BY <1>1 DEF IoType
<1>. HIDE DEF r
<1>4. \A e \in Devices : r.count[e] > 0 <=> s.count[e] > 0
  BY <1>2, <1>3
<1>5. Sound(r)
  BY <1>2, <1>4 DEF Sound, Paired
<1>. QED  BY <1>2, <1>5 DEF r

\* A call that changes one device or one file, and leaves that one sound.
LEMMA ChangeSound ==
  ASSUME NEW s, Sound(s), NEW r, Paired(r), NEW x \in Ios,
         \A y \in Ios \ {x} : r.fd[y] = s.fd[y],
         \A e \in Devices \ {x} : r.count[e] = s.count[e],
         r.driver \ {x} = s.driver \ {x},
         x \in Devices => (r.count[x] > 0 <=> r.fd[x] # NoFd),
         x \in Devices /\ Parent[x] = NoDevice
           => (x \in r.driver <=> r.count[x] > 0),
         x \in Files => (x \in r.driver <=> r.fd[x] # NoFd)
  PROVE  Sound(r)
<1>1. ASSUME NEW e \in Devices
      PROVE  r.count[e] > 0 <=> r.fd[e] # NoFd
  <2>1. s.count[e] > 0 <=> s.fd[e] # NoFd
    BY DEF Sound
  <2>2. e \in Ios
    BY DEF Ios
  <2>. QED  BY <2>1, <2>2
<1>2. ASSUME NEW f \in Files
      PROVE  f \in r.driver <=> r.fd[f] # NoFd
  <2>1. f \in s.driver <=> s.fd[f] # NoFd
    BY DEF Sound
  <2>2. f \in Ios
    BY DEF Ios
  <2>. QED  BY <2>1, <2>2
<1>3. ASSUME NEW e \in Devices, Parent[e] = NoDevice
      PROVE  e \in r.driver <=> r.count[e] > 0
  <2>1. e \in s.driver <=> s.count[e] > 0
    BY <1>3 DEF Sound
  <2>. QED  BY <1>3, <2>1
<1>. QED  BY <1>1, <1>2, <1>3 DEF Sound

\* device::close of a device that is not a partition.
LEMMA CloseWholeEffect ==
  ASSUME NEW s, Sound(s), NEW d \in Devices, Parent[d] = NoDevice,
         s.count[d] > 0
  PROVE  /\ Sound(CloseWhole(s, d))
         /\ CloseWhole(s, d).count = [s.count EXCEPT ![d] = @ - 1]
         /\ CloseWhole(s, d).driver \ {d} = s.driver \ {d}
         /\ \A y \in Ios \ {d} : CloseWhole(s, d).fd[y] = s.fd[y]
<1>0. /\ Paired(s) /\ s \in IoType /\ d \in Ios
      /\ s.count \in [Devices -> Nat]
      /\ s.driver \subseteq Ios
  BY DEF Sound, Paired, IoType, Ios
<1>1. CASE s.count[d] # 1
  <2>1. CloseWhole(s, d) = [s EXCEPT !.count[d] = s.count[d] - 1]
    BY <1>0, <1>1 DEF CloseWhole
  <2>2. s.count[d] - 1 \in Nat /\ s.count[d] - 1 > 0
    BY <1>0, <1>1
  <2>3. CloseWhole(s, d).fd = s.fd
    BY <1>0, <2>1 DEF IoType
  <2>. QED  BY <2>1, <2>2, <2>3, CountSound
<1>2. CASE s.count[d] = 1
  <2>. DEFINE t == Deallocate(s, d)
              r == CloseWhole(s, d)
  <2>1. Paired(t) /\ SameBut(s, t, d) /\ t.fd[d] = NoFd
    BY <1>0, DeallocatePairs
  <2>2. r = [t EXCEPT !.driver = t.driver \ {d}, !.count[d] = t.count[d] - 1]
    <3>1. t \in IoType
      BY <2>1 DEF Paired
    <3>. HIDE DEF t
    <3>2. CloseWhole(s, d)
            = [[t EXCEPT !.driver = @ \ {d}] EXCEPT !.count[d] = @ - 1]
      BY <1>2 DEF CloseWhole, t
    <3>. QED  BY <3>1, <3>2 DEF IoType
  <2>3. t \in IoType /\ t.count = s.count /\ t.driver = s.driver
    BY <2>1 DEF Paired, SameBut
  <2>. HIDE DEF t, r
  <2>4. /\ r.table = t.table /\ r.fd = t.fd
        /\ r.count = [s.count EXCEPT ![d] = s.count[d] - 1]
        /\ r.driver = s.driver \ {d}
    BY <2>2, <2>3 DEF IoType
  <2>5. r \in IoType
    <3>1. s.count[d] - 1 \in Nat
      BY <1>2
    <3>. QED  BY <1>0, <2>2, <2>3, <3>1 DEF IoType
  <2>6. Paired(r)
    BY <2>1, <2>4, <2>5 DEF Paired
  <2>7. \A y \in Ios \ {d} : r.fd[y] = s.fd[y]
    BY <2>1, <2>4 DEF SameBut
  <2>8. \A e \in Devices \ {d} : r.count[e] = s.count[e]
    BY <1>0, <2>4
  <2>9. /\ r.count[d] = 0 /\ r.fd[d] = NoFd /\ d \notin r.driver
    BY <1>0, <1>2, <2>1, <2>4
  <2>10. d \notin Files
    BY SystemAssumption
  <2>11. Sound(r)
    BY <1>0, <2>4, <2>6, <2>7, <2>8, <2>9, <2>10, ChangeSound
  <2>12. r.driver \ {d} = s.driver \ {d}
    BY <2>4
  <2>. QED  BY <2>4, <2>7, <2>11, <2>12 DEF r
<1>. QED  BY <1>1, <1>2

\* device::vopen of a device that is not a partition: it is open once more,
\* or nothing has changed.
LEMMA OpenWholeEffect ==
  ASSUME NEW s, Sound(s), NEW d \in Devices, Parent[d] = NoDevice,
         NEW works \in BOOLEAN
  PROVE  LET r == OpenWhole(s, d, works)
         IN  /\ r.ok \in BOOLEAN
             /\ ~ r.ok => r.io = s
             /\ r.ok => /\ Sound(r.io)
                        /\ r.io.count = [s.count EXCEPT ![d] = @ + 1]
                        /\ r.io.driver \ {d} = s.driver \ {d}
                        /\ \A y \in Ios \ {d} : r.io.fd[y] = s.fd[y]
                        /\ CloseWhole(r.io, d) = s
<1>. DEFINE o == OpenWhole(s, d, works)
<1>0. /\ Paired(s) /\ s \in IoType /\ d \in Ios
      /\ s.count \in [Devices -> Nat]
      /\ s.driver \subseteq Ios
  BY DEF Sound, Paired, IoType, Ios
<1>1. CASE s.count[d] > 0
  <2>. DEFINE r == [s EXCEPT !.count[d] = s.count[d] + 1]
  <2>1. o = [ok |-> TRUE, io |-> r]
    BY <1>1 DEF OpenWhole
  <2>2. s.count[d] + 1 \in Nat /\ s.count[d] + 1 > 0
    BY <1>0
  <2>3. /\ Sound(r) /\ r.count = [s.count EXCEPT ![d] = s.count[d] + 1]
        /\ r.driver = s.driver
    BY <1>1, <2>2, CountSound
  <2>4. r.fd = s.fd /\ r.table = s.table /\ r \in IoType
    BY <1>0, <2>2 DEF IoType
  <2>. HIDE DEF r
  <2>5. CloseWhole(r, d) = [r EXCEPT !.count[d] = r.count[d] - 1]
    <3>1. r.count[d] # 0 /\ r.count[d] # 1
      BY <1>0, <1>1, <2>3
    <3>. QED  BY <3>1 DEF CloseWhole
  <2>6. CloseWhole(r, d) = s
    <3>1. [r.count EXCEPT ![d] = r.count[d] - 1] = s.count
      BY <1>0, <2>3
    <3>2. /\ CloseWhole(r, d).count = s.count
          /\ CloseWhole(r, d).table = s.table
          /\ CloseWhole(r, d).fd = s.fd
          /\ CloseWhole(r, d).driver = s.driver
          /\ CloseWhole(r, d) \in IoType
      BY <1>0, <2>3, <2>4, <2>5, <3>1 DEF IoType
    <3>. QED  BY <1>0, <3>2, IoEqual
  <2>. QED  BY <2>1, <2>3, <2>4, <2>6
<1>2. CASE s.count[d] = 0 /\ ~ works
  <2>1. o = [ok |-> FALSE, io |-> s]
    BY <1>2 DEF OpenWhole
  <2>. QED  BY <2>1
<1>3. CASE s.count[d] = 0 /\ works
  <2>. DEFINE t == [s EXCEPT !.driver = @ \union {d}]
  <2>1. o = AllocOrClose(t, d)
    BY <1>3 DEF OpenWhole
  <2>2. /\ t \in IoType /\ t.table = s.table /\ t.fd = s.fd
        /\ t.count = s.count /\ t.driver = s.driver \union {d}
    BY <1>0 DEF IoType
  <2>. HIDE DEF t
  <2>3. Paired(t)
    BY <1>0, <2>2 DEF Paired
  <2>4. s.fd[d] = NoFd /\ d \notin s.driver
    BY <1>3 DEF Sound
  <2>5. CASE ~ CanAllocate(t, d)
    <3>. DEFINE r == [DoClose(t, d) EXCEPT !.fd[d] = NoFd]
    <3>1. o = [ok |-> FALSE, io |-> r]
      BY <2>1, <2>5 DEF AllocOrClose
    <3>. DEFINE u == [t EXCEPT !.driver = @ \ {d}]
    <3>2. r = [u EXCEPT !.fd[d] = NoFd]
      BY DEF DoClose
    <3>7. /\ u \in IoType /\ u.table = t.table /\ u.fd = t.fd
          /\ u.count = t.count /\ u.driver = t.driver \ {d}
      BY <2>2 DEF IoType
    <3>. HIDE DEF u
    <3>3. /\ r \in IoType /\ r.table = s.table /\ r.count = s.count
          /\ r.fd = [s.fd EXCEPT ![d] = NoFd]
          /\ r.driver = (s.driver \union {d}) \ {d}
      BY <1>0, <2>2, <3>2, <3>7 DEF IoType
    <3>4. [s.fd EXCEPT ![d] = NoFd] = s.fd
      BY <1>0, <2>4 DEF IoType
    <3>5. (s.driver \union {d}) \ {d} = s.driver
      BY <2>4
    <3>. HIDE DEF r
    <3>6. r = s
      BY <1>0, <3>3, <3>4, <3>5, IoEqual
    <3>. QED  BY <3>1, <3>6
  <2>6. CASE CanAllocate(t, d)
    <3>. DEFINE a == Allocate(t, d)
                r == [a EXCEPT !.count[d] = a.count[d] + 1]
    <3>1. o = [ok |-> TRUE, io |-> r]
      BY <2>1, <2>6 DEF AllocOrClose
    <3>2. Paired(a) /\ SameBut(t, a, d) /\ a.fd[d] # NoFd
      BY <1>0, <2>3, <2>6, AllocatePairs
    <3>3. /\ Deallocate(a, d).table = t.table
          /\ Deallocate(a, d).fd = t.fd
      BY <1>0, <2>3, <2>6, AllocateUndone
    <3>. HIDE DEF a
    <3>4. a \in IoType /\ a.count = s.count /\ a.driver = s.driver \union {d}
      BY <2>2, <3>2 DEF Paired, SameBut
    <3>5. /\ r \in IoType /\ r.table = a.table /\ r.fd = a.fd
          /\ r.count = [s.count EXCEPT ![d] = s.count[d] + 1]
          /\ r.driver = s.driver \union {d}
      BY <1>0, <3>4 DEF IoType
    <3>. HIDE DEF r
    <3>6. \A y \in Ios \ {d} : r.fd[y] = s.fd[y]
      BY <2>2, <3>2, <3>5 DEF SameBut
    <3>7. Sound(r)
      <4>1. Paired(r)
        BY <3>2, <3>5 DEF Paired
      <4>2. \A e \in Devices \ {d} : r.count[e] = s.count[e]
        BY <1>0, <3>5
      <4>3. r.count[d] > 0 /\ r.fd[d] # NoFd /\ d \in r.driver
        BY <1>0, <1>3, <3>2, <3>5
      <4>4. d \notin Files /\ r.driver \ {d} = s.driver \ {d}
        BY <3>5, SystemAssumption
      <4>. QED  BY <1>0, <3>6, <4>1, <4>2, <4>3, <4>4, ChangeSound
    <3>8. CloseWhole(r, d) = s
      <4>. DEFINE u == Deallocate(r, d)
      <4>1. CloseWhole(r, d)
              = [[u EXCEPT !.driver = @ \ {d}] EXCEPT !.count[d] = @ - 1]
        <5>1. r.count[d] = 1
          BY <1>0, <1>3, <3>5
        <5>. QED  BY <5>1 DEF CloseWhole
      <4>2. /\ u.table
               = [n \in Fds |-> IF n = r.fd[d] THEN NoIo ELSE r.table[n]]
            /\ u.fd = [r.fd EXCEPT ![d] = NoFd]
            /\ u.count = r.count /\ u.driver = r.driver
        BY <1>0, <3>5, DeallocateFields
      <4>3. u.table = s.table /\ u.fd = s.fd
        <5>1. /\ Deallocate(a, d).table
                 = [n \in Fds |-> IF n = a.fd[d] THEN NoIo ELSE a.table[n]]
              /\ Deallocate(a, d).fd = [a.fd EXCEPT ![d] = NoFd]
          BY <1>0, <3>4, DeallocateFields
        <5>. QED  BY <2>2, <3>3, <3>5, <4>2, <5>1
      <4>4. u \in IoType
        BY <3>7, <1>0, DeallocatePairs DEF Sound, Paired
      <4>. HIDE DEF u
      <4>5. /\ CloseWhole(r, d).table = s.table
            /\ CloseWhole(r, d).fd = s.fd
            /\ CloseWhole(r, d).count = [u.count EXCEPT ![d] = u.count[d] - 1]
            /\ CloseWhole(r, d).driver = (s.driver \union {d}) \ {d}
        BY <3>5, <4>1, <4>2, <4>3, <4>4 DEF IoType
      <4>6. [u.count EXCEPT ![d] = u.count[d] - 1] = s.count
        BY <1>0, <1>3, <3>5, <4>2
      <4>7. (s.driver \union {d}) \ {d} = s.driver
        BY <2>4
      <4>8. CloseWhole(r, d) \in IoType
        BY <3>5, <3>7, CloseWholeEffect, <1>0, <1>3 DEF Sound, Paired
      <4>. QED  BY <1>0, <4>5, <4>6, <4>7, <4>8, IoEqual
    <3>9. r.driver \ {d} = s.driver \ {d}
      BY <3>5
    <3>. QED  BY <3>1, <3>5, <3>6, <3>7, <3>8, <3>9
  <2>. QED  BY <2>5, <2>6
<1>. QED  BY <1>0, <1>1, <1>2, <1>3
-----------------------------------------------------------------------------
(* All devices.                                                            *)

\* The counts after one more and one less open of a device: the device below
\* a partition counts the first and the last one.
Opens(s, d) ==
  [e \in Devices |-> s.count[e] + (IF e = d THEN 1 ELSE 0)
                       + (IF e = Parent[d] /\ s.count[d] = 0 THEN 1 ELSE 0)]

Closes(s, d) ==
  [e \in Devices |-> s.count[e] - (IF e = d THEN 1 ELSE 0)
                       - (IF e = Parent[d] /\ s.count[d] = 1 THEN 1 ELSE 0)]

\* Partitions nest one level deep: the device below a partition is whole,
\* and is another one.
LEMMA ParentFacts ==
  ASSUME NEW d \in Devices
  PROVE  /\ Parent[d] = NoDevice \/ Parent[d] \in Devices
         /\ Parent[d] # NoDevice
              => /\ Parent[Parent[d]] = NoDevice
                 /\ Parent[d] # d
         /\ NoDevice \notin Devices
         /\ d \in Ios /\ d \notin Files
BY DeviceAssumption, SystemAssumption DEF Ios

\* device::vopen: an open that fails, in whichever of its steps and on
\* whichever level, has changed nothing.
LEMMA OpenEffect ==
  ASSUME NEW s, Sound(s), NEW d \in Devices, NEW works \in BOOLEAN
  PROVE  LET r == Open(s, d, works)
         IN  /\ r.ok \in BOOLEAN
             /\ ~ r.ok => r.io = s
             /\ r.ok => /\ Sound(r.io)
                        /\ r.io.count = Opens(s, d)
                        /\ \A f \in Files : r.io.fd[f] = s.fd[f]
<1>. DEFINE o == Open(s, d, works)
            p == Parent[d]
<1>0. /\ Paired(s) /\ s \in IoType /\ d \in Ios
      /\ s.count \in [Devices -> Nat]
      /\ s.fd \in [Ios -> Fds \union {NoFd}]
  BY DEF Sound, Paired, IoType, Ios
<1>00. Files \subseteq Ios \ Devices
  BY SystemAssumption DEF Ios
<1>1. CASE p = NoDevice
  <2>1. o = OpenWhole(s, d, works)
    BY <1>1 DEF Open
  <2>. HIDE DEF o
  <2>2. /\ o.ok \in BOOLEAN
        /\ ~ o.ok => o.io = s
        /\ o.ok => /\ Sound(o.io)
                   /\ o.io.count = [s.count EXCEPT ![d] = @ + 1]
                   /\ \A y \in Ios \ {d} : o.io.fd[y] = s.fd[y]
    BY <1>1, <2>1, OpenWholeEffect
  <2>3. Opens(s, d) = [s.count EXCEPT ![d] = @ + 1]
    BY <1>0, <1>1, ParentFacts DEF Opens
  <2>4. o.ok => \A f \in Files : o.io.fd[f] = s.fd[f]
    BY <1>00, <2>2
  <2>. QED  BY <2>2, <2>3, <2>4 DEF o
<1>2. CASE p # NoDevice /\ s.count[d] > 0
  <2>. DEFINE r == [s EXCEPT !.count[d] = s.count[d] + 1]
  <2>1. o = [ok |-> TRUE, io |-> r]
    BY <1>2 DEF Open
  <2>2. s.count[d] + 1 \in Nat /\ s.count[d] + 1 > 0
    BY <1>0
  <2>3. Sound(r) /\ r.count = [s.count EXCEPT ![d] = s.count[d] + 1]
    BY <1>2, <2>2, CountSound
  <2>4. r.fd = s.fd
    BY <1>0 DEF IoType
  <2>5. Opens(s, d) = [s.count EXCEPT ![d] = s.count[d] + 1]
    BY <1>0, <1>2 DEF Opens
  <2>. HIDE DEF r, o
  <2>6. o.ok = TRUE /\ o.io = r
    BY <2>1
  <2>. QED  BY <2>3, <2>4, <2>5, <2>6 DEF o
<1>3. CASE p # NoDevice /\ s.count[d] = 0
  <2>. DEFINE b == OpenWhole(s, p, works)
              t == b.io
  <2>0. p \in Devices /\ Parent[p] = NoDevice /\ p # d /\ d \notin Files
        /\ p \notin Files /\ p \in Ios
    BY <1>3, ParentFacts DEF Ios
  <2>1. /\ b.ok \in BOOLEAN
        /\ ~ b.ok => b.io = s
        /\ b.ok => /\ Sound(t)
                   /\ t.count = [s.count EXCEPT ![p] = @ + 1]
                   /\ t.driver \ {p} = s.driver \ {p}
                   /\ \A y \in Ios \ {p} : t.fd[y] = s.fd[y]
                   /\ CloseWhole(t, p) = s
    BY <2>0, OpenWholeEffect
  <2>2. o = IF b.ok THEN AllocOrClose(t, d) ELSE b
    BY <1>3 DEF Open
  <2>3. s.fd[d] = NoFd
    BY <1>3 DEF Sound
  <2>. HIDE DEF b
  <2>4. CASE ~ b.ok
    <3>1. o = b
      BY <2>2, <2>4
    <3>. QED  BY <2>1, <2>4, <3>1
  <2>5. CASE b.ok /\ ~ CanAllocate(t, d)
    <3>1. o = [ok |-> FALSE, io |-> [DoClose(t, d) EXCEPT !.fd[d] = NoFd]]
      BY <2>2, <2>5 DEF AllocOrClose
    <3>2. DoClose(t, d) = s
      BY <1>3, <2>1, <2>5 DEF DoClose
    <3>3. [s EXCEPT !.fd[d] = NoFd] = s
      <4>1. [s.fd EXCEPT ![d] = NoFd] = s.fd
        BY <1>0, <2>3
      <4>. DEFINE r == [s EXCEPT !.fd[d] = NoFd]
      <4>2. /\ r.table = s.table /\ r.fd = [s.fd EXCEPT ![d] = NoFd]
            /\ r.count = s.count /\ r.driver = s.driver /\ r \in IoType
        BY <1>0 DEF IoType
      <4>. HIDE DEF r
      <4>3. r = s
        BY <1>0, <4>1, <4>2, IoEqual
      <4>. QED  BY <4>3 DEF r
    <3>. QED  BY <3>1, <3>2, <3>3
  <2>6. CASE b.ok /\ CanAllocate(t, d)
    <3>. DEFINE a == Allocate(t, d)
                r == [a EXCEPT !.count[d] = a.count[d] + 1]
    <3>1. o = [ok |-> TRUE, io |-> r]
      BY <2>2, <2>6 DEF AllocOrClose
    <3>2. Paired(a) /\ SameBut(t, a, d) /\ a.fd[d] # NoFd
      BY <1>0, <2>1, <2>6, AllocatePairs DEF Sound
    <3>. HIDE DEF a, t
    <3>3. a \in IoType /\ a.count = t.count /\ a.driver = t.driver
      BY <3>2 DEF Paired, SameBut
    <3>4. /\ r \in IoType /\ r.table = a.table /\ r.fd = a.fd
          /\ r.driver = t.driver
          /\ r.count = [t.count EXCEPT ![d] = t.count[d] + 1]
      BY <1>0, <3>3 DEF IoType
    <3>. HIDE DEF r
    <3>5. /\ \A y \in Ios \ {d} : r.fd[y] = t.fd[y]
          /\ r.fd[d] # NoFd
      BY <3>2, <3>4 DEF SameBut
    <3>6. Paired(r)
      BY <3>2, <3>4 DEF Paired
    <3>7. /\ \A e \in Devices \ {d} : r.count[e] = t.count[e]
          /\ r.count[d] > 0
      BY <1>0, <1>3, <2>0, <2>1, <2>6, <3>4
    <3>8. Sound(r)
      <4>1. Sound(t) /\ r.driver \ {d} = t.driver \ {d}
        BY <2>1, <2>6, <3>4
      <4>. QED  BY <1>0, <1>3, <2>0, <3>5, <3>6, <3>7, <4>1, ChangeSound
    <3>9. r.count = Opens(s, d)
      BY <1>0, <1>3, <2>0, <2>1, <2>6, <3>4 DEF Opens
    <3>10. \A f \in Files : r.fd[f] = s.fd[f]
      BY <1>00, <2>0, <2>1, <2>6, <3>5 DEF Ios
    <3>. QED  BY <3>1, <3>8, <3>9, <3>10
  <2>. QED  BY <2>1, <2>4, <2>5, <2>6
<1>. QED  BY <1>0, <1>1, <1>2, <1>3

\* device::close of a device that is open, and the one below it with it.
LEMMA CloseEffect ==
  ASSUME NEW s, Sound(s), NEW d \in Devices, s.count[d] > 0,
         Parent[d] # NoDevice => s.count[Parent[d]] > 0
  PROVE  /\ Sound(Close(s, d))
         /\ Close(s, d).count = Closes(s, d)
         /\ \A f \in Files : Close(s, d).fd[f] = s.fd[f]
<1>. DEFINE p == Parent[d]
            c == Close(s, d)
<1>0. /\ Paired(s) /\ s \in IoType /\ d \in Ios
      /\ s.count \in [Devices -> Nat]
      /\ s.fd \in [Ios -> Fds \union {NoFd}]
  BY DEF Sound, Paired, IoType, Ios
<1>00. Files \subseteq Ios \ Devices
  BY SystemAssumption DEF Ios
<1>1. CASE s.count[d] # 1
  <2>1. c = [s EXCEPT !.count[d] = s.count[d] - 1]
    BY <1>0, <1>1 DEF Close
  <2>2. s.count[d] - 1 \in Nat /\ s.count[d] - 1 > 0
    BY <1>0, <1>1
  <2>3. c.fd = s.fd
    BY <1>0, <2>1 DEF IoType
  <2>4. Closes(s, d) = [s.count EXCEPT ![d] = s.count[d] - 1]
    BY <1>0, <1>1 DEF Closes
  <2>. QED  BY <2>1, <2>2, <2>3, <2>4, CountSound
<1>2. ASSUME s.count[d] = 1, NEW t, Paired(t), t = DoClose(s, d),
             t.count[d] = 1, NEW D, D \subseteq Devices, d \in D,
             t.driver \ D = s.driver \ D,
             \A f \in Files : t.fd[f] = s.fd[f]
      PROVE  /\ Paired(c) /\ c.fd[d] = NoFd
             /\ c.count = [t.count EXCEPT ![d] = 0]
             /\ c.driver = t.driver
             /\ \A y \in Ios \ {d} : c.fd[y] = t.fd[y]
             /\ \A f \in Files : c.fd[f] = s.fd[f]
  <2>. DEFINE u == Deallocate(t, d)
  <2>1. Paired(u) /\ SameBut(t, u, d) /\ u.fd[d] = NoFd
    BY <1>0, <1>2, DeallocatePairs
  <2>2. c = [u EXCEPT !.count[d] = @ - 1]
    BY <1>2 DEF Close
  <2>. HIDE DEF u, c
  <2>3. u \in IoType /\ u.count = t.count /\ u.driver = t.driver
    BY <2>1 DEF Paired, SameBut
  <2>4. u.count[d] - 1 = 0
    BY <1>2, <2>3
  <2>5. /\ c \in IoType /\ c.table = u.table /\ c.fd = u.fd
        /\ c.driver = u.driver /\ c.count = [t.count EXCEPT ![d] = 0]
    BY <2>2, <2>3, <2>4 DEF IoType
  <2>6. Paired(c)
    BY <2>1, <2>5 DEF Paired
  <2>7. \A y \in Ios \ {d} : c.fd[y] = t.fd[y]
    BY <2>1, <2>5 DEF SameBut
  <2>8. \A f \in Files : c.fd[f] = s.fd[f]
    BY <1>00, <1>2, <2>7
  <2>. QED  BY <2>1, <2>3, <2>5, <2>6, <2>7, <2>8
<1>3. CASE s.count[d] = 1 /\ p = NoDevice
  <2>. DEFINE t == [s EXCEPT !.driver = @ \ {d}]
  <2>1. t = DoClose(s, d)
    BY <1>3 DEF DoClose
  <2>2. /\ t \in IoType /\ t.table = s.table /\ t.fd = s.fd
        /\ t.count = s.count /\ t.driver = s.driver \ {d}
    BY <1>0 DEF IoType
  <2>. HIDE DEF t, c
  <2>3. Paired(t)
    BY <1>0, <2>2 DEF Paired
  <2>4. /\ {d} \subseteq Devices /\ d \in {d}
        /\ t.driver \ {d} = s.driver \ {d}
        /\ t.count[d] = 1 /\ \A f \in Files : t.fd[f] = s.fd[f]
    BY <1>3, <2>2
  <2>5. /\ Paired(c) /\ c.fd[d] = NoFd
        /\ c.count = [t.count EXCEPT ![d] = 0]
        /\ c.driver = t.driver
        /\ \A y \in Ios \ {d} : c.fd[y] = t.fd[y]
        /\ \A f \in Files : c.fd[f] = s.fd[f]
    BY <1>2, <1>3, <2>1, <2>3, <2>4
  <2>6. Sound(c)
    <3>1. /\ \A y \in Ios \ {d} : c.fd[y] = s.fd[y]
          /\ \A e \in Devices \ {d} : c.count[e] = s.count[e]
          /\ c.driver \ {d} = s.driver \ {d}
      BY <1>0, <2>2, <2>5
    <3>2. c.count[d] = 0 /\ d \notin c.driver
      BY <1>0, <2>2, <2>5
    <3>3. c.count[d] > 0 <=> c.fd[d] # NoFd
      BY <2>5, <3>2
    <3>4. d \in c.driver <=> c.count[d] > 0
      BY <3>2
    <3>5. d \notin Files
      BY ParentFacts
    <3>6. Paired(c) /\ d \in Ios
      BY <1>0, <2>5
    <3>. QED  BY <3>1, <3>3, <3>4, <3>5, <3>6, ChangeSound
  <2>7. c.count = Closes(s, d)
    BY <1>0, <1>3, <2>2, <2>5, ParentFacts DEF Closes
  <2>. QED  BY <2>5, <2>6, <2>7 DEF c
<1>4. CASE s.count[d] = 1 /\ p # NoDevice
  <2>. DEFINE t == CloseWhole(s, p)
  <2>0. p \in Devices /\ Parent[p] = NoDevice /\ p # d /\ d \notin Files
        /\ p \notin Files /\ p \in Ios
    BY <1>4, ParentFacts DEF Ios
  <2>1. t = DoClose(s, d)
    BY <1>4 DEF DoClose
  <2>2. /\ Sound(t)
        /\ t.count = [s.count EXCEPT ![p] = @ - 1]
        /\ t.driver \ {p} = s.driver \ {p}
        /\ \A y \in Ios \ {p} : t.fd[y] = s.fd[y]
    BY <1>4, <2>0, CloseWholeEffect
  <2>. HIDE DEF t, c
  <2>4. /\ {d, p} \subseteq Devices /\ d \in {d, p}
        /\ t.driver \ {d, p} = s.driver \ {d, p}
        /\ t.count[d] = 1
    BY <1>0, <1>4, <2>0, <2>2
  <2>40. Paired(t) /\ \A f \in Files : t.fd[f] = s.fd[f]
    BY <1>00, <2>0, <2>2 DEF Sound
  <2>5. /\ Paired(c) /\ c.fd[d] = NoFd
        /\ c.count = [t.count EXCEPT ![d] = 0]
        /\ c.driver = t.driver
        /\ \A y \in Ios \ {d} : c.fd[y] = t.fd[y]
        /\ \A f \in Files : c.fd[f] = s.fd[f]
    BY <1>2, <1>4, <2>1, <2>4, <2>40
  <2>6. Sound(c)
    <3>1. /\ \A e \in Devices \ {d} : c.count[e] = t.count[e]
          /\ c.count[d] = 0
          /\ c.driver \ {d} = t.driver \ {d}
      BY <1>0, <2>2, <2>5
    <3>. QED  BY <1>0, <1>4, <2>0, <2>2, <2>5, <3>1, ChangeSound
  <2>7. c.count = Closes(s, d)
    BY <1>0, <1>4, <2>0, <2>2, <2>5 DEF Closes
  <2>. QED  BY <2>5, <2>6, <2>7 DEF c
<1>. QED  BY <1>0, <1>1, <1>3, <1>4
-----------------------------------------------------------------------------
(* The calls of the application.                                           *)

\* A partition that is open is a user of the device below, and a mounted
\* file system of its own.
Above(s, d) == {p \in Devices : Parent[p] = d /\ s.count[p] > 0}
MountedOn(path, d) ==
  {s \in FileSystems : path[s] # NoPath /\ BlockDevice[s] = d}

Users(d) ==
  opened[d] + Cardinality(Above(io, d)) + Cardinality(MountedOn(mountedPath, d))

\* A device is open at least as often as it has users; it is open more often
\* only after a refused umount() of the root.
Counted ==
  \A d \in Devices :
    io.count[d] >= Users(d) /\ (RootLast => io.count[d] = Users(d))

MountsSound ==
  /\ mountedPath \in [FileSystems -> MountPoints \union {NoPath}]
  /\ mountedRoot \in FileSystems \union {NoSystem}
  /\ mountedList \in Seq(FileSystems) /\ NoDuplicates(mountedList)
  /\ \A s \in ToSet(mountedList) : mountedPath[s] # NoPath

\* The invariant of the devices.
Inv ==
  /\ Sound(io)
  /\ opened \in [Devices -> 0..MaxOpens]
  /\ MountsSound
  /\ Counted

\* Counting the users of a device.
LEMMA UsersFinite ==
  ASSUME NEW s, NEW path, NEW d
  PROVE  /\ IsFiniteSet(Above(s, d)) /\ Cardinality(Above(s, d)) \in Nat
         /\ IsFiniteSet(MountedOn(path, d))
         /\ Cardinality(MountedOn(path, d)) \in Nat
<1>1. Above(s, d) \subseteq Devices /\ MountedOn(path, d) \subseteq FileSystems
  BY DEF Above, MountedOn
<1>2. IsFiniteSet(Above(s, d)) /\ IsFiniteSet(MountedOn(path, d))
  BY <1>1, DeviceAssumption, SystemAssumption, FS_Subset
<1>. QED  BY <1>2, FS_CardinalityType

\* An open of d that is the first adds one to the users of the device below,
\* and changes no other device's.
LEMMA AboveOpens ==
  ASSUME NEW s \in IoType, NEW r \in IoType, NEW d \in Devices,
         r.count = Opens(s, d), NEW e \in Devices
  PROVE  Cardinality(Above(r, e))
           = Cardinality(Above(s, e))
               + (IF e = Parent[d] /\ s.count[d] = 0 THEN 1 ELSE 0)
<1>0. s.count \in [Devices -> Nat] /\ d # Parent[d]
  BY ParentFacts DEF IoType
<1>1. r.count[d] > 0 /\ r.count[d] \in Nat
  BY <1>0 DEF Opens
<1>2. ASSUME NEW q \in Devices, Parent[q] = e, q # d
      PROVE  r.count[q] = s.count[q]
  <2>1. q # Parent[d]
    BY <1>2, ParentFacts
  <2>. QED  BY <1>0, <1>2, <2>1 DEF Opens
<1>3. CASE e = Parent[d] /\ s.count[d] = 0
  <2>1. Above(r, e) = Above(s, e) \union {d} /\ d \notin Above(s, e)
    BY <1>0, <1>1, <1>2, <1>3 DEF Above
  <2>. QED  BY <1>3, <2>1, UsersFinite, FS_AddElement
<1>4. CASE ~ (e = Parent[d] /\ s.count[d] = 0)
  <2>1. Above(r, e) = Above(s, e)
    BY <1>0, <1>1, <1>2, <1>4 DEF Above
  <2>. QED  BY <1>4, <2>1, UsersFinite
<1>. QED  BY <1>3, <1>4

\* The last close of d takes that one away.
LEMMA AboveCloses ==
  ASSUME NEW s \in IoType, NEW r \in IoType, NEW d \in Devices,
         s.count[d] > 0, r.count = Closes(s, d), NEW e \in Devices
  PROVE  Cardinality(Above(r, e))
           = Cardinality(Above(s, e))
               - (IF e = Parent[d] /\ s.count[d] = 1 THEN 1 ELSE 0)
<1>0. s.count \in [Devices -> Nat] /\ d # Parent[d]
  BY ParentFacts DEF IoType
<1>1. r.count[d] = s.count[d] - 1
  BY <1>0 DEF Closes
<1>2. ASSUME NEW q \in Devices, Parent[q] = e, q # d
      PROVE  r.count[q] = s.count[q]
  <2>1. q # Parent[d]
    BY <1>2, ParentFacts
  <2>. QED  BY <1>0, <1>2, <2>1 DEF Closes
<1>3. CASE e = Parent[d] /\ s.count[d] = 1
  <2>1. Above(r, e) = Above(s, e) \ {d} /\ d \in Above(s, e)
    BY <1>0, <1>1, <1>2, <1>3 DEF Above
  <2>. QED  BY <1>3, <2>1, UsersFinite, FS_RemoveElement
<1>4. CASE ~ (e = Parent[d] /\ s.count[d] = 1)
  <2>1. Above(r, e) = Above(s, e)
    BY <1>0, <1>1, <1>2, <1>4 DEF Above
  <2>. QED  BY <1>4, <2>1, UsersFinite
<1>. QED  BY <1>3, <1>4

\* What a device that is used can count on.
LEMMA UsedIsOpen ==
  ASSUME Inv, NEW d \in Devices
  PROVE  /\ io \in IoType /\ io.count \in [Devices -> Nat]
         /\ opened[d] \in Nat /\ Users(d) \in Nat
         /\ opened[d] > 0 => io.count[d] > 0
         /\ \A s \in FileSystems :
              mountedPath[s] # NoPath /\ BlockDevice[s] = d => io.count[d] > 0
         /\ io.count[d] > 0 /\ Parent[d] # NoDevice
              => Parent[d] \in Devices /\ io.count[Parent[d]] > 0
<1>0. io \in IoType /\ io.count \in [Devices -> Nat]
  BY DEF Inv, Sound, Paired, IoType
<1>00. opened \in [Devices -> Nat]
  BY SystemAssumption DEF Inv
<1>1. ASSUME NEW e \in Devices
      PROVE  /\ Cardinality(Above(io, e)) \in Nat
             /\ Cardinality(MountedOn(mountedPath, e)) \in Nat
             /\ opened[e] \in Nat /\ Users(e) \in Nat
             /\ io.count[e] >= Users(e)
             /\ Above(io, e) # {} => Cardinality(Above(io, e)) > 0
             /\ MountedOn(mountedPath, e) # {}
                  => Cardinality(MountedOn(mountedPath, e)) > 0
  <2>1. /\ Cardinality(Above(io, e)) \in Nat
        /\ Cardinality(MountedOn(mountedPath, e)) \in Nat
    BY UsersFinite
  <2>2. Above(io, e) # {} => Cardinality(Above(io, e)) # 0
    BY UsersFinite, FS_EmptySet
  <2>3. MountedOn(mountedPath, e) # {}
          => Cardinality(MountedOn(mountedPath, e)) # 0
    BY UsersFinite, FS_EmptySet
  <2>4. opened[e] \in Nat
    BY <1>00
  <2>5. io.count[e] >= Users(e)
    BY DEF Inv, Counted
  <2>. QED  BY <2>1, <2>2, <2>3, <2>4, <2>5 DEF Users
<1>2. opened[d] > 0 => io.count[d] > 0
  BY <1>0, <1>1 DEF Users
<1>3. ASSUME NEW s \in FileSystems, mountedPath[s] # NoPath, BlockDevice[s] = d
      PROVE  io.count[d] > 0
  <2>1. MountedOn(mountedPath, d) # {}
    BY <1>3 DEF MountedOn
  <2>. QED  BY <1>0, <1>1, <2>1 DEF Users
<1>4. ASSUME io.count[d] > 0, Parent[d] # NoDevice
      PROVE  Parent[d] \in Devices /\ io.count[Parent[d]] > 0
  <2>1. Parent[d] \in Devices
    BY <1>4, ParentFacts
  <2>2. Above(io, Parent[d]) # {}
    BY <1>4 DEF Above
  <2>. QED  BY <1>0, <1>1, <2>1, <2>2 DEF Users
<1>. QED  BY <1>0, <1>1, <1>2, <1>3, <1>4

\* The steps of Counted: the count and the users of each device move together.
LEMMA CountedOpens ==
  ASSUME Inv, NEW d \in Devices, io' \in IoType, io'.count = Opens(io, d),
         opened' \in [Devices -> Nat],
         \A e \in Devices :
           opened'[e] + Cardinality(MountedOn(mountedPath', e))
             = opened[e] + Cardinality(MountedOn(mountedPath, e))
                 + (IF e = d THEN 1 ELSE 0)
  PROVE  Counted'
<1>. SUFFICES ASSUME NEW e \in Devices
              PROVE  /\ io'.count[e] >= Users(e)'
                     /\ RootLast => io'.count[e] = Users(e)'
  BY DEF Counted
<1>1. /\ io.count \in [Devices -> Nat] /\ io \in IoType
      /\ opened[e] \in Nat
  BY UsedIsOpen
<1>2. Cardinality(Above(io', e))
        = Cardinality(Above(io, e))
            + (IF e = Parent[d] /\ io.count[d] = 0 THEN 1 ELSE 0)
  BY <1>1, AboveOpens
<1>3. io'.count[e]
        = io.count[e] + (IF e = d THEN 1 ELSE 0)
            + (IF e = Parent[d] /\ io.count[d] = 0 THEN 1 ELSE 0)
  BY DEF Opens
<1>4. /\ Users(e)' = opened'[e] + Cardinality(Above(io', e))
                       + Cardinality(MountedOn(mountedPath', e))
      /\ Users(e) = opened[e] + Cardinality(Above(io, e))
                      + Cardinality(MountedOn(mountedPath, e))
  BY DEF Users
<1>5. io.count[e] >= Users(e) /\ (RootLast => io.count[e] = Users(e))
  BY DEF Inv, Counted
<1>6. /\ opened'[e] \in Nat /\ Cardinality(MountedOn(mountedPath', e)) \in Nat
      /\ Cardinality(Above(io, e)) \in Nat
      /\ Cardinality(MountedOn(mountedPath, e)) \in Nat
      /\ io.count[e] \in Nat
  BY <1>1, UsersFinite
<1>7. Users(e)' - Users(e)
        = (IF e = d THEN 1 ELSE 0)
            + (IF e = Parent[d] /\ io.count[d] = 0 THEN 1 ELSE 0)
  BY <1>1, <1>2, <1>4, <1>6
<1>8. Users(e) \in Int /\ Users(e)' \in Int
  BY <1>1, <1>2, <1>4, <1>6
<1>. QED  BY <1>3, <1>5, <1>6, <1>7, <1>8

\* The counts still add up after a close that took a user of d away, an
\* application's or a mount.
LEMMA CountedCloses ==
  ASSUME Inv, NEW d \in Devices, io.count[d] > 0, io' \in IoType,
         io'.count = Closes(io, d), opened' \in [Devices -> Nat],
         \A e \in Devices :
           opened'[e] + Cardinality(MountedOn(mountedPath', e))
             = opened[e] + Cardinality(MountedOn(mountedPath, e))
                 - (IF e = d THEN 1 ELSE 0)
  PROVE  Counted'
<1>. SUFFICES ASSUME NEW e \in Devices
              PROVE  /\ io'.count[e] >= Users(e)'
                     /\ RootLast => io'.count[e] = Users(e)'
  BY DEF Counted
<1>1. /\ io.count \in [Devices -> Nat] /\ io \in IoType
      /\ opened[e] \in Nat
  BY UsedIsOpen
<1>2. Cardinality(Above(io', e))
        = Cardinality(Above(io, e))
            - (IF e = Parent[d] /\ io.count[d] = 1 THEN 1 ELSE 0)
  BY <1>1, AboveCloses
<1>3. io'.count[e]
        = io.count[e] - (IF e = d THEN 1 ELSE 0)
            - (IF e = Parent[d] /\ io.count[d] = 1 THEN 1 ELSE 0)
  BY DEF Closes
<1>4. /\ Users(e)' = opened'[e] + Cardinality(Above(io', e))
                       + Cardinality(MountedOn(mountedPath', e))
      /\ Users(e) = opened[e] + Cardinality(Above(io, e))
                      + Cardinality(MountedOn(mountedPath, e))
  BY DEF Users
<1>5. io.count[e] >= Users(e) /\ (RootLast => io.count[e] = Users(e))
  BY DEF Inv, Counted
<1>6. /\ opened'[e] \in Nat /\ Cardinality(MountedOn(mountedPath', e)) \in Nat
      /\ Cardinality(Above(io, e)) \in Nat
      /\ Cardinality(MountedOn(mountedPath, e)) \in Nat
      /\ io.count[e] \in Nat
  BY <1>1, UsersFinite
<1>7. Users(e) - Users(e)'
        = (IF e = d THEN 1 ELSE 0)
            + (IF e = Parent[d] /\ io.count[d] = 1 THEN 1 ELSE 0)
  BY <1>1, <1>2, <1>4, <1>6
<1>8. Users(e) \in Int /\ Users(e)' \in Int
  BY <1>1, <1>2, <1>4, <1>6
<1>. QED  BY <1>3, <1>5, <1>6, <1>7, <1>8

\* A file system mounted or unmounted is one user more or less of its device.
LEMMA MountedMore ==
  ASSUME NEW path, NEW s \in FileSystems, NEW e,
         NEW after, after[s] # NoPath, path[s] = NoPath,
         \A t \in FileSystems \ {s} : after[t] = path[t]
  PROVE  Cardinality(MountedOn(after, e))
           = Cardinality(MountedOn(path, e))
               + (IF e = BlockDevice[s] THEN 1 ELSE 0)
<1>1. CASE e = BlockDevice[s]
  <2>1. /\ MountedOn(after, e) = MountedOn(path, e) \union {s}
        /\ s \notin MountedOn(path, e)
    BY <1>1 DEF MountedOn
  <2>. QED  BY <1>1, <2>1, UsersFinite, FS_AddElement
<1>2. CASE e # BlockDevice[s]
  <2>1. MountedOn(after, e) = MountedOn(path, e)
    BY <1>2 DEF MountedOn
  <2>. QED  BY <1>2, <2>1, UsersFinite
<1>. QED  BY <1>1, <1>2

\* A file system at the end of the list of mounts.
LEMMA AppendElements ==
  ASSUME NEW S, NEW q \in Seq(S), NEW x \in S, x \notin ToSet(q),
         NoDuplicates(q)
  PROVE  /\ Append(q, x) \in Seq(S)
         /\ NoDuplicates(Append(q, x))
         /\ ToSet(Append(q, x)) = ToSet(q) \union {x}
<1>. DEFINE r == Append(q, x)
<1>1. /\ r \in Seq(S) /\ Len(r) = Len(q) + 1 /\ Len(q) \in Nat
      /\ \A i \in 1..Len(q) : r[i] = q[i]
      /\ r[Len(q) + 1] = x
      /\ DOMAIN r = 1..(Len(q) + 1) /\ DOMAIN q = 1..Len(q)
  OBVIOUS
<1>. HIDE DEF r
<1>2. \A i \in 1..Len(q) : q[i] # x /\ q[i] \in ToSet(q)
  BY <1>1 DEF ToSet
<1>3. NoDuplicates(r)
  BY <1>1, <1>2 DEF NoDuplicates
<1>4. ToSet(r) \subseteq ToSet(q) \union {x}
  BY <1>1, <1>2 DEF ToSet
<1>5. ToSet(q) \subseteq ToSet(r)
  BY <1>1 DEF ToSet
<1>6. x \in ToSet(r)
  <2>1. Len(q) + 1 \in DOMAIN r
    BY <1>1
  <2>. QED  BY <1>1, <2>1 DEF ToSet
<1>7. ToSet(r) = ToSet(q) \union {x}
  BY <1>4, <1>5, <1>6
<1>. QED  BY <1>1, <1>3, <1>7 DEF r

\* A file takes a descriptor and gives it back.
LEMMA FileOpened ==
  ASSUME NEW s, Sound(s), NEW f \in Files, CanAllocate(s, f),
         NEW r, r = Allocate([s EXCEPT !.driver = @ \union {f}], f)
  PROVE  /\ Sound(r) /\ r.count = s.count
         /\ r.driver = s.driver \union {f}
         /\ \A g \in Files \ {f} : r.fd[g] = s.fd[g]
<1>. DEFINE t == [s EXCEPT !.driver = @ \union {f}]
<1>0. Paired(s) /\ s \in IoType /\ f \in Ios /\ f \notin Devices
  BY SystemAssumption DEF Sound, Paired, Ios
<1>1. /\ t \in IoType /\ t.table = s.table /\ t.fd = s.fd
      /\ t.count = s.count /\ t.driver = s.driver \union {f}
  BY <1>0 DEF IoType
<1>2. r = Allocate(t, f)
  OBVIOUS
<1>. HIDE DEF t
<1>3. Paired(t) /\ CanAllocate(t, f)
  BY <1>0, <1>1 DEF Paired, CanAllocate, FreeFds
<1>4. Paired(r) /\ SameBut(t, r, f) /\ r.fd[f] # NoFd
  BY <1>0, <1>2, <1>3, AllocatePairs
<1>5. /\ r.count = s.count /\ r.driver = s.driver \union {f}
      /\ \A y \in Ios \ {f} : r.fd[y] = s.fd[y]
  BY <1>1, <1>4 DEF SameBut
<1>6. r.driver \ {f} = s.driver \ {f} /\ f \in r.driver
  BY <1>5
<1>7. Sound(r)
  BY <1>0, <1>4, <1>5, <1>6, ChangeSound
<1>. QED  BY <1>5, <1>7 DEF Ios

\* Closing a file returns its descriptor and changes no device.
LEMMA FileClosed ==
  ASSUME NEW s, Sound(s), NEW f \in Files, f \in s.driver,
         NEW r, r = [Deallocate(s, f) EXCEPT !.driver = @ \ {f}]
  PROVE  /\ Sound(r) /\ r.count = s.count
         /\ r.driver = s.driver \ {f}
         /\ \A g \in Files \ {f} : r.fd[g] = s.fd[g]
<1>. DEFINE t == Deallocate(s, f)
<1>0. Paired(s) /\ s \in IoType /\ f \in Ios /\ f \notin Devices
  BY SystemAssumption DEF Sound, Paired, Ios
<1>1. Paired(t) /\ SameBut(s, t, f) /\ t.fd[f] = NoFd
  BY <1>0, DeallocatePairs
<1>2. r = [t EXCEPT !.driver = @ \ {f}]
  OBVIOUS
<1>. HIDE DEF t
<1>3. t \in IoType
  BY <1>1 DEF Paired
<1>4. /\ r \in IoType /\ r.table = t.table /\ r.fd = t.fd
      /\ r.count = t.count /\ r.driver = t.driver \ {f}
  BY <1>2, <1>3 DEF IoType
<1>5. Paired(r)
  BY <1>1, <1>4 DEF Paired
<1>6. /\ r.count = s.count /\ r.driver = s.driver \ {f}
      /\ \A y \in Ios \ {f} : r.fd[y] = s.fd[y]
      /\ r.fd[f] = NoFd
  BY <1>1, <1>4 DEF SameBut
<1>7. r.driver \ {f} = s.driver \ {f} /\ f \notin r.driver
  BY <1>6
<1>8. Sound(r)
  BY <1>0, <1>5, <1>6, <1>7, ChangeSound
<1>. QED  BY <1>6, <1>8 DEF Ios

\* OpenDevice, CloseDevice, Mount and Umount, and the two calls on files.
LEMMA DevicesStep ==
  ASSUME Inv, [Next]_vars
  PROVE  Inv'
<1>0. /\ Sound(io) /\ MountsSound /\ io \in IoType
      /\ opened \in [Devices -> 0..MaxOpens] /\ opened \in [Devices -> Nat]
      /\ MaxOpens \in Nat
  BY SystemAssumption DEF Inv, Sound, Paired
<1>1. ASSUME NEW d \in Devices, NEW works \in BOOLEAN, OpenDevice(d, works)
      PROVE  Inv'
  <2>. DEFINE r == Open(io, d, works)
  <2>1. /\ r.ok \in BOOLEAN
        /\ ~ r.ok => r.io = io
        /\ r.ok => /\ Sound(r.io)
                   /\ r.io.count = Opens(io, d)
    BY <1>0, <1>1, OpenEffect
  <2>2. /\ io' = r.io /\ opened[d] < MaxOpens
        /\ opened' = [opened EXCEPT ![d] = IF r.ok THEN @ + 1 ELSE @]
        /\ UNCHANGED mounts
    BY <1>1 DEF OpenDevice
  <2>. HIDE DEF r
  <2>3. CASE ~ r.ok
    <3>1. io' = io /\ opened' = opened
      BY <1>0, <2>1, <2>2, <2>3
    <3>. QED  BY <2>2, <3>1
              DEF Inv, Sound, Paired, MountsSound, Counted, Users, mounts
  <2>4. CASE r.ok
    <3>1. /\ Sound(io') /\ io'.count = Opens(io, d)
          /\ opened' \in [Devices -> 0..MaxOpens]
          /\ opened' \in [Devices -> Nat]
          /\ mountedPath' = mountedPath
          /\ \A e \in Devices :
               opened'[e] = opened[e] + (IF e = d THEN 1 ELSE 0)
      BY <1>0, <2>1, <2>2, <2>4 DEF mounts
    <3>2. io' \in IoType
      BY <3>1 DEF Sound, Paired
    <3>3. \A e \in Devices :
            opened'[e] + Cardinality(MountedOn(mountedPath', e))
              = opened[e] + Cardinality(MountedOn(mountedPath, e))
                  + (IF e = d THEN 1 ELSE 0)
      BY <1>0, <3>1, UsersFinite
    <3>4. Counted'
      BY <3>1, <3>2, <3>3, CountedOpens
    <3>5. MountsSound'
      BY <1>0, <2>2 DEF MountsSound, mounts
    <3>. QED  BY <3>1, <3>4, <3>5 DEF Inv, Sound, Paired
  <2>. QED  BY <2>1, <2>3, <2>4
<1>2. ASSUME NEW d \in Devices, CloseDevice(d)
      PROVE  Inv'
  <2>1. io.count[d] > 0 /\ (Parent[d] # NoDevice => io.count[Parent[d]] > 0)
    BY <1>2, UsedIsOpen DEF CloseDevice
  <2>2. /\ io' = Close(io, d) /\ opened[d] > 0
        /\ opened' = [opened EXCEPT ![d] = @ - 1]
        /\ UNCHANGED mounts
    BY <1>2 DEF CloseDevice
  <2>3. Sound(io') /\ io'.count = Closes(io, d)
    BY <1>0, <1>2, <2>1, <2>2, CloseEffect
  <2>4. /\ opened' \in [Devices -> 0..MaxOpens] /\ opened' \in [Devices -> Nat]
        /\ mountedPath' = mountedPath
        /\ \A e \in Devices :
             opened'[e] = opened[e] - (IF e = d THEN 1 ELSE 0)
    BY <1>0, <2>2 DEF mounts
  <2>5. io' \in IoType
    BY <2>3 DEF Sound, Paired
  <2>6. \A e \in Devices :
          opened'[e] + Cardinality(MountedOn(mountedPath', e))
            = opened[e] + Cardinality(MountedOn(mountedPath, e))
                - (IF e = d THEN 1 ELSE 0)
    BY <1>0, <2>4, UsersFinite
  <2>7. Counted'
    BY <1>2, <2>1, <2>3, <2>4, <2>5, <2>6, CountedCloses
  <2>8. MountsSound'
    BY <1>0, <2>2 DEF MountsSound, mounts
  <2>. QED  BY <2>3, <2>4, <2>7, <2>8 DEF Inv, Sound, Paired
<1>3. ASSUME NEW s \in FileSystems, NEW path \in MountPoints,
             NEW works \in BOOLEAN, Mount(s, path, works)
      PROVE  Inv'
  <2>. DEFINE d == BlockDevice[s]
              r == Open(io, d, works)
  <2>0. d \in Devices /\ path # NoPath /\ NoPath \notin MountPoints
    BY DeviceAssumption, SystemAssumption
  <2>1. /\ r.ok \in BOOLEAN
        /\ ~ r.ok => r.io = io
        /\ r.ok => /\ Sound(r.io)
                   /\ r.io.count = Opens(io, d)
    BY <1>0, <2>0, OpenEffect
  <2>2. /\ io' = r.io /\ mountedPath[s] = NoPath
        /\ IF ~ r.ok THEN UNCHANGED mounts
           ELSE /\ mountedPath' = [mountedPath EXCEPT ![s] = path]
                /\ \/ mountedRoot' = s /\ mountedList' = mountedList
                   \/ /\ mountedList' = Append(mountedList, s)
                      /\ mountedRoot' = mountedRoot
        /\ UNCHANGED opened
    BY <1>3 DEF Mount
  <2>. HIDE DEF r, d
  <2>3. CASE ~ r.ok
    <3>1. io' = io /\ opened' = opened /\ UNCHANGED mounts
      BY <2>1, <2>2, <2>3
    <3>. QED  BY <3>1
              DEF Inv, Sound, Paired, MountsSound, Counted, Users, mounts
  <2>4. CASE r.ok
    <3>1. Sound(io') /\ io'.count = Opens(io, d)
      BY <2>1, <2>2, <2>4
    <3>2. io' \in IoType
      BY <3>1 DEF Sound, Paired
    <3>3. /\ mountedPath' = [mountedPath EXCEPT ![s] = path]
          /\ mountedPath \in [FileSystems -> MountPoints \union {NoPath}]
          /\ opened' = opened
      BY <1>0, <2>2, <2>4 DEF MountsSound
    <3>30. /\ mountedPath'[s] # NoPath
           /\ \A t \in FileSystems \ {s} : mountedPath'[t] = mountedPath[t]
      BY <2>0, <3>3
    <3>4. \A e \in Devices :
            Cardinality(MountedOn(mountedPath', e))
              = Cardinality(MountedOn(mountedPath, e))
                  + (IF e = d THEN 1 ELSE 0)
      BY <2>2, <3>30, MountedMore DEF d
    <3>5. \A e \in Devices :
            opened'[e] + Cardinality(MountedOn(mountedPath', e))
              = opened[e] + Cardinality(MountedOn(mountedPath, e))
                  + (IF e = d THEN 1 ELSE 0)
      <4>. TAKE e \in Devices
      <4>1. /\ Cardinality(MountedOn(mountedPath, e)) \in Nat
            /\ Cardinality(MountedOn(mountedPath', e)) \in Nat
            /\ opened[e] \in Nat /\ opened'[e] = opened[e]
        BY <1>0, <3>3, UsersFinite
      <4>2. Cardinality(MountedOn(mountedPath', e))
              = Cardinality(MountedOn(mountedPath, e))
                  + (IF e = d THEN 1 ELSE 0)
        BY <3>4
      <4>. QED  BY <4>1, <4>2
    <3>6. Counted'
      BY <1>0, <2>0, <3>1, <3>2, <3>3, <3>5, CountedOpens
    <3>7. MountsSound'
      <4>1. mountedPath' \in [FileSystems -> MountPoints \union {NoPath}]
        BY <3>3
      <4>2. /\ mountedRoot \in FileSystems \union {NoSystem}
            /\ mountedList \in Seq(FileSystems) /\ NoDuplicates(mountedList)
            /\ \A t \in ToSet(mountedList) :
                 t \in FileSystems /\ mountedPath[t] # NoPath
        BY <1>0 DEF MountsSound, ToSet
      <4>3. s \notin ToSet(mountedList)
        BY <2>2, <4>2
      <4>4. \A t \in ToSet(mountedList) : mountedPath'[t] # NoPath
        BY <3>30, <4>2, <4>3
      <4>5. CASE mountedRoot' = s /\ mountedList' = mountedList
        BY <4>1, <4>2, <4>4, <4>5 DEF MountsSound
      <4>6. CASE /\ mountedList' = Append(mountedList, s)
                 /\ mountedRoot' = mountedRoot
        <5>1. /\ Append(mountedList, s) \in Seq(FileSystems)
              /\ NoDuplicates(Append(mountedList, s))
              /\ ToSet(Append(mountedList, s)) = ToSet(mountedList) \union {s}
          BY <4>2, <4>3, AppendElements
        <5>. QED  BY <3>30, <4>1, <4>2, <4>4, <4>6, <5>1 DEF MountsSound
      <4>. QED  BY <2>2, <2>4, <4>5, <4>6
    <3>. QED  BY <1>0, <3>1, <3>3, <3>6, <3>7 DEF Inv, Sound, Paired
  <2>. QED  BY <2>1, <2>3, <2>4
<1>4. ASSUME NEW s \in FileSystems, Umount(s)
      PROVE  Inv'
  <2>. DEFINE d == BlockDevice[s]
              busy == s = mountedRoot /\ Unlink(mountedList, s) # <<>>
  <2>0. d \in Devices
    BY DeviceAssumption
  <2>1. /\ mountedPath[s] # NoPath
        /\ RootLast => ~ busy
        /\ mountedList' = Unlink(mountedList, s)
        /\ mountedPath' = [mountedPath EXCEPT ![s] = NoPath]
        /\ mountedRoot' = mountedRoot \/ mountedRoot' = NoSystem
        /\ io' = IF busy \/ io.count[d] = 0 THEN io ELSE Close(io, d)
        /\ UNCHANGED opened
    BY <1>4 DEF Umount
  <2>. HIDE DEF busy
  <2>2. /\ io.count[d] > 0 /\ io.count[d] # 0
        /\ Parent[d] # NoDevice => io.count[Parent[d]] > 0
    BY <2>0, <2>1, UsedIsOpen
  <2>3. /\ mountedPath \in [FileSystems -> MountPoints \union {NoPath}]
        /\ mountedRoot \in FileSystems \union {NoSystem}
        /\ mountedList \in Seq(FileSystems) /\ NoDuplicates(mountedList)
        /\ \A t \in ToSet(mountedList) :
             t \in FileSystems /\ mountedPath[t] # NoPath
    BY <1>0 DEF MountsSound, ToSet
  <2>4. /\ mountedPath'[s] = NoPath
        /\ \A t \in FileSystems \ {s} : mountedPath'[t] = mountedPath[t]
    BY <2>1, <2>3
  <2>5. MountsSound'
    <3>1. /\ mountedList' \in Seq(FileSystems) /\ NoDuplicates(mountedList')
          /\ ToSet(mountedList') = ToSet(mountedList) \ {s}
      BY <2>1, <2>3, UnlinkElements
    <3>2. mountedPath' \in [FileSystems -> MountPoints \union {NoPath}]
      BY <2>1, <2>3
    <3>3. mountedRoot' \in FileSystems \union {NoSystem}
      BY <2>1, <2>3
    <3>. QED  BY <2>3, <2>4, <3>1, <3>2, <3>3 DEF MountsSound
  <2>6. \A e \in Devices :
          Cardinality(MountedOn(mountedPath, e))
            = Cardinality(MountedOn(mountedPath', e))
                + (IF e = d THEN 1 ELSE 0)
    <3>1. /\ \A t \in FileSystems \ {s} : mountedPath[t] = mountedPath'[t]
          /\ mountedPath[s] # NoPath
      BY <2>1, <2>4
    <3>. QED  BY <2>4, <3>1, MountedMore
  <2>7. \A e \in Devices :
          opened'[e] + Cardinality(MountedOn(mountedPath', e))
            = opened[e] + Cardinality(MountedOn(mountedPath, e))
                - (IF e = d THEN 1 ELSE 0)
    <3>. TAKE e \in Devices
    <3>1. /\ Cardinality(MountedOn(mountedPath, e)) \in Nat
          /\ Cardinality(MountedOn(mountedPath', e)) \in Nat
          /\ opened[e] \in Nat /\ opened'[e] = opened[e]
      BY <1>0, <2>1, UsersFinite
    <3>. HIDE DEF d
    <3>2. Cardinality(MountedOn(mountedPath, e))
            = Cardinality(MountedOn(mountedPath', e))
                + (IF e = d THEN 1 ELSE 0)
      BY <2>6
    <3>. QED  BY <3>1, <3>2
  <2>. HIDE DEF d
  <2>8. CASE busy
    <3>1. io' = io /\ ~ RootLast /\ opened' = opened
      BY <2>1, <2>8, SystemAssumption
    <3>2. ASSUME NEW e \in Devices
          PROVE  io'.count[e] >= Users(e)'
      <4>1. Users(e)' <= Users(e)
        <5>1. /\ Cardinality(MountedOn(mountedPath, e)) \in Nat
              /\ Cardinality(MountedOn(mountedPath', e)) \in Nat
              /\ Cardinality(Above(io, e)) \in Nat
              /\ opened[e] \in Nat
          BY <1>0, UsersFinite
        <5>2. Cardinality(MountedOn(mountedPath', e))
                <= Cardinality(MountedOn(mountedPath, e))
          BY <2>6, <5>1
        <5>3. Users(e)' = opened[e] + Cardinality(Above(io, e))
                            + Cardinality(MountedOn(mountedPath', e))
          BY <3>1 DEF Users
        <5>. QED  BY <5>1, <5>2, <5>3 DEF Users
      <4>2. io.count[e] >= Users(e) /\ io.count[e] \in Nat /\ Users(e) \in Nat
        BY UsedIsOpen DEF Inv, Counted
      <4>3. Users(e)' \in Int
        <5>1. /\ Cardinality(MountedOn(mountedPath', e)) \in Nat
              /\ Cardinality(Above(io, e)) \in Nat
              /\ opened[e] \in Nat
          BY <1>0, UsersFinite
        <5>. QED  BY <3>1, <5>1 DEF Users
      <4>. QED  BY <3>1, <4>1, <4>2, <4>3
    <3>3. Counted'
      BY <3>1, <3>2 DEF Counted
    <3>. QED  BY <1>0, <2>5, <3>1, <3>3 DEF Inv, Sound, Paired
  <2>9. CASE ~ busy
    <3>1. io' = Close(io, d) /\ opened' = opened
      BY <2>1, <2>2, <2>9
    <3>2. Sound(io') /\ io'.count = Closes(io, d)
      BY <1>0, <2>0, <2>2, <3>1, CloseEffect
    <3>3. io' \in IoType
      BY <3>2 DEF Sound, Paired
    <3>4. Counted'
      BY <1>0, <2>0, <2>2, <2>7, <3>1, <3>2, <3>3, CountedCloses
    <3>. QED  BY <1>0, <2>5, <3>1, <3>2, <3>4 DEF Inv, Sound, Paired
  <2>. QED  BY <2>8, <2>9
<1>5. ASSUME Sound(io'), io'.count = io.count, UNCHANGED <<opened, mounts>>
      PROVE  Inv'
  <2>1. MountsSound'
    BY <1>0, <1>5 DEF MountsSound, mounts
  <2>2. \A e \in Devices : Users(e)' = Users(e)
    BY <1>5 DEF Users, Above, mounts
  <2>3. Counted'
    BY <1>5, <2>2 DEF Inv, Counted
  <2>. QED  BY <1>0, <1>5, <2>1, <2>3 DEF Inv
<1>6. ASSUME NEW point \in MountPoints, NEW f \in Files, OpenFile(point, f)
      PROVE  Inv'
  <2>1. /\ io' = io \/ /\ CanAllocate(io, f)
                       /\ io' = Allocate([io EXCEPT !.driver = @ \union {f}], f)
        /\ UNCHANGED <<opened, mounts>>
    BY <1>6 DEF OpenFile
  <2>2. CASE io' = io
    <3>1. Sound(io') /\ io'.count = io.count
      BY <1>0, <2>2
    <3>. QED  BY <1>5, <2>1, <3>1
  <2>3. CASE /\ CanAllocate(io, f)
             /\ io' = Allocate([io EXCEPT !.driver = @ \union {f}], f)
    <3>1. Sound(io') /\ io'.count = io.count
      BY <1>0, <2>3, FileOpened
    <3>. QED  BY <1>5, <2>1, <3>1
  <2>. QED  BY <2>1, <2>2, <2>3
<1>7. ASSUME NEW f \in Files, CloseFile(f)
      PROVE  Inv'
  <2>1. /\ io' = IF f \in io.driver
                 THEN [Deallocate(io, f) EXCEPT !.driver = @ \ {f}] ELSE io
        /\ UNCHANGED <<opened, mounts>>
    BY <1>7 DEF CloseFile
  <2>2. CASE f \notin io.driver
    <3>1. Sound(io') /\ io'.count = io.count
      BY <1>0, <2>1, <2>2
    <3>. QED  BY <1>5, <2>1, <3>1
  <2>3. CASE f \in io.driver
    <3>1. Sound(io') /\ io'.count = io.count
      BY <1>0, <2>1, <2>3, FileClosed
    <3>. QED  BY <1>5, <2>1, <3>1
  <2>. QED  BY <2>1, <2>2, <2>3
<1>8. ASSUME UNCHANGED <<io, opened, mounts>>
      PROVE  Inv'
  <2>1. Sound(io') /\ io'.count = io.count /\ UNCHANGED <<opened, mounts>>
    BY <1>0, <1>8
  <2>. QED  BY <1>5, <2>1
<1>9. ASSUME NEW point \in MountPoints, NEW d \in Directories,
             OpenDirectory(point, d)
      PROVE  Inv'
  BY <1>8, <1>9 DEF OpenDirectory
<1>10. ASSUME NEW d \in Directories, CloseDirectory(d)
       PROVE  Inv'
  BY <1>8, <1>10 DEF CloseDirectory
<1>11. CASE UNCHANGED vars
  BY <1>8, <1>11 DEF vars
<1>. QED  BY <1>1, <1>2, <1>3, <1>4, <1>6, <1>7, <1>9, <1>10, <1>11 DEF Next

\* At the start nothing is open.
LEMMA DevicesInit == Init => Inv
<1>. SUFFICES ASSUME Init
              PROVE  Inv
  OBVIOUS
<1>1. /\ io.table = [n \in Fds |-> NoIo] /\ io.fd = [x \in Ios |-> NoFd]
      /\ io.count = [d \in Devices |-> 0] /\ io.driver = {}
      /\ io \in IoType
  BY DEF Init, IoType
<1>2. ASSUME NEW n \in Fds, NEW x \in Ios
      PROVE  io.table[n] # x /\ io.fd[x] # n
  BY <1>1, SystemAssumption DEF Ios, Fds, NoFd, Reserved
<1>3. Sound(io)
  BY <1>1, <1>2 DEF Sound, Paired, Ios
<1>4. opened \in [Devices -> 0..MaxOpens]
  BY SystemAssumption DEF Init
<1>5. MountsSound
  <2>1. /\ mountedPath \in [FileSystems -> MountPoints \union {NoPath}]
        /\ mountedRoot \in FileSystems \union {NoSystem}
        /\ mountedList = <<>>
    BY DEF Init
  <2>. QED  BY <2>1 DEF MountsSound, NoDuplicates, ToSet
<1>6. ASSUME NEW d \in Devices
      PROVE  io.count[d] = Users(d) /\ Users(d) \in Nat
  <2>1. Above(io, d) = {} /\ MountedOn(mountedPath, d) = {}
    BY <1>1 DEF Above, MountedOn, Init
  <2>2. opened[d] = 0
    BY DEF Init
  <2>. QED  BY <1>1, <2>1, <2>2, FS_EmptySet DEF Users
<1>7. Counted
  BY <1>6 DEF Counted
<1>. QED  BY <1>3, <1>4, <1>5, <1>7 DEF Inv

\* The devices add up in every reachable state.
LEMMA SpecInv == Spec => []Inv
BY DevicesInit, DevicesStep, PTL DEF Spec
-----------------------------------------------------------------------------
(* The file and directory objects.                                         *)

\* The list in which an object of a file system waits to be used again.
Home(f) == <<fileSystem[f], IF f \in Files THEN "files" ELSE "directories">>

FilesType ==
  /\ fileSystem \in [Objects -> FileSystems \union {NoSystem}]
  /\ deferred \in [DeferredLists -> Seq(Objects)]
  /\ handed \subseteq Objects

\* An object is in use, or waits once in its list, or does not exist.
FilesSound ==
  /\ FilesType
  /\ handed \intersect io.driver = {}
  /\ \A f \in Objects :
       f \in handed \union io.driver => fileSystem[f] # NoSystem
  /\ \A l \in DeferredLists : NoDuplicates(deferred[l])
  /\ \A l \in DeferredLists : \A f \in ToSet(deferred[l]) :
       l = Home(f) /\ f \notin handed \union io.driver
  /\ \A f \in Objects :
       fileSystem[f] # NoSystem /\ f \notin handed \union io.driver
         => f \in ToSet(deferred[Home(f)])

\* The home of an object is one of the lists of its file system.
LEMMA HomeIsList ==
  ASSUME NEW f \in Objects, fileSystem[f] \in FileSystems
  PROVE  Home(f) \in DeferredLists
BY DEF Home, DeferredLists

\* An object that is found in a list is at home there, so it is in no other.
LEMMA ListIsHome ==
  ASSUME FilesSound, NEW l \in DeferredLists, NEW f \in ToSet(deferred[l])
  PROVE  /\ f \in Objects /\ fileSystem[f] = l[1] /\ l[1] \in FileSystems
         /\ fileSystem[f] # NoSystem
         /\ l[2] = IF f \in Files THEN "files" ELSE "directories"
<1>1. f \in Objects
  BY DEF FilesSound, FilesType, ToSet
<1>2. l = Home(f)
  BY DEF FilesSound
<1>3. l[1] \in FileSystems
  BY DEF DeferredLists
<1>4. l[1] = fileSystem[f]
  BY <1>2 DEF Home
<1>5. l[2] = IF f \in Files THEN "files" ELSE "directories"
  BY <1>2 DEF Home
<1>. QED  BY <1>1, <1>3, <1>4, <1>5, SystemAssumption

\* Whether a file is open does not depend on the devices.
LEMMA DriverOfFiles ==
  ASSUME Inv, Inv', \A f \in Files : io'.fd[f] = io.fd[f]
  PROVE  \A f \in Objects : f \in io'.driver <=> f \in io.driver
<1>1. \A f \in Files : f \in io'.driver <=> f \in io.driver
  BY DEF Inv, Sound
<1>2. io.driver \subseteq Ios /\ io'.driver \subseteq Ios
  BY DEF Inv, Sound, Paired, IoType
<1>3. \A f \in Directories : f \notin Ios
  BY SystemAssumption DEF Ios
<1>. QED  BY <1>1, <1>2, <1>3 DEF Objects

\* Calls on devices and mounts move no file or directory object.
LEMMA FilesUntouched ==
  ASSUME FilesSound, UNCHANGED files,
         \A f \in Objects : f \in io'.driver <=> f \in io.driver
  PROVE  FilesSound'
<1>0. fileSystem' = fileSystem /\ deferred' = deferred /\ handed' = handed
  BY DEF files
<1>1. \A f \in Objects :
        f \in handed' \union io'.driver <=> f \in handed \union io.driver
  BY <1>0
<1>2. \A f : Home(f)' = Home(f)
  BY <1>0 DEF Home
<1>3. FilesType' /\ handed \subseteq Objects
  BY <1>0 DEF FilesType, FilesSound
<1>4. handed' \intersect io'.driver = {}
  BY <1>0, <1>3 DEF FilesSound
<1>5. \A l \in DeferredLists : \A f \in ToSet(deferred[l]) :
         f \in Objects /\ l = Home(f) /\ f \notin handed \union io.driver
  BY ListIsHome DEF FilesSound
<1>6. \A l \in DeferredLists : \A f \in ToSet(deferred'[l]) :
         l = Home(f)' /\ f \notin handed' \union io'.driver
  BY <1>0, <1>1, <1>2, <1>5
<1>7. \A f \in Objects :
         fileSystem'[f] # NoSystem /\ f \notin handed' \union io'.driver
           => f \in ToSet(deferred'[Home(f)'])
  BY <1>0, <1>1, <1>2 DEF FilesSound
<1>8. \A f \in Objects :
         f \in handed' \union io'.driver => fileSystem'[f] # NoSystem
  BY <1>0, <1>1 DEF FilesSound
<1>9. \A l \in DeferredLists : NoDuplicates(deferred'[l])
  BY <1>0 DEF FilesSound
<1>. QED  BY <1>3, <1>4, <1>6, <1>7, <1>8, <1>9 DEF FilesSound

\* allocate_file and allocate_directory: an object nobody has, and those
\* behind it in the list cease to exist.
LEMMA ObjectAllocated ==
  ASSUME FilesSound, NEW l \in DeferredLists, NEW f \in Objects,
         AllocateObject(l, f),
         l[2] = IF f \in Files THEN "files" ELSE "directories"
  PROVE  /\ fileSystem' \in [Objects -> FileSystems \union {NoSystem}]
         /\ deferred' \in [DeferredLists -> Seq(Objects)]
         /\ f \notin handed \union io.driver
         /\ fileSystem'[f] = l[1] /\ l[1] \in FileSystems
         /\ \A g \in Objects \ {f} :
              fileSystem'[g] = IF g \in ToSet(deferred[l]) THEN NoSystem
                               ELSE fileSystem[g]
         /\ deferred'[l] = <<>>
         /\ \A m \in DeferredLists : m # l => deferred'[m] = deferred[m]
         /\ \A m \in DeferredLists : m # l => f \notin ToSet(deferred[m])
<1>0. /\ FilesType /\ l[1] \in FileSystems /\ NoSystem \notin FileSystems
      /\ deferred[l] \in Seq(Objects)
  BY SystemAssumption DEF FilesSound, FilesType, DeferredLists
<1>1. CASE deferred[l] = <<>>
  <2>1. /\ fileSystem[f] = NoSystem
        /\ fileSystem' = [fileSystem EXCEPT ![f] = l[1]]
        /\ deferred' = deferred
    BY <1>1 DEF AllocateObject
  <2>2. ToSet(deferred[l]) = {}
    BY <1>1 DEF ToSet
  <2>3. \A m \in DeferredLists : f \notin ToSet(deferred[m])
    BY <2>1, ListIsHome
  <2>4. f \notin handed \union io.driver
    BY <2>1 DEF FilesSound
  <2>. QED  BY <1>0, <1>1, <2>1, <2>2, <2>3, <2>4 DEF FilesType
<1>2. CASE deferred[l] # <<>>
  <2>. DEFINE q == deferred[l]
  <2>1. /\ f = Head(q)
        /\ fileSystem' = [g \in Objects |->
                            IF g \in ToSet(Tail(q)) THEN NoSystem
                            ELSE fileSystem[g]]
        /\ deferred' = [deferred EXCEPT ![l] = <<>>]
    BY <1>2 DEF AllocateObject
  <2>2. NoDuplicates(q)
    BY DEF FilesSound
  <2>3. /\ ToSet(q) = ToSet(Tail(q)) \union {f} /\ f \notin ToSet(Tail(q))
    BY <1>0, <1>2, <2>1, <2>2, TailElements
  <2>4. /\ fileSystem[f] = l[1] /\ f \notin handed \union io.driver
    BY <2>3, ListIsHome DEF FilesSound
  <2>5. ASSUME NEW m \in DeferredLists, m # l
        PROVE  f \notin ToSet(deferred[m])
    BY <2>3, <2>5 DEF FilesSound
  <2>. HIDE DEF q
  <2>6. /\ fileSystem' \in [Objects -> FileSystems \union {NoSystem}]
        /\ fileSystem'[f] = l[1]
        /\ \A g \in Objects \ {f} :
              fileSystem'[g] = IF g \in ToSet(q) THEN NoSystem
                               ELSE fileSystem[g]
    BY <1>0, <2>1, <2>3, <2>4 DEF FilesType
  <2>7. /\ deferred' \in [DeferredLists -> Seq(Objects)]
        /\ deferred'[l] = <<>>
        /\ \A m \in DeferredLists : m # l => deferred'[m] = deferred[m]
    BY <1>0, <2>1 DEF FilesType
  <2>. QED  BY <1>0, <2>4, <2>5, <2>6, <2>7 DEF q
<1>. QED  BY <1>1, <1>2

\* An open takes the first object of the list, deletes the others and hands
\* f out or opens it: f is then in no list.
LEMMA ObjectOpened ==
  ASSUME FilesSound, NEW l \in DeferredLists, NEW f \in Objects,
         AllocateObject(l, f),
         l[2] = (IF f \in Files THEN "files" ELSE "directories"),
         handed' \subseteq Objects, handed' \intersect io'.driver = {},
         f \in handed' \union io'.driver,
         \A g \in Objects \ {f} : g \in handed' <=> g \in handed,
         \A g \in Objects \ {f} : g \in io'.driver <=> g \in io.driver
  PROVE  FilesSound'
<1>. DEFINE used == handed \union io.driver
            used1 == handed' \union io'.driver
<1>1. /\ fileSystem' \in [Objects -> FileSystems \union {NoSystem}]
      /\ deferred' \in [DeferredLists -> Seq(Objects)]
      /\ f \notin used
      /\ fileSystem'[f] = l[1] /\ l[1] \in FileSystems
      /\ deferred'[l] = <<>>
      /\ \A m \in DeferredLists : m # l => deferred'[m] = deferred[m]
      /\ \A m \in DeferredLists : m # l => f \notin ToSet(deferred[m])
  BY ObjectAllocated
<1>2. \A g \in Objects \ {f} :
         fileSystem'[g] = IF g \in ToSet(deferred[l]) THEN NoSystem
                          ELSE fileSystem[g]
  BY ObjectAllocated
<1>3. \A g \in Objects \ {f} : g \in used1 <=> g \in used
  OBVIOUS
<1>4. f \in used1
  OBVIOUS
<1>. HIDE DEF used, used1
<1>5. ToSet(deferred'[l]) = {} /\ NoDuplicates(deferred'[l])
  BY <1>1 DEF ToSet, NoDuplicates
<1>6. ASSUME NEW m \in DeferredLists, NEW g \in ToSet(deferred'[m])
      PROVE  m = Home(g)' /\ g \notin used1
  <2>1. m # l /\ g \in ToSet(deferred[m])
    BY <1>1, <1>5, <1>6
  <2>2. g # f
    BY <1>1, <2>1
  <2>3. m = Home(g) /\ g \notin used /\ g \in Objects
    BY <2>1, ListIsHome DEF FilesSound, used
  <2>4. g \notin ToSet(deferred[l])
    BY <2>1, <2>3 DEF FilesSound
  <2>5. fileSystem'[g] = fileSystem[g]
    BY <1>2, <2>2, <2>3, <2>4
  <2>. QED  BY <1>3, <2>2, <2>3, <2>5 DEF Home
<1>7. ASSUME NEW g \in Objects, fileSystem'[g] # NoSystem, g \notin used1
      PROVE  g \in ToSet(deferred'[Home(g)'])
  <2>1. g # f
    BY <1>4, <1>7
  <2>2. g \notin ToSet(deferred[l]) /\ fileSystem'[g] = fileSystem[g]
    BY <1>2, <1>7, <2>1
  <2>3. g \notin used /\ fileSystem[g] # NoSystem
    BY <1>3, <1>7, <2>1, <2>2
  <2>4. g \in ToSet(deferred[Home(g)])
    BY <2>3 DEF FilesSound, used
  <2>5. Home(g) \in DeferredLists /\ Home(g) # l
    BY <2>2, <2>3, <2>4, HomeIsList DEF FilesSound, FilesType
  <2>6. Home(g)' = Home(g)
    BY <2>2 DEF Home
  <2>. QED  BY <1>1, <2>4, <2>5, <2>6
<1>8. ASSUME NEW g \in Objects, g \in used1
      PROVE  fileSystem'[g] # NoSystem
  <2>1. CASE g = f
    BY <1>1, <2>1, SystemAssumption
  <2>2. CASE g # f
    <3>1. g \in used /\ fileSystem[g] # NoSystem
      BY <1>3, <1>8, <2>2 DEF FilesSound, used
    <3>2. g \notin ToSet(deferred[l])
      BY <3>1 DEF FilesSound, used
    <3>. QED  BY <1>2, <2>2, <3>1, <3>2
  <2>. QED  BY <2>1, <2>2
<1>9. \A m \in DeferredLists : NoDuplicates(deferred'[m])
  BY <1>1, <1>5 DEF FilesSound
<1>10. FilesType'
  BY <1>1 DEF FilesType
<1>. QED  BY <1>6, <1>7, <1>8, <1>9, <1>10 DEF FilesSound, used1

\* file::close and directory::close.
LEMMA ObjectClosed ==
  ASSUME FilesSound, NEW f \in Objects, f \in handed \union io.driver,
         UNCHANGED fileSystem,
         deferred' = [deferred EXCEPT ![Home(f)] = Append(@, f)],
         handed' = handed \ {f}, f \notin io'.driver,
         \A g \in Objects \ {f} : g \in io'.driver <=> g \in io.driver
  PROVE  FilesSound'
<1>. DEFINE used == handed \union io.driver
            used1 == handed' \union io'.driver
            h == Home(f)
<1>0. FilesType /\ fileSystem[f] # NoSystem /\ fileSystem[f] \in FileSystems
  BY DEF FilesSound, FilesType
<1>1. h \in DeferredLists
  BY <1>0, HomeIsList
<1>2. /\ f \notin used1 /\ f \in used
      /\ \A g \in Objects \ {f} : g \in used1 <=> g \in used
  OBVIOUS
<1>3. \A g : Home(g)' = Home(g)
  BY DEF Home
<1>4. \A m \in DeferredLists : f \notin ToSet(deferred[m])
  BY <1>2 DEF FilesSound, used
<1>5. deferred[h] \in Seq(Objects) /\ NoDuplicates(deferred[h])
  BY <1>0, <1>1 DEF FilesSound, FilesType
<1>6. /\ Append(deferred[h], f) \in Seq(Objects)
      /\ NoDuplicates(Append(deferred[h], f))
      /\ ToSet(Append(deferred[h], f)) = ToSet(deferred[h]) \union {f}
  BY <1>1, <1>4, <1>5, AppendElements
<1>7. /\ deferred' \in [DeferredLists -> Seq(Objects)]
      /\ deferred'[h] = Append(deferred[h], f)
      /\ \A m \in DeferredLists : m # h => deferred'[m] = deferred[m]
  BY <1>0, <1>1, <1>6 DEF FilesType
<1>8. h = Home(f)
  OBVIOUS
<1>9. handed' \subseteq Objects /\ handed' \intersect io'.driver = {}
  BY <1>0 DEF FilesType, FilesSound
<1>. HIDE DEF h, used, used1
<1>10. ASSUME NEW m \in DeferredLists, NEW g \in ToSet(deferred'[m])
       PROVE  m = Home(g) /\ g \notin used1
  <2>1. CASE m = h /\ g = f
    BY <1>2, <1>8, <2>1
  <2>2. CASE ~ (m = h /\ g = f)
    <3>1. g \in ToSet(deferred[m])
      BY <1>6, <1>7, <1>10, <2>2
    <3>2. m = Home(g) /\ g \notin used /\ g \in Objects /\ g # f
      BY <1>4, <3>1, ListIsHome DEF FilesSound, used
    <3>. QED  BY <1>2, <3>2
  <2>. QED  BY <2>1, <2>2
<1>11. ASSUME NEW g \in Objects, fileSystem[g] # NoSystem, g \notin used1
       PROVE  g \in ToSet(deferred'[Home(g)])
  <2>1. CASE g = f
    BY <1>1, <1>6, <1>7, <1>8, <2>1
  <2>2. CASE g # f
    <3>1. g \in ToSet(deferred[Home(g)])
      BY <1>2, <1>11, <2>2 DEF FilesSound, used
    <3>2. Home(g) \in DeferredLists
      BY <1>0, <1>11, HomeIsList DEF FilesType
    <3>. QED  BY <1>6, <1>7, <3>1, <3>2
  <2>. QED  BY <2>1, <2>2
<1>12. \A g \in Objects : g \in used1 => fileSystem[g] # NoSystem
  BY <1>2 DEF FilesSound, used
<1>13. \A m \in DeferredLists : NoDuplicates(deferred'[m])
  BY <1>6, <1>7 DEF FilesSound
<1>14. FilesType'
  BY <1>0, <1>7, <1>9 DEF FilesType
<1>. QED  BY <1>3, <1>9, <1>10, <1>11, <1>12, <1>13, <1>14
          DEF FilesSound, used1

\* Every step keeps each object in one place.
LEMMA FilesStep ==
  ASSUME Inv, Inv', FilesSound, [Next]_vars
  PROVE  FilesSound'
<1>0. /\ Sound(io) /\ io \in IoType /\ FilesType
      /\ Files \subseteq Objects /\ Directories \subseteq Objects
      /\ Files \intersect Directories = {}
      /\ Directories \intersect Ios = {} /\ Files \subseteq Ios
      /\ io.driver \subseteq Ios
  BY SystemAssumption
     DEF Inv, Sound, Paired, FilesSound, Objects, Ios, IoType
<1>1. ASSUME NEW d \in Devices, NEW works \in BOOLEAN, OpenDevice(d, works)
      PROVE  FilesSound'
  <2>1. io' = Open(io, d, works).io /\ UNCHANGED files
    BY <1>1 DEF OpenDevice
  <2>2. \A f \in Files : io'.fd[f] = io.fd[f]
    BY <1>0, <2>1, OpenEffect
  <2>. QED  BY <2>1, <2>2, DriverOfFiles, FilesUntouched
<1>2. ASSUME NEW d \in Devices, CloseDevice(d)
      PROVE  FilesSound'
  <2>1. io' = Close(io, d) /\ UNCHANGED files /\ opened[d] > 0
    BY <1>2 DEF CloseDevice
  <2>2. \A f \in Files : io'.fd[f] = io.fd[f]
    BY <1>0, <2>1, CloseEffect, UsedIsOpen
  <2>. QED  BY <2>1, <2>2, DriverOfFiles, FilesUntouched
<1>3. ASSUME NEW s \in FileSystems, NEW path \in MountPoints,
             NEW works \in BOOLEAN, Mount(s, path, works)
      PROVE  FilesSound'
  <2>1. io' = Open(io, BlockDevice[s], works).io /\ UNCHANGED files
    BY <1>3 DEF Mount
  <2>2. BlockDevice[s] \in Devices
    BY DeviceAssumption
  <2>3. \A f \in Files : io'.fd[f] = io.fd[f]
    BY <1>0, <2>1, <2>2, OpenEffect
  <2>. QED  BY <2>1, <2>3, DriverOfFiles, FilesUntouched
<1>4. ASSUME NEW s \in FileSystems, Umount(s)
      PROVE  FilesSound'
  <2>1. /\ io' = io \/ io' = Close(io, BlockDevice[s])
        /\ mountedPath[s] # NoPath /\ UNCHANGED files
    BY <1>4 DEF Umount
  <2>2. BlockDevice[s] \in Devices
    BY DeviceAssumption
  <2>3. \A f \in Files : io'.fd[f] = io.fd[f]
    BY <1>0, <2>1, <2>2, CloseEffect, UsedIsOpen
  <2>. QED  BY <2>1, <2>3, DriverOfFiles, FilesUntouched
<1>5. ASSUME NEW point \in MountPoints, NEW f \in Files, OpenFile(point, f)
      PROVE  FilesSound'
  <2>1. PICK s \in FileSystems : AllocateObject(<<s, "files">>, f)
    BY <1>5 DEF OpenFile
  <2>2. /\ <<s, "files">> \in DeferredLists /\ f \in Objects
        /\ <<s, "files">>[2] = IF f \in Files THEN "files" ELSE "directories"
    BY <1>0 DEF DeferredLists
  <2>3. f \notin handed \union io.driver
    BY <2>1, <2>2, ObjectAllocated
  <2>4. \/ ~ CanAllocate(io, f) /\ io' = io /\ handed' = handed \union {f}
        \/ /\ CanAllocate(io, f) /\ handed' = handed
           /\ io' = Allocate([io EXCEPT !.driver = @ \union {f}], f)
    BY <1>5 DEF OpenFile
  <2>5. CanAllocate(io, f) => io'.driver = io.driver \union {f}
    BY <1>0, <2>4, FileOpened
  <2>6. \/ io'.driver = io.driver /\ handed' = handed \union {f}
        \/ io'.driver = io.driver \union {f} /\ handed' = handed
    BY <2>4, <2>5
  <2>7. /\ handed' \subseteq Objects /\ handed' \intersect io'.driver = {}
        /\ f \in handed' \union io'.driver
        /\ \A g \in Objects \ {f} : g \in handed' <=> g \in handed
        /\ \A g \in Objects \ {f} : g \in io'.driver <=> g \in io.driver
    BY <1>0, <2>3, <2>6 DEF FilesSound, FilesType
  <2>. QED  BY <2>1, <2>2, <2>7, ObjectOpened
<1>6. ASSUME NEW f \in Files, CloseFile(f)
      PROVE  FilesSound'
  <2>1. /\ io.fd[f] # NoFd \/ f \in handed
        /\ io' = IF f \in io.driver
                 THEN [Deallocate(io, f) EXCEPT !.driver = @ \ {f}] ELSE io
        /\ deferred' =
             [deferred EXCEPT ![<<fileSystem[f], "files">>] = Append(@, f)]
        /\ handed' = handed \ {f}
        /\ UNCHANGED fileSystem
    BY <1>6 DEF CloseFile
  <2>2. io.fd[f] # NoFd <=> f \in io.driver
    BY <1>0 DEF Sound
  <2>3. f \in handed \union io.driver /\ f \in Objects
    BY <1>0, <2>1, <2>2
  <2>4. Home(f) = <<fileSystem[f], "files">>
    BY DEF Home
  <2>5. f \in io.driver => io'.driver = io.driver \ {f}
    BY <1>0, <2>1, FileClosed
  <2>6. /\ f \notin io'.driver
        /\ \A g \in Objects \ {f} : g \in io'.driver <=> g \in io.driver
    BY <2>1, <2>5
  <2>. QED  BY <2>1, <2>3, <2>4, <2>6, ObjectClosed
<1>7. ASSUME NEW point \in MountPoints, NEW d \in Directories,
             OpenDirectory(point, d)
      PROVE  FilesSound'
  <2>1. PICK s \in FileSystems : AllocateObject(<<s, "directories">>, d)
    BY <1>7 DEF OpenDirectory
  <2>2. /\ <<s, "directories">> \in DeferredLists /\ d \in Objects
        /\ <<s, "directories">>[2]
             = IF d \in Files THEN "files" ELSE "directories"
    BY <1>0 DEF DeferredLists
  <2>3. d \notin handed \union io.driver
    BY <2>1, <2>2, ObjectAllocated
  <2>4. io' = io /\ handed' = handed \union {d}
    BY <1>7 DEF OpenDirectory
  <2>5. /\ handed' \subseteq Objects /\ handed' \intersect io'.driver = {}
        /\ d \in handed' \union io'.driver
        /\ \A g \in Objects \ {d} : g \in handed' <=> g \in handed
        /\ \A g \in Objects \ {d} : g \in io'.driver <=> g \in io.driver
    BY <1>0, <2>3, <2>4 DEF FilesSound, FilesType
  <2>. QED  BY <2>1, <2>2, <2>5, ObjectOpened
<1>8. ASSUME NEW d \in Directories, CloseDirectory(d)
      PROVE  FilesSound'
  <2>1. /\ d \in handed /\ io' = io
        /\ deferred' = [deferred EXCEPT
                          ![<<fileSystem[d], "directories">>] = Append(@, d)]
        /\ handed' = handed \ {d}
        /\ UNCHANGED fileSystem
    BY <1>8 DEF CloseDirectory
  <2>2. Home(d) = <<fileSystem[d], "directories">>
    BY <1>0 DEF Home
  <2>3. /\ d \in Objects /\ d \in handed \union io.driver /\ d \notin io'.driver
        /\ \A g \in Objects \ {d} : g \in io'.driver <=> g \in io.driver
    BY <1>0, <2>1
  <2>. QED  BY <2>1, <2>2, <2>3, ObjectClosed
<1>9. CASE UNCHANGED vars
  <2>1. UNCHANGED files /\ \A f \in Files : io'.fd[f] = io.fd[f]
    BY <1>9 DEF vars
  <2>. QED  BY <2>1, DriverOfFiles, FilesUntouched
<1>. QED  BY <1>1, <1>2, <1>3, <1>4, <1>5, <1>6, <1>7, <1>8, <1>9 DEF Next

\* At the start no object is open, held or kept.
LEMMA FilesInit == Init => FilesSound
<1>. SUFFICES ASSUME Init
              PROVE  FilesSound
  OBVIOUS
<1>1. /\ fileSystem = [f \in Objects |-> NoSystem]
      /\ deferred = [l \in DeferredLists |-> <<>>]
      /\ handed = {} /\ io.driver = {}
  BY DEF Init
<1>2. ToSet(<<>>) = {} /\ NoDuplicates(<<>>)
  BY DEF ToSet, NoDuplicates
<1>. QED  BY <1>1, <1>2 DEF FilesSound, FilesType

\* So each object is in one place in every reachable state.
LEMMA SpecFiles == Spec => []FilesSound
BY SpecInv, FilesInit, FilesStep, PTL DEF Spec
-----------------------------------------------------------------------------
(* What the invariants say.                                                *)

\* What the run checks of descriptors, counts and drivers follows.
LEMMA InvAgrees ==
  ASSUME RootLast, Inv, FilesSound
  PROVE  OpensAgree
<1>1. DescriptorsAgree
  BY DEF Inv, Sound, Paired, DescriptorsAgree
<1>2. ASSUME NEW d \in Devices
      PROVE  /\ Above(io, d)
                  = {p \in Devices : Parent[p] = d /\ io.count[p] > 0}
             /\ MountedOn(mountedPath, d)
                  = {s \in Mounted : BlockDevice[s] = d}
  BY DEF Above, MountedOn, Mounted
<1>3. UsersCounted
  BY <1>2 DEF Inv, Sound, Counted, Users, UsersCounted
<1>4. TypeOK
  BY DEF Inv, Sound, Paired, MountsSound, FilesSound, FilesType, TypeOK
<1>. QED  BY <1>1, <1>3, <1>4 DEF OpensAgree

\* What FilesAccounted says of one object.
Waits(f) ==
  {w \in DeferredLists \X (1..Cardinality(Objects)) :
     w[2] \in DOMAIN deferred[w[1]] /\ deferred[w[1]][w[2]] = f}

Account(f) ==
  LET kind == IF f \in Files THEN "files" ELSE "directories"
  IN  IF fileSystem[f] = NoSystem
      THEN Waits(f) = {} /\ f \notin io.driver \union handed
      ELSE /\ \A w \in Waits(f) : w[1] = <<fileSystem[f], kind>>
           /\ Cardinality(Waits(f))
                + Cardinality({x \in {"open"} : f \in io.driver})
                + Cardinality({x \in {"handed"} : f \in handed}) = 1

\* What the run checks of the objects follows.
LEMMA InvAccounts ==
  ASSUME FilesSound
  PROVE  FilesAccounted
<1>. SUFFICES ASSUME NEW f \in Objects
              PROVE  Account(f)
  BY DEF FilesAccounted, Account, Waits
<1>. DEFINE kind == IF f \in Files THEN "files" ELSE "directories"
            places == DeferredLists \X (1..Cardinality(Objects))
            waits == Waits(f)
            h == Home(f)
            open == {x \in {"open"} : f \in io.driver}
            given == {x \in {"handed"} : f \in handed}
<1>0. h = <<fileSystem[f], kind>>
  BY DEF Home
<1>1. ASSUME NEW w \in waits
      PROVE  /\ w[1] \in DeferredLists /\ f \in ToSet(deferred[w[1]])
             /\ w[1] = h /\ fileSystem[f] # NoSystem
             /\ f \notin handed \union io.driver
  <2>1. w[1] \in DeferredLists /\ f \in ToSet(deferred[w[1]])
    BY DEF ToSet, Waits
  <2>2. w[1] = h /\ f \notin handed \union io.driver
    BY <2>1 DEF FilesSound
  <2>3. fileSystem[f] # NoSystem
    BY <2>1, ListIsHome
  <2>. QED  BY <2>1, <2>2, <2>3
<1>2. /\ Cardinality(open) = IF f \in io.driver THEN 1 ELSE 0
      /\ Cardinality(given) = IF f \in handed THEN 1 ELSE 0
  <2>1. open = IF f \in io.driver THEN {"open"} ELSE {}
    OBVIOUS
  <2>2. given = IF f \in handed THEN {"handed"} ELSE {}
    OBVIOUS
  <2>. HIDE DEF open, given
  <2>. QED  BY <2>1, <2>2, FS_Singleton, FS_EmptySet
<1>. HIDE DEF open, given
<1>3. CASE fileSystem[f] = NoSystem
  <2>1. waits = {}
    BY <1>1, <1>3
  <2>2. f \notin io.driver \union handed
    BY <1>3 DEF FilesSound
  <2>. QED  BY <1>3, <2>1, <2>2 DEF Account
<1>4. CASE fileSystem[f] # NoSystem /\ f \in handed \union io.driver
  <2>1. waits = {}
    BY <1>1, <1>4
  <2>2. ~ (f \in handed /\ f \in io.driver)
    BY DEF FilesSound
  <2>3. Cardinality(waits) = 0
    BY <2>1, FS_EmptySet
  <2>. HIDE DEF waits
  <2>. QED  BY <1>2, <1>4, <2>1, <2>2, <2>3
           DEF open, given, waits, Account
<1>5. CASE fileSystem[f] # NoSystem /\ f \notin handed \union io.driver
  <2>. DEFINE q == deferred[h]
  <2>1. f \in ToSet(q) /\ h \in DeferredLists
    BY <1>5, HomeIsList DEF FilesSound, FilesType
  <2>2. q \in Seq(Objects) /\ NoDuplicates(q)
    BY <2>1 DEF FilesSound, FilesType
  <2>3. PICK i \in DOMAIN q : q[i] = f
    BY <2>1 DEF ToSet
  <2>4. i \in 1..Cardinality(Objects)
    <3>1. /\ IsFiniteSet(Objects) /\ Cardinality(Objects) \in Nat
      BY SystemAssumption, FS_CardinalityType DEF Objects
    <3>2. Cardinality(ToSet(q)) = Len(q)
      BY <2>2, DistinctCount
    <3>3. ToSet(q) \subseteq Objects
      BY <2>2 DEF ToSet
    <3>4. Len(q) <= Cardinality(Objects)
      BY <3>1, <3>2, <3>3, FS_Subset
    <3>5. i \in 1..Len(q) /\ Len(q) \in Nat
      BY <2>2, <2>3
    <3>. QED  BY <3>1, <3>4, <3>5
  <2>5. waits = {<<h, i>>}
    <3>1. <<h, i>> \in waits
      BY <2>1, <2>3, <2>4 DEF Waits
    <3>2. ASSUME NEW w \in waits
          PROVE  w = <<h, i>>
      <4>1. w[1] = h /\ w \in places
        BY <1>1 DEF Waits
      <4>2. w[2] \in DOMAIN q /\ q[w[2]] = f
        BY <4>1 DEF Waits
      <4>3. w[2] = i
        BY <2>2, <2>3, <4>2 DEF NoDuplicates
      <4>. QED  BY <4>1, <4>3
    <3>. QED  BY <3>1, <3>2
  <2>6. Cardinality(waits) = 1
    BY <2>5, FS_Singleton
  <2>. HIDE DEF waits, h, kind
  <2>7. \A w \in waits : w[1] = <<fileSystem[f], kind>>
    BY <1>0, <2>5
  <2>8. Cardinality(waits) + Cardinality(open) + Cardinality(given) = 1
    BY <1>2, <1>5, <2>6
  <2>. QED  BY <1>5, <2>7, <2>8
           DEF open, given, waits, kind, Account
<1>. QED  BY <1>3, <1>4, <1>5

\* After any sequence of calls, those that failed included, the descriptors
\* agree with the objects and the count of every device is the number of its
\* users, provided the root is unmounted last.
THEOREM CountsAreUsers ==
  ASSUME RootLast
  PROVE  Spec => []OpensAgree
<1>1. Inv /\ FilesSound => OpensAgree
  BY InvAgrees
<1>. QED  BY <1>1, SpecInv, SpecFiles, PTL

\* A file or directory object is open, waits once in the list of its own file
\* system or is in the hands of a caller without a descriptor.
THEOREM ObjectsHaveOnePlace == Spec => []FilesAccounted
<1>1. FilesSound => FilesAccounted
  BY InvAccounts
<1>. QED  BY <1>1, SpecFiles, PTL

\* device::vopen gives back everything when it fails: the driver it opened,
\* the descriptor it took and the device below a partition.
THEOREM FailedOpenIsUndone ==
  Spec => [](\A d \in Devices, works \in BOOLEAN :
               LET result == Open(io, d, works)
               IN  ~ result.ok => result.io = io)
<1>1. ASSUME Inv, NEW d \in Devices, NEW works \in BOOLEAN,
             ~ Open(io, d, works).ok
      PROVE  Open(io, d, works).io = io
  BY <1>1, OpenEffect DEF Inv
<1>2. Inv => \A d \in Devices, works \in BOOLEAN :
               LET result == Open(io, d, works)
               IN  ~ result.ok => result.io = io
  BY <1>1
<1>. QED  BY <1>2, SpecInv, PTL
=============================================================================
