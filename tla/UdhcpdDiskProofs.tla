--------------------------- MODULE UdhcpdDiskProofs ---------------------------
(***************************************************************************)
(* The udhcp server and its lease files, for every table size and every    *)
(* point at which the daemon is killed: what a restart brings back was     *)
(* written, in the pool it is read into, once, and is not cut short.       *)
(***************************************************************************)
EXTENDS UdhcpdDisk, PoolProofs, SequenceTheorems

\* What write_leases puts in a file for a lease.
Record == [chaddr : Chaddr \cup {NoChaddr}, yiaddr : Nat, remaining : Nat]

\* No client and no address has two records in a file.
Distinct(file) ==
    \A i, j \in DOMAIN file : i # j =>
        /\ file[i].chaddr # NoChaddr => file[i].chaddr # file[j].chaddr
        /\ file[i].yiaddr # 0 => file[i].yiaddr # file[j].yiaddr

\* Every record of a file comes from a slot of table T, and what is left of the lease
\* now, by the file, does not end before it did in the table.
Covered(file, T, now) ==
    \A k \in DOMAIN file : \E j \in Slots :
        /\ T[j].chaddr = file[k].chaddr
        /\ T[j].yiaddr = file[k].yiaddr
        /\ file[k].remaining + now >= T[j].expires

FileOK(file, T, now) ==
    /\ file \in Seq(Record) /\ Distinct(file)
    /\ T \in Tables /\ Covered(file, T, now)

FilesOK ==
    /\ DOMAIN files = Files
    /\ DOMAIN saved = Files
    /\ saved = [f \in DOMAIN saved |-> saved[f]]
    /\ timeout_end \in Nat
    /\ \A f \in Files : FileOK(files[f], saved[f], uptime)

DiskInv == TypeOK /\ UniqueHolders /\ FilesOK

-----------------------------------------------------------------------------
(* What is written, and what is read. *)

\* The record that stands for a lease.
RecordOf(l, now) ==
    [chaddr |-> l.chaddr, yiaddr |-> l.yiaddr,
     remaining |-> IF lease_expired(l, now) THEN 0 ELSE l.expires - now]

\* write_leases puts out the slots in use, each once.
LEMMA DumpOf ==
    ASSUME NEW T \in Tables, NEW now \in Nat
    PROVE  /\ Dump(T, now) \in Seq(Record)
           /\ \E at \in [DOMAIN Dump(T, now) -> Slots] :
                /\ \A i, j \in DOMAIN Dump(T, now) : at[i] = at[j] => i = j
                /\ \A k \in DOMAIN Dump(T, now) :
                      T[at[k]].yiaddr # 0 /\ Dump(T, now)[k] = RecordOf(T[at[k]], now)
<1> DEFINE s == [k \in 1 .. MaxLeases |-> T[k - 1]]
           kept == {k \in 1 .. MaxLeases : T[k - 1].yiaddr # 0}
           used == Thin(s, kept)
           file == Dump(T, now)
<1>1. MaxLeases \in Nat /\ kept \in SUBSET (1 .. MaxLeases)
      /\ \A k \in kept : k - 1 \in Slots /\ s[k] = T[k - 1] /\ T[k - 1].yiaddr # 0
  BY LeaseTableAssumption DEF Slots
<1>2. \A k \in kept : s[k] \in Lease
  BY <1>1 DEF Tables
<1>3. file = [k \in 1 .. Len(used) |->
                 [chaddr |-> used[k].chaddr, yiaddr |-> used[k].yiaddr,
                  remaining |-> IF lease_expired(used[k], now) THEN 0
                                ELSE used[k].expires - now]]
  BY DEF Dump
<1> HIDE DEF s, kept
<1>4. used \in Seq(Lease) /\ Thinned(used, s, kept)
  BY <1>1, <1>2, ThinThins
<1> HIDE DEF used, file
<1>5. DOMAIN used = 1 .. Len(used) /\ Len(used) \in Nat /\ \A k \in 1 .. Len(used) : used[k] \in Lease
  BY <1>4
<1>6. DOMAIN file = 1 .. Len(used) /\ \A k \in 1 .. Len(used) : file[k] = RecordOf(used[k], now)
  BY <1>3 DEF RecordOf
<1>7. \A l \in Lease : RecordOf(l, now) \in Record
  BY DEF RecordOf, Record, Lease, lease_expired
<1>8. file \in Seq(Record)
  <2>1. file = [k \in 1 .. Len(used) |-> file[k]] BY <1>3
  <2>2. \A k \in 1 .. Len(used) : file[k] \in Record BY <1>5, <1>6, <1>7
  <2> QED BY <1>5, <2>1, <2>2
<1>9. PICK f \in [DOMAIN used -> kept] :
        /\ \A i, j \in DOMAIN used : f[i] = f[j] => i = j
        /\ \A i \in DOMAIN used : used[i] = s[f[i]]
  BY <1>4 DEF Thinned
<1> DEFINE at == [k \in DOMAIN file |-> f[k] - 1]
<1>10. at \in [DOMAIN file -> Slots] BY <1>1, <1>5, <1>6
<1>11. \A i \in DOMAIN file : f[i] \in kept /\ f[i] \in Int /\ at[i] = f[i] - 1
  <2>1. \A k \in kept : k \in Int BY <1>1
  <2>2. \A i \in DOMAIN file : f[i] \in kept BY <1>5, <1>6
  <2> QED BY <2>1, <2>2
<1> HIDE DEF at
<1>12. \A i, j \in DOMAIN file : at[i] = at[j] => i = j
  BY <1>5, <1>6, <1>9, <1>11
<1>13. ASSUME NEW k \in DOMAIN file
       PROVE  T[at[k]].yiaddr # 0 /\ file[k] = RecordOf(T[at[k]], now)
  <2>1. used[k] = s[f[k]] /\ file[k] = RecordOf(used[k], now)
    BY <1>5, <1>6, <1>9
  <2>2. s[f[k]] = T[at[k]] /\ T[at[k]].yiaddr # 0
    BY <1>1, <1>11
  <2> QED BY <2>1, <2>2
<1> QED BY <1>8, <1>10, <1>12, <1>13 DEF file

\* A file written from a table with unique holders is in order.
LEMMA DumpOK ==
    ASSUME NEW T \in Tables, Injective(T), NEW now \in Nat
    PROVE  FileOK(Dump(T, now), T, now)
<1> DEFINE file == Dump(T, now)
<1>1. file \in Seq(Record) BY DumpOf
<1>2. PICK at \in [DOMAIN file -> Slots] :
        /\ \A i, j \in DOMAIN file : at[i] = at[j] => i = j
        /\ \A k \in DOMAIN file : T[at[k]].yiaddr # 0 /\ file[k] = RecordOf(T[at[k]], now)
  BY DumpOf
<1> HIDE DEF file
<1>3. \A k \in DOMAIN file : /\ file[k].chaddr = T[at[k]].chaddr
                             /\ file[k].yiaddr = T[at[k]].yiaddr
  BY <1>2 DEF RecordOf
<1>4. Distinct(file)
  BY <1>2, <1>3 DEF Distinct, Injective
<1>5. ASSUME NEW k \in DOMAIN file PROVE file[k].remaining + now >= T[at[k]].expires
  <2>1. T[at[k]].expires \in Nat BY <1>2 DEF Tables, Lease
  <2>2. file[k].remaining = IF lease_expired(T[at[k]], now) THEN 0 ELSE T[at[k]].expires - now
    BY <1>2 DEF RecordOf
  <2> QED BY <2>1, <2>2 DEF lease_expired
<1>6. Covered(file, T, now) BY <1>2, <1>3, <1>5 DEF Covered
<1> QED BY <1>1, <1>4, <1>6 DEF FileOK, file

\* So is one that was cut short.
LEMMA CutOK ==
    ASSUME NEW file, NEW T, NEW now, FileOK(file, T, now), NEW k \in 0 .. Len(file)
    PROVE  FileOK(SubSeq(file, 1, k), T, now)
<1> DEFINE cut == SubSeq(file, 1, k)
<1>1. file \in Seq(Record) /\ Len(file) \in Nat /\ DOMAIN file = 1 .. Len(file)
  BY DEF FileOK
<1>2. cut \in Seq(Record) /\ DOMAIN cut = 1 .. k /\ \A i \in 1 .. k : cut[i] = file[i]
  BY <1>1
<1>3. DOMAIN cut \subseteq DOMAIN file BY <1>1, <1>2
<1> HIDE DEF cut
<1>4. Distinct(cut) BY <1>2, <1>3 DEF FileOK, Distinct
<1>5. Covered(cut, T, now) BY <1>2, <1>3 DEF FileOK, Covered
<1> QED BY <1>2, <1>4, <1>5 DEF FileOK, cut

\* Time passing keeps a file in order.
LEMMA FileLater ==
    ASSUME NEW file, NEW T, NEW now \in Nat, FileOK(file, T, now)
    PROVE  FileOK(file, T, now + 1)
<1>1. ASSUME NEW k \in DOMAIN file, NEW j \in Slots,
             file[k].remaining + now >= T[j].expires
      PROVE  file[k].remaining + (now + 1) >= T[j].expires
  <2>1. file[k].remaining \in Nat
    <3>1. file \in Seq(Record) BY DEF FileOK
    <3>2. file[k] \in Record BY <3>1
    <3> QED BY <3>2 DEF Record
  <2>2. T[j].expires \in Nat BY DEF FileOK, Tables, Lease
  <2> QED BY <1>1, <2>1, <2>2
<1>2. Covered(file, T, now + 1) BY <1>1 DEF FileOK, Covered
<1> QED BY <1>2 DEF FileOK

-----------------------------------------------------------------------------
\* Where the k-th read begins, as the number of a record, and whether a record begins
\* there.
Place(k) == (StructSize * (k - 1)) \div WrittenSize + 1
Aligned(k) == (StructSize * (k - 1)) % WrittenSize = 0

Junk == [chaddr |-> NoChaddr, yiaddr |-> 0, remaining |-> 0]

\* 152 bytes are read for the 88 that were written: 11 reads take 19 records, and of
\* those only the first is read from its beginning.
LEMMA OneInNineteen ==
    ASSUME NEW n \in Nat, NEW k \in 1 .. (WrittenSize * n) \div StructSize, Aligned(k)
    PROVE  /\ Place(k) \in 1 .. n
           /\ Place(k) % 19 = 1
           /\ 88 * (Place(k) - 1) = 152 * (k - 1)
<1> DEFINE q == (152 * (k - 1)) \div 88
           N == (88 * n) \div 152
<1>1. WrittenSize = 88 /\ StructSize = 152 BY DEF WrittenSize, StructSize
<1>2. k \in 1 .. N BY <1>1
<1>3. (152 * (k - 1)) % 88 = 0 BY <1>1 DEF Aligned
<1>4. N \in Nat /\ 152 * N <= 88 * n OBVIOUS
<1> HIDE DEF N
<1>5. k \in Int /\ 1 <= k /\ k <= N BY <1>2, <1>4
<1>6. q \in Nat /\ 88 * q = 152 * (k - 1) BY <1>3, <1>5
<1>7. Place(k) = q + 1 BY <1>1 DEF Place
<1> HIDE DEF q
<1>8. q < n BY <1>4, <1>5, <1>6
<1>9. q % 19 = 0 BY <1>5, <1>6
<1>10. (q + 1) % 19 = 1 BY <1>6, <1>9
<1> QED BY <1>6, <1>7, <1>8, <1>10

\* What is read is a record of the file or nothing of use.
LEMMA ReadsOK ==
    ASSUME NEW file \in Seq(Record)
    PROVE  /\ Reads(file) \in Seq(Record)
           /\ \A k \in DOMAIN Reads(file) :
                 \/ Aligned(k) /\ Place(k) \in DOMAIN file /\ Reads(file)[k] = file[Place(k)]
                 \/ ~Aligned(k) /\ Reads(file)[k] = Junk
           /\ DOMAIN Reads(file) = 1 .. (WrittenSize * Len(file)) \div StructSize
<1> DEFINE N == (WrittenSize * Len(file)) \div StructSize
           reads == Reads(file)
<1>1. Len(file) \in Nat /\ DOMAIN file = 1 .. Len(file) /\ \A i \in DOMAIN file : file[i] \in Record
  OBVIOUS
<1>2. N \in Nat BY <1>1 DEF WrittenSize, StructSize
<1>3. reads = [k \in 1 .. N |-> IF Aligned(k) THEN file[Place(k)] ELSE Junk]
  BY DEF Reads, Aligned, Place, Junk
<1>4. \A k \in 1 .. N : Aligned(k) => Place(k) \in DOMAIN file
  BY <1>1, OneInNineteen
<1> HIDE DEF N, reads
<1>5. Junk \in Record BY DEF Junk, Record
<1>6. \A k \in 1 .. N : reads[k] \in Record BY <1>1, <1>3, <1>4, <1>5
<1>7. reads \in Seq(Record)
  <2>1. reads = [k \in 1 .. N |-> reads[k]] BY <1>3
  <2> QED BY <1>2, <1>6, <2>1
<1>8. DOMAIN reads = 1 .. N BY <1>3
<1> QED BY <1>3, <1>4, <1>7, <1>8 DEF N, reads

\* Table T has in its first n slots records of the file or nothing of use: slot i the
\* record at[i + 1], if that is not 0.
Filled(T, file, cfg, now, n, at) ==
    /\ \A i, j \in 1 .. n : at[i] = at[j] /\ at[i] # 0 => i = j
    /\ \A i \in 1 .. n : at[i] # 0 =>
          file[at[i]].yiaddr \in cfg.start .. cfg.end /\ at[i] % 19 = 1
    /\ \A i \in Slots :
          LET r == IF at[i + 1] = 0 THEN Junk ELSE file[at[i + 1]]
          IN  T[i] = IF i < n
                     THEN [chaddr |-> r.chaddr, yiaddr |-> r.yiaddr,
                           expires |-> r.remaining + now]
                     ELSE Blank

\* read_leases takes no record twice and only records of the pool's range.
LEMMA LoadFrom ==
    ASSUME NEW file \in Seq(Record), NEW cfg \in Config, NEW now \in Nat
    PROVE  \E n \in Nat : \E at \in [1 .. n -> DOMAIN file \cup {0}] :
              Filled(Load(file, cfg, now), file, cfg, now, n, at)
<1> DEFINE reads == Reads(file)
           kept == {k \in DOMAIN reads : reads[k].yiaddr \in cfg.start .. cfg.end}
           found == Thin(reads, kept)
           n == Len(found)
<1>1. /\ reads \in Seq(Record)
      /\ \A k \in DOMAIN reads :
            \/ Aligned(k) /\ Place(k) \in DOMAIN file /\ reads[k] = file[Place(k)]
            \/ ~Aligned(k) /\ reads[k] = Junk
      /\ DOMAIN reads = 1 .. (WrittenSize * Len(file)) \div StructSize
  BY ReadsOK
<1>2. Load(file, cfg, now) =
        [i \in Slots |-> IF i < n
                         THEN [chaddr |-> found[i + 1].chaddr, yiaddr |-> found[i + 1].yiaddr,
                               expires |-> found[i + 1].remaining + now]
                         ELSE Blank]
  BY DEF Load
<1> HIDE DEF reads
<1>3. Len(reads) \in Nat /\ kept \in SUBSET (1 .. Len(reads))
      /\ \A k \in kept : reads[k] \in Record
  <2>1. reads \in Seq(Record) BY <1>1
  <2>2. Len(reads) \in Nat /\ DOMAIN reads = 1 .. Len(reads)
        /\ \A k \in DOMAIN reads : reads[k] \in Record
    BY <2>1
  <2> QED BY <2>2
<1>4. \A k \in kept : k \in DOMAIN reads /\ reads[k].yiaddr \in cfg.start .. cfg.end
  OBVIOUS
<1> HIDE DEF kept
<1>5. found \in Seq(Record) /\ Thinned(found, reads, kept)
  BY <1>3, ThinThins
<1> HIDE DEF found
<1>6. n \in Nat /\ DOMAIN found = 1 .. n BY <1>5
<1>7. PICK f \in [DOMAIN found -> kept] :
        /\ \A i, j \in DOMAIN found : f[i] = f[j] => i = j
        /\ \A i \in DOMAIN found : found[i] = reads[f[i]]
  BY <1>5 DEF Thinned
<1> HIDE DEF n
<1> DEFINE at == [i \in 1 .. n |-> IF Aligned(f[i]) THEN Place(f[i]) ELSE 0]
<1>8. ASSUME NEW i \in 1 .. n
      PROVE  /\ f[i] \in DOMAIN reads
             /\ found[i] = reads[f[i]]
             /\ reads[f[i]].yiaddr \in cfg.start .. cfg.end
             /\ Aligned(f[i]) => Place(f[i]) \in DOMAIN file /\ reads[f[i]] = file[Place(f[i])]
             /\ ~Aligned(f[i]) => reads[f[i]] = Junk
  <2>1. f[i] \in kept BY <1>6, <1>7
  <2>2. f[i] \in DOMAIN reads /\ reads[f[i]].yiaddr \in cfg.start .. cfg.end BY <1>4, <2>1
  <2>3. found[i] = reads[f[i]] BY <1>6, <1>7
  <2> QED BY <1>1, <2>2, <2>3
<1>9. Len(file) \in Nat /\ DOMAIN file = 1 .. Len(file) OBVIOUS
<1>10. ASSUME NEW i \in 1 .. n
       PROVE  /\ at[i] \in DOMAIN file \cup {0}
              /\ at[i] = 0 <=> ~Aligned(f[i])
              /\ at[i] # 0 => at[i] = Place(f[i])
              /\ found[i] = IF at[i] = 0 THEN Junk ELSE file[at[i]]
  BY <1>8, <1>9
<1>11. ASSUME NEW i \in 1 .. n, at[i] # 0
       PROVE  at[i] % 19 = 1 /\ file[at[i]].yiaddr \in cfg.start .. cfg.end
  BY <1>1, <1>8, <1>9, <1>10, <1>11, OneInNineteen
<1>12. ASSUME NEW i \in 1 .. n, NEW j \in 1 .. n, at[i] = at[j], at[i] # 0
       PROVE  i = j
  <2>1. /\ Aligned(f[i]) /\ f[i] \in 1 .. (WrittenSize * Len(file)) \div StructSize
        /\ Aligned(f[j]) /\ f[j] \in 1 .. (WrittenSize * Len(file)) \div StructSize
        /\ Place(f[i]) = Place(f[j])
    BY <1>1, <1>8, <1>10, <1>12
  <2>2. 152 * (f[i] - 1) = 152 * (f[j] - 1)
    BY <1>9, <2>1, OneInNineteen
  <2>3. f[i] = f[j]
    <3>1. f[i] \in Int /\ f[j] \in Int BY <2>1
    <3> QED BY <2>2, <3>1
  <2> QED BY <1>6, <1>7, <2>3
<1>13. at \in [1 .. n -> DOMAIN file \cup {0}] BY <1>10
<1> HIDE DEF at
<1>14. ASSUME NEW i \in Slots
       PROVE  LET r == IF at[i + 1] = 0 THEN Junk ELSE file[at[i + 1]]
              IN  Load(file, cfg, now)[i] =
                     IF i < n THEN [chaddr |-> r.chaddr, yiaddr |-> r.yiaddr,
                                    expires |-> r.remaining + now]
                     ELSE Blank
  <2>1. CASE i < n
    <3>1. i + 1 \in 1 .. n BY <1>6, <2>1, LeaseTableAssumption DEF Slots
    <3>2. found[i + 1] = IF at[i + 1] = 0 THEN Junk ELSE file[at[i + 1]] BY <1>10, <3>1
    <3> QED BY <1>2, <2>1, <3>2
  <2>2. CASE ~(i < n) BY <1>2, <2>2
  <2> QED BY <2>1, <2>2
<1>15. Filled(Load(file, cfg, now), file, cfg, now, n, at)
  BY <1>11, <1>12, <1>14 DEF Filled
<1> QED BY <1>6, <1>13, <1>15

\* The lease of slot i of a table that was read is record k of the file.
Recovered(l, r, now) ==
    l.chaddr = r.chaddr /\ l.yiaddr = r.yiaddr /\ l.expires = r.remaining + now

\* A lease that was read is one of the file, in the range of the pool, and one of
\* those that were read from their beginning.
LEMMA LoadRecovers ==
    ASSUME NEW file \in Seq(Record), NEW cfg \in Config, NEW now \in Nat, NEW i \in Slots,
           Load(file, cfg, now)[i].yiaddr # 0
    PROVE  \E k \in DOMAIN file : /\ Recovered(Load(file, cfg, now)[i], file[k], now)
                                  /\ file[k].yiaddr \in cfg.start .. cfg.end
                                  /\ k % 19 = 1
<1> DEFINE T == Load(file, cfg, now)
<1>1. PICK n \in Nat : \E at \in [1 .. n -> DOMAIN file \cup {0}] :
              Filled(T, file, cfg, now, n, at)
  BY LoadFrom
<1>2. PICK at \in [1 .. n -> DOMAIN file \cup {0}] : Filled(T, file, cfg, now, n, at)
  BY <1>1
<1> HIDE DEF T
<1>3. T[i].yiaddr # 0 BY DEF T
<1>4. i < n
  <2> SUFFICES ASSUME ~(i < n) PROVE FALSE
    OBVIOUS
  <2>1. T[i] = Blank BY <1>2 DEF Filled
  <2> QED BY <1>3, <2>1 DEF Blank
<1>5. i + 1 \in 1 .. n BY <1>4, LeaseTableAssumption DEF Slots
<1> DEFINE k == at[i + 1]
           r == IF k = 0 THEN Junk ELSE file[k]
<1>6. T[i] = [chaddr |-> r.chaddr, yiaddr |-> r.yiaddr, expires |-> r.remaining + now]
  BY <1>2, <1>4 DEF Filled
<1>7. T[i].chaddr = r.chaddr /\ T[i].yiaddr = r.yiaddr /\ T[i].expires = r.remaining + now
  <2> HIDE DEF r
  <2> QED BY <1>6
<1>8. k # 0 BY <1>3, <1>7 DEF Junk
<1>9. k \in DOMAIN file BY <1>5, <1>8
<1>10. file[k].yiaddr \in cfg.start .. cfg.end /\ k % 19 = 1 BY <1>2, <1>5, <1>8 DEF Filled
<1> QED BY <1>7, <1>8, <1>9, <1>10 DEF T, Recovered

\* The table that is read is well typed.
LEMMA LoadType ==
    ASSUME NEW file \in Seq(Record), NEW cfg \in Config, NEW now \in Nat
    PROVE  Load(file, cfg, now) \in Tables
<1> DEFINE T == Load(file, cfg, now)
<1>1. PICK n \in Nat : \E at \in [1 .. n -> DOMAIN file \cup {0}] :
              Filled(T, file, cfg, now, n, at)
  BY LoadFrom
<1>2. PICK at \in [1 .. n -> DOMAIN file \cup {0}] : Filled(T, file, cfg, now, n, at)
  BY <1>1
<1>3. T = [i \in Slots |-> T[i]] BY DEF Load
<1> HIDE DEF T
<1>4. Blank \in Lease BY DEF Blank, Lease
<1>5. ASSUME NEW i \in Slots PROVE T[i] \in Lease
  <2>1. CASE i < n
    <3> DEFINE r == IF at[i + 1] = 0 THEN Junk ELSE file[at[i + 1]]
    <3>1. i + 1 \in 1 .. n BY <2>1, LeaseTableAssumption DEF Slots
    <3>2. T[i] = [chaddr |-> r.chaddr, yiaddr |-> r.yiaddr, expires |-> r.remaining + now]
      BY <1>2, <2>1 DEF Filled
    <3>3. \A k \in DOMAIN file : file[k] \in Record OBVIOUS
    <3>4. r \in Record
      <4>1. Junk \in Record BY DEF Junk, Record
      <4>2. at[i + 1] \in DOMAIN file \cup {0} BY <3>1
      <4> QED BY <3>3, <4>1, <4>2
    <3> HIDE DEF r
    <3>5. r.chaddr \in Chaddr \cup {NoChaddr} /\ r.yiaddr \in Nat /\ r.remaining \in Nat
      BY <3>4 DEF Record
    <3> QED BY <3>2, <3>5 DEF Lease
  <2>2. CASE ~(i < n)
    <3>1. T[i] = Blank BY <1>2, <2>2 DEF Filled
    <3> QED BY <1>4, <3>1
  <2> QED BY <2>1, <2>2
<1> QED BY <1>3, <1>5 DEF Tables, T

\* It has unique holders if the file has.
LEMMA LoadInjective ==
    ASSUME NEW file \in Seq(Record), Distinct(file), NEW cfg \in Config, NEW now \in Nat
    PROVE  Injective(Load(file, cfg, now))
<1> DEFINE T == Load(file, cfg, now)
<1>1. PICK n \in Nat : \E at \in [1 .. n -> DOMAIN file \cup {0}] :
              Filled(T, file, cfg, now, n, at)
  BY LoadFrom
<1>2. PICK at \in [1 .. n -> DOMAIN file \cup {0}] : Filled(T, file, cfg, now, n, at)
  BY <1>1
<1> HIDE DEF T
<1>3. ASSUME NEW i \in Slots
      PROVE  \/ T[i].chaddr = NoChaddr /\ T[i].yiaddr = 0
             \/ /\ i + 1 \in 1 .. n /\ at[i + 1] \in DOMAIN file /\ at[i + 1] # 0
                /\ T[i].chaddr = file[at[i + 1]].chaddr
                /\ T[i].yiaddr = file[at[i + 1]].yiaddr
  <2>1. CASE i < n
    <3> DEFINE r == IF at[i + 1] = 0 THEN Junk ELSE file[at[i + 1]]
    <3>1. i + 1 \in 1 .. n BY <2>1, LeaseTableAssumption DEF Slots
    <3>2. T[i] = [chaddr |-> r.chaddr, yiaddr |-> r.yiaddr, expires |-> r.remaining + now]
      BY <1>2, <2>1 DEF Filled
    <3>3. T[i].chaddr = r.chaddr /\ T[i].yiaddr = r.yiaddr
      <4> HIDE DEF r
      <4> QED BY <3>2
    <3> QED BY <3>1, <3>3 DEF Junk
  <2>2. CASE ~(i < n)
    <3>1. T[i] = Blank BY <1>2, <2>2 DEF Filled
    <3> QED BY <3>1 DEF Blank
  <2> QED BY <2>1, <2>2
<1>4. ASSUME NEW i \in Slots, NEW j \in Slots, i # j
      PROVE  /\ T[i].chaddr # NoChaddr => T[i].chaddr # T[j].chaddr
             /\ T[i].yiaddr # 0 => T[i].yiaddr # T[j].yiaddr
  <2>1. CASE T[i].chaddr = NoChaddr /\ T[i].yiaddr = 0 BY <2>1
  <2>2. CASE T[j].chaddr = NoChaddr /\ T[j].yiaddr = 0 BY <2>2
  <2>3. CASE ~(T[i].chaddr = NoChaddr /\ T[i].yiaddr = 0)
             /\ ~(T[j].chaddr = NoChaddr /\ T[j].yiaddr = 0)
    <3>1. i + 1 # j + 1 BY <1>4, LeaseTableAssumption DEF Slots
    <3>2. at[i + 1] # at[j + 1] BY <1>2, <1>3, <2>3, <3>1 DEF Filled
    <3> QED BY <1>3, <2>3, <3>2 DEF Distinct
  <2> QED BY <2>1, <2>2, <2>3
<1> QED BY <1>4 DEF Injective, T

-----------------------------------------------------------------------------
(* The steps. *)

\* A new daemon that finds its files in order starts with types and holders in order,
\* whatever the old one was doing.
LEMMA BootOK ==
    ASSUME TypeOK, NEW fs, \A f \in Files : fs[f] \in Seq(Record) /\ Distinct(fs[f]), Boot(fs)
    PROVE  TypeOK' /\ UniqueHolders' /\ timeout_end' \in Nat /\ uptime' = uptime /\ files' = fs
<1>1. Config1 \in Config /\ Config2 \in Config /\ uptime \in Nat /\ AutoTime \in Nat
      /\ Config1.lease_file \in Files /\ Config2.lease_file \in Files
  BY UdhcpdAssumption, AutoTimeAssumption DEF TypeOK, Config, Files
<1>2. leases' = Load(fs[Config1.lease_file], Config1, uptime)
      /\ leases2' = Load(fs[Config2.lease_file], Config2, uptime) /\ tmpls' = EmptyTable
  BY DEF Boot
<1>3. leases' \in Tables /\ leases2' \in Tables /\ tmpls' \in Tables
  BY <1>1, <1>2, LoadType, EmptyTableOK
<1>4. Injective(leases') /\ Injective(leases2') /\ Injective(tmpls')
  BY <1>1, <1>2, LoadInjective, EmptyTableOK
<1>5. TypeOK' BY <1>1, <1>3 DEF Boot, TypeOK
<1>6. UniqueHolders' BY <1>4 DEF UniqueHolders
<1>7. timeout_end' \in Nat BY <1>1 DEF Boot
<1> QED BY <1>5, <1>6, <1>7 DEF Boot

\* What a step may leave in file f: what it had, or all or the beginning of the records
\* of a table.  Only leases is written while a packet is handled.
Writable(T) == T = leases \/ (pc = "select" /\ T = leases2)
Left(fs, sv, f) ==
    \/ fs[f] = files[f] /\ sv[f] = saved[f]
    \/ \E T : \E k \in 0 .. Len(Dump(T, uptime)) :
          /\ Writable(T)
          /\ fs[f] = SubSeq(Dump(T, uptime), 1, k) /\ sv[f] = T

\* Such a file is in order.
LEMMA LeftOK ==
    ASSUME DiskInv, NEW fs, NEW sv, NEW f \in Files, Left(fs, sv, f)
    PROVE  FileOK(fs[f], sv[f], uptime)
<1>1. uptime \in Nat /\ leases \in Tables /\ leases2 \in Tables
      /\ Injective(leases) /\ Injective(leases2)
  BY UdhcpdAssumption DEF DiskInv, TypeOK, UniqueHolders
<1>2. CASE fs[f] = files[f] /\ sv[f] = saved[f]
  <2>1. FileOK(files[f], saved[f], uptime) BY DEF DiskInv, FilesOK
  <2> QED BY <1>2, <2>1
<1>3. ASSUME NEW T, NEW k \in 0 .. Len(Dump(T, uptime)), Writable(T),
             fs[f] = SubSeq(Dump(T, uptime), 1, k), sv[f] = T
      PROVE  FileOK(fs[f], sv[f], uptime)
  <2>1. FileOK(Dump(T, uptime), T, uptime) BY <1>1, <1>3, DumpOK DEF Writable
  <2> QED BY <1>3, <2>1, CutOK
<1> QED BY <1>2, <1>3 DEF Left

\* All the records are a beginning of them.
LEMMA WholeFile ==
    ASSUME NEW T \in Tables, NEW now \in Nat
    PROVE  /\ Len(Dump(T, now)) \in 0 .. Len(Dump(T, now))
           /\ SubSeq(Dump(T, now), 1, Len(Dump(T, now))) = Dump(T, now)
<1> DEFINE file == Dump(T, now)
<1>1. file \in Seq(Record) BY DumpOf
<1> HIDE DEF file
<1>2. Len(file) \in Nat /\ SubSeq(file, 1, Len(file)) = file BY <1>1
<1> QED BY <1>2 DEF file

\* Every file is left as it was, or with the records of a table, or with the first of
\* them: in particular when both tables are written to the same file.
LEMMA FilesLeft ==
    ASSUME DiskInv, AutoSave \/ SigUsr1 \/ Restart \/ KilledInSave \/ KilledInSave2
    PROVE  /\ DOMAIN files' = Files /\ DOMAIN saved' = Files
           /\ saved' = [f \in DOMAIN saved' |-> saved'[f]]
           /\ \A f \in Files : Left(files', saved', f)
<1>1. /\ DOMAIN files = Files /\ DOMAIN saved = Files
      /\ saved = [f \in DOMAIN saved |-> saved[f]]
  BY DEF DiskInv, FilesOK
<1>2. uptime \in Nat /\ leases \in Tables /\ leases2 \in Tables
  BY UdhcpdAssumption DEF DiskInv, TypeOK
<1> DEFINE d == Dump(leases, uptime)
           d2 == Dump(leases2, uptime)
           f1 == server_config.lease_file
           f2 == server2_config.lease_file
<1>3. /\ Len(d) \in 0 .. Len(d) /\ SubSeq(d, 1, Len(d)) = d
      /\ Len(d2) \in 0 .. Len(d2) /\ SubSeq(d2, 1, Len(d2)) = d2
  BY <1>2, WholeFile
<1>4. CASE AutoSave
  <2>1. files' = [files EXCEPT ![f1] = d, ![f2] = d2]
        /\ saved' = [saved EXCEPT ![f1] = leases, ![f2] = leases2]
        /\ pc = "select"
    BY <1>4 DEF AutoSave
  <2> HIDE DEF d, d2, f1, f2
  <2>2. ASSUME NEW f \in Files
        PROVE  \/ files'[f] = files[f] /\ saved'[f] = saved[f]
               \/ files'[f] = d /\ saved'[f] = leases
               \/ files'[f] = d2 /\ saved'[f] = leases2
    BY <1>1, <2>1
  <2>3. \A f \in Files : Left(files', saved', f)
    BY <1>3, <2>1, <2>2 DEF Left, Writable, d, d2
  <2> QED BY <1>1, <2>1, <2>3
<1>5. CASE SigUsr1
  <2>1. files' = [files EXCEPT ![f1] = d] /\ saved' = [saved EXCEPT ![f1] = leases]
    BY <1>5 DEF SigUsr1
  <2> HIDE DEF d, d2, f1, f2
  <2>2. ASSUME NEW f \in Files
        PROVE  \/ files'[f] = files[f] /\ saved'[f] = saved[f]
               \/ files'[f] = d /\ saved'[f] = leases
    BY <1>1, <2>1
  <2>3. \A f \in Files : Left(files', saved', f)
    BY <1>3, <2>2 DEF Left, Writable, d, d2
  <2> QED BY <1>1, <2>1, <2>3
<1>6. CASE Restart
  BY <1>1, <1>6 DEF Restart, Boot, Left
<1>7. CASE KilledInSave
  <2>1. PICK k \in 0 .. Len(d) : files' = [files EXCEPT ![f1] = SubSeq(d, 1, k)]
    BY <1>7 DEF KilledInSave, Torn, Boot
  <2>2. saved' = [saved EXCEPT ![f1] = leases] BY <1>7 DEF KilledInSave
  <2> HIDE DEF d, d2, f1, f2
  <2>3. ASSUME NEW f \in Files
        PROVE  \/ files'[f] = files[f] /\ saved'[f] = saved[f]
               \/ files'[f] = SubSeq(d, 1, k) /\ saved'[f] = leases
    BY <1>1, <2>1, <2>2
  <2>4. \A f \in Files : Left(files', saved', f)
    BY <2>3 DEF Left, Writable, d, d2
  <2> QED BY <1>1, <2>1, <2>2, <2>4
<1>8. CASE KilledInSave2
  <2>1. PICK k \in 0 .. Len(d2) :
          files' = [[files EXCEPT ![f1] = d] EXCEPT ![f2] = SubSeq(d2, 1, k)]
    BY <1>8 DEF KilledInSave2, Torn, Boot
  <2>2. saved' = [saved EXCEPT ![f1] = leases, ![f2] = leases2] /\ pc = "select"
    BY <1>8 DEF KilledInSave2
  <2> HIDE DEF d, d2, f1, f2
  <2>3. ASSUME NEW f \in Files
        PROVE  \/ files'[f] = files[f] /\ saved'[f] = saved[f]
               \/ files'[f] = d /\ saved'[f] = leases
               \/ files'[f] = SubSeq(d2, 1, k) /\ saved'[f] = leases2
    BY <1>1, <2>1, <2>2
  <2>4. \A f \in Files : Left(files', saved', f)
    BY <1>3, <2>2, <2>3 DEF Left, Writable, d, d2
  <2> QED BY <1>1, <2>1, <2>2, <2>4
<1> QED BY <1>4, <1>5, <1>6, <1>7, <1>8

\* A step of the daemon leaves the clock alone or advances it by one.
LEMMA ClockStep ==
    ASSUME [Next]_vars
    PROVE  uptime' = uptime \/ uptime' = uptime + 1
BY DEF Next, vars, Handle, Done, Tick, Restore, ReceivePool1, ReceivePool2, DiscoverOffer,
       DiscoverAbandoned, RequestAck, RequestAckNotSent, RequestRefuse, Decline, Release, Inform

\* A write of the files, or a restart from them, keeps all of them in order, before the
\* new daemon reads them and after.
LEMMA FilesStep ==
    ASSUME DiskInv, AutoSave \/ SigUsr1 \/ Restart \/ KilledInSave \/ KilledInSave2
    PROVE  DiskInv' /\ \A f \in Files : FileOK(files'[f], saved'[f], uptime)
<1>1. /\ DOMAIN files' = Files /\ DOMAIN saved' = Files
      /\ saved' = [f \in DOMAIN saved' |-> saved'[f]]
      /\ \A f \in Files : FileOK(files'[f], saved'[f], uptime)
  BY FilesLeft, LeftOK
<1>2. TypeOK /\ UniqueHolders /\ timeout_end \in Nat BY DEF DiskInv, FilesOK
<1>3. CASE AutoSave \/ SigUsr1
  <2>1. UNCHANGED vars BY <1>3 DEF AutoSave, SigUsr1
  <2>2. TypeOK' /\ UniqueHolders' BY <1>2, <2>1, TypeStep, HoldersStep
  <2>3. uptime' = uptime BY <2>1 DEF vars
  <2>4. timeout_end' \in Nat
    <3>1. uptime \in Nat /\ AutoTime \in Nat
      BY <1>2, UdhcpdAssumption, AutoTimeAssumption DEF TypeOK
    <3> QED BY <1>2, <1>3, <3>1 DEF AutoSave, SigUsr1
  <2>5. FilesOK' BY <1>1, <2>3, <2>4 DEF FilesOK
  <2> QED BY <1>1, <2>2, <2>5 DEF DiskInv
<1>4. CASE Restart \/ KilledInSave \/ KilledInSave2
  <2>1. PICK fs : Boot(fs) BY <1>4 DEF Restart, KilledInSave, KilledInSave2
  <2>2. fs = files' BY <2>1 DEF Boot
  <2>3. \A f \in Files : fs[f] \in Seq(Record) /\ Distinct(fs[f])
    BY <1>1, <2>2 DEF FileOK
  <2>4. TypeOK' /\ UniqueHolders' /\ timeout_end' \in Nat /\ uptime' = uptime
    BY <1>2, <2>1, <2>3, BootOK
  <2>5. FilesOK' BY <1>1, <2>4 DEF FilesOK
  <2> QED BY <1>1, <2>4, <2>5 DEF DiskInv
<1> QED BY <1>3, <1>4

\* Serving packets does not touch the files, and time passing keeps them in order.
LEMMA ServeStep ==
    ASSUME DiskInv, [Next]_vars, UNCHANGED diskVars
    PROVE  DiskInv'
<1>1. TypeOK /\ UniqueHolders /\ FilesOK BY DEF DiskInv
<1>2. TypeOK' /\ UniqueHolders' BY <1>1, TypeStep, HoldersStep
<1>3. files' = files /\ saved' = saved /\ timeout_end' = timeout_end BY DEF diskVars
<1>4. uptime \in Nat BY <1>1, UdhcpdAssumption DEF TypeOK
<1>5. ASSUME NEW f \in Files PROVE FileOK(files[f], saved[f], uptime')
  <2>1. FileOK(files[f], saved[f], uptime) BY <1>1 DEF FilesOK
  <2>2. FileOK(files[f], saved[f], uptime + 1) BY <1>4, <2>1, FileLater
  <2> QED BY <2>1, <2>2, ClockStep
<1>6. FilesOK' BY <1>1, <1>3, <1>5 DEF FilesOK
<1> QED BY <1>2, <1>6 DEF DiskInv

\* What is said of the files holds of empty ones.
LEMMA FilesInit == DiskInit => DiskInv
<1> SUFFICES ASSUME DiskInit PROVE DiskInv
  OBVIOUS
<1>1. TypeOK /\ UniqueHolders BY TypeInit, HoldersInit DEF DiskInit
<1>2. timeout_end \in Nat BY AutoTimeAssumption DEF DiskInit
<1>3. ASSUME NEW f \in Files PROVE FileOK(files[f], saved[f], uptime)
  <2>1. files[f] = << >> /\ saved[f] = EmptyTable BY DEF DiskInit
  <2>2. FileOK(<< >>, EmptyTable, uptime)
    BY EmptyTableOK DEF FileOK, Distinct, Covered
  <2> QED BY <2>1, <2>2
<1>4. /\ DOMAIN files = Files /\ DOMAIN saved = Files
      /\ saved = [f \in DOMAIN saved |-> saved[f]]
  BY DEF DiskInit
<1> QED BY <1>1, <1>2, <1>3, <1>4 DEF DiskInv, FilesOK

(* The files are in order whenever the daemon is killed: the inductive invariant of the
   server with its files, for any configuration and any behaviour of the clients. *)
THEOREM DiskInvariant == DiskSpec => []DiskInv
<1>1. DiskInv /\ [DiskNext]_allVars => DiskInv'
  <2> SUFFICES ASSUME DiskInv, [DiskNext]_allVars PROVE DiskInv'
    OBVIOUS
  <2>1. CASE Serve BY <2>1, ServeStep DEF Serve
  <2>2. CASE UNCHANGED allVars
    <3>1. UNCHANGED vars /\ UNCHANGED diskVars BY <2>2 DEF allVars
    <3> QED BY <3>1, ServeStep
  <2>3. CASE AutoSave \/ SigUsr1 \/ Restart \/ KilledInSave \/ KilledInSave2
    BY <2>3, FilesStep
  <2> QED BY <2>1, <2>2, <2>3 DEF DiskNext
<1> QED BY <1>1, FilesInit, PTL DEF DiskSpec

-----------------------------------------------------------------------------
(* The variables keep their types across saves, kills and restarts: the time that
   write_leases stores is never negative, and read_leases builds a proper table from
   whatever a killed daemon left. *)
THEOREM DiskTypes == DiskSpec => []DiskTypeOK
<1>1. DiskInv => DiskTypeOK
  <2> SUFFICES ASSUME DiskInv PROVE DiskTypeOK
    OBVIOUS
  <2>1. \A f \in Files : files[f] \in Seq(Record) /\ saved[f] \in Tables
    BY DEF DiskInv, FilesOK, FileOK
  <2>2. saved \in [Files -> Tables]
    <3>1. saved = [f \in Files |-> saved[f]] BY DEF DiskInv, FilesOK
    <3> QED BY <2>1, <3>1
  <2> QED BY <2>1, <2>2 DEF DiskInv, FilesOK, DiskTypeOK, Record
<1> QED BY <1>1, DiskInvariant, PTL

(* No restart, from complete or torn files, from a file of one table or of the other,
   gives a client two records or an address two holders in a table. *)
THEOREM DiskHoldersUnique == DiskSpec => []UniqueHolders
<1>1. DiskInv => UniqueHolders BY DEF DiskInv
<1> QED BY <1>1, DiskInvariant, PTL

\* A new daemon started from files in order: each of its leases was in the table that its
\* file was written from and ends no earlier.
LEMMA BootRecovers ==
    ASSUME NEW file, NEW T, NEW cfg \in Config, NEW now \in Nat, FileOK(file, T, now),
           NEW i \in Slots, Load(file, cfg, now)[i].yiaddr # 0
    PROVE  \E j \in Slots :
              /\ T[j].chaddr = Load(file, cfg, now)[i].chaddr
              /\ T[j].yiaddr = Load(file, cfg, now)[i].yiaddr
              /\ Load(file, cfg, now)[i].expires >= now
              /\ Load(file, cfg, now)[i].expires >= T[j].expires
<1> DEFINE l == Load(file, cfg, now)[i]
<1>1. file \in Seq(Record) BY DEF FileOK
<1>2. PICK k \in DOMAIN file : Recovered(l, file[k], now)
  BY <1>1, LoadRecovers
<1> HIDE DEF l
<1>3. file[k] \in Record BY <1>1
<1>4. file[k].remaining \in Nat BY <1>3 DEF Record
<1>5. PICK j \in Slots : /\ T[j].chaddr = file[k].chaddr
                         /\ T[j].yiaddr = file[k].yiaddr
                         /\ file[k].remaining + now >= T[j].expires
  BY DEF FileOK, Covered
<1>6. l.expires >= now BY <1>2, <1>4 DEF Recovered
<1> QED BY <1>2, <1>5, <1>6 DEF Recovered, l

(* A lease that survives a restart was in the table that its file was written from, for
   the same client and address, and the conversion to the time remaining and back does
   not cut it short, wherever the daemon was killed. *)
THEOREM LeasesRecovered == DiskSpec => RecoveredKeepsTime
<1> DEFINE Keeps ==
             Restart \/ KilledInSave \/ KilledInSave2 =>
                \A i \in Slots : leases'[i].yiaddr # 0 =>
                    \E j \in Slots :
                        LET old == saved'[Config1.lease_file][j]
                        IN  /\ old.chaddr = leases'[i].chaddr
                            /\ old.yiaddr = leases'[i].yiaddr
                            /\ leases'[i].expires >= uptime
                            /\ leases'[i].expires >= old.expires
<1>1. DiskInv /\ [DiskNext]_allVars => [Keeps]_allVars
  <2> SUFFICES ASSUME DiskInv, Restart \/ KilledInSave \/ KilledInSave2,
                      NEW i \in Slots, leases'[i].yiaddr # 0
               PROVE  \E j \in Slots :
                        LET old == saved'[Config1.lease_file][j]
                        IN  /\ old.chaddr = leases'[i].chaddr
                            /\ old.yiaddr = leases'[i].yiaddr
                            /\ leases'[i].expires >= uptime
                            /\ leases'[i].expires >= old.expires
    OBVIOUS
  <2> DEFINE f == Config1.lease_file
  <2>1. f \in Files /\ Config1 \in Config /\ uptime \in Nat
    BY UdhcpdAssumption DEF Config, Files, DiskInv, TypeOK
  <2>2. FileOK(files'[f], saved'[f], uptime) BY <2>1, FilesStep
  <2>3. leases' = Load(files'[f], Config1, uptime)
    BY DEF Restart, KilledInSave, KilledInSave2, Boot
  <2> HIDE DEF f
  <2>4. Load(files'[f], Config1, uptime)[i].yiaddr # 0 BY <2>3
  <2>5. \E j \in Slots :
              /\ saved'[f][j].chaddr = Load(files'[f], Config1, uptime)[i].chaddr
              /\ saved'[f][j].yiaddr = Load(files'[f], Config1, uptime)[i].yiaddr
              /\ Load(files'[f], Config1, uptime)[i].expires >= uptime
              /\ Load(files'[f], Config1, uptime)[i].expires >= saved'[f][j].expires
    BY <2>1, <2>2, <2>4, BootRecovers
  <2> QED BY <2>3, <2>5 DEF f
<1> QED BY <1>1, DiskInvariant, PTL DEF DiskSpec, RecoveredKeepsTime

\* The same for the second pool, whose table is written by write_leases2 to the file that
\* server2_config names at that moment.
Recovered2KeepsTime ==
    [][Restart \/ KilledInSave \/ KilledInSave2 =>
        \A i \in Slots : leases2'[i].yiaddr # 0 =>
            \E j \in Slots :
                /\ saved'[Config2.lease_file][j].chaddr = leases2'[i].chaddr
                /\ saved'[Config2.lease_file][j].yiaddr = leases2'[i].yiaddr
                /\ leases2'[i].expires >= uptime
                /\ leases2'[i].expires >= saved'[Config2.lease_file][j].expires]_allVars

(* A lease of the second pool that survives a restart was in the table that its file was
   written from and is not cut short. *)
THEOREM Leases2Recovered == DiskSpec => Recovered2KeepsTime
<1> DEFINE f == Config2.lease_file
           KeepsTime ==
             Restart \/ KilledInSave \/ KilledInSave2 =>
                \A i \in Slots : leases2'[i].yiaddr # 0 =>
                    \E j \in Slots :
                        /\ saved'[f][j].chaddr = leases2'[i].chaddr
                        /\ saved'[f][j].yiaddr = leases2'[i].yiaddr
                        /\ leases2'[i].expires >= uptime
                        /\ leases2'[i].expires >= saved'[f][j].expires
<1>1. DiskInv /\ [DiskNext]_allVars => [KeepsTime]_allVars
  <2> SUFFICES ASSUME DiskInv, Restart \/ KilledInSave \/ KilledInSave2,
                      NEW i \in Slots, leases2'[i].yiaddr # 0
               PROVE  \E j \in Slots :
                        /\ saved'[f][j].chaddr = leases2'[i].chaddr
                        /\ saved'[f][j].yiaddr = leases2'[i].yiaddr
                        /\ leases2'[i].expires >= uptime
                        /\ leases2'[i].expires >= saved'[f][j].expires
    OBVIOUS
  <2>1. f \in Files /\ Config2 \in Config /\ uptime \in Nat
    BY UdhcpdAssumption DEF Config, Files, DiskInv, TypeOK
  <2>2. FileOK(files'[f], saved'[f], uptime) BY <2>1, FilesStep
  <2>3. leases2' = Load(files'[f], Config2, uptime)
    BY DEF Restart, KilledInSave, KilledInSave2, Boot
  <2> HIDE DEF f
  <2>4. Load(files'[f], Config2, uptime)[i].yiaddr # 0 BY <2>3
  <2>5. \E j \in Slots :
              /\ saved'[f][j].chaddr = Load(files'[f], Config2, uptime)[i].chaddr
              /\ saved'[f][j].yiaddr = Load(files'[f], Config2, uptime)[i].yiaddr
              /\ Load(files'[f], Config2, uptime)[i].expires >= uptime
              /\ Load(files'[f], Config2, uptime)[i].expires >= saved'[f][j].expires
    BY <2>1, <2>2, <2>4, BootRecovers
  <2> QED BY <2>3, <2>5
<1> QED BY <1>1, DiskInvariant, PTL DEF DiskSpec, Recovered2KeepsTime

\* What a restart can bring back at all.
FewRecovered ==
    [][Restart =>
        \A i \in Slots : leases'[i].yiaddr # 0 =>
            \E k \in DOMAIN files[Config1.lease_file] :
                /\ k % 19 = 1
                /\ files[Config1.lease_file][k].chaddr = leases'[i].chaddr
                /\ files[Config1.lease_file][k].yiaddr = leases'[i].yiaddr]_allVars

(* Every lease that a restart brings back was the first, the 20th, the 39th ... record of
   the file: read_leases reads 152 bytes for the 88 that write_leases wrote, and all the
   others are lost.  This is why RestartRecoversAll fails as soon as a file holds a second
   lease of its pool. *)
THEOREM OneLeaseInNineteen == DiskSpec => FewRecovered
<1> DEFINE f == Config1.lease_file
           Few == Restart =>
                    \A i \in Slots : leases'[i].yiaddr # 0 =>
                        \E k \in DOMAIN files[f] :
                            /\ k % 19 = 1
                            /\ files[f][k].chaddr = leases'[i].chaddr
                            /\ files[f][k].yiaddr = leases'[i].yiaddr
<1>1. DiskInv /\ [DiskNext]_allVars => [Few]_allVars
  <2> SUFFICES ASSUME DiskInv, Restart, NEW i \in Slots, leases'[i].yiaddr # 0
               PROVE  \E k \in DOMAIN files[f] :
                            /\ k % 19 = 1
                            /\ files[f][k].chaddr = leases'[i].chaddr
                            /\ files[f][k].yiaddr = leases'[i].yiaddr
    OBVIOUS
  <2>1. f \in Files /\ Config1 \in Config /\ uptime \in Nat
    BY UdhcpdAssumption DEF Config, Files, DiskInv, TypeOK
  <2>2. FileOK(files[f], saved[f], uptime) BY <2>1 DEF DiskInv, FilesOK
  <2>3. leases' = Load(files[f], Config1, uptime) BY DEF Restart, Boot
  <2> HIDE DEF f
  <2>4. files[f] \in Seq(Record) BY <2>2 DEF FileOK
  <2>5. Load(files[f], Config1, uptime)[i].yiaddr # 0 BY <2>3
  <2>6. \E k \in DOMAIN files[f] :
              /\ Recovered(Load(files[f], Config1, uptime)[i], files[f][k], uptime)
              /\ k % 19 = 1
    BY <2>1, <2>4, <2>5, LoadRecovers
  <2> QED BY <2>3, <2>6 DEF Recovered
<1> QED BY <1>1, DiskInvariant, PTL DEF DiskSpec, FewRecovered

-----------------------------------------------------------------------------
(* With two pools that have no address in common a file may hold records of either:
   SIGUSR1 while a packet of the second pool is handled writes that pool's table to the
   file of the first, and after the first packet of the second pool both are saved to
   the same file.  The range tells them apart when they are read. *)

\* A record of a pool.
Owned(r, cfg, clients) ==
    /\ Allowed(r.yiaddr, cfg) /\ r.yiaddr # 0
    /\ r.chaddr # NoChaddr => r.chaddr \in clients

\* A file of records of the pools.  Nothing is leased at uptime 0.
FileOwned(file, now) ==
    /\ now = 0 => file = << >>
    /\ \A k \in DOMAIN file :
          Owned(file[k], Config1, Clients1) \/ Owned(file[k], Config2, Clients2)

FilesOwned == \A f \in Files : FileOwned(files[f], uptime)

PoolDiskInv == DiskInv /\ Loop /\ TablesOK /\ FilesOwned

\* The table of a pool is written as records of that pool.
LEMMA DumpOwned ==
    ASSUME NEW T \in Tables, NEW now \in Nat, NEW cfg, NEW clients,
           TableOK(T, cfg, clients, now)
    PROVE  /\ \A k \in DOMAIN Dump(T, now) : Owned(Dump(T, now)[k], cfg, clients)
           /\ now = 0 => Dump(T, now) = << >>
<1> DEFINE file == Dump(T, now)
<1>1. file \in Seq(Record) BY DumpOf
<1>2. PICK at \in [DOMAIN file -> Slots] :
        \A k \in DOMAIN file : T[at[k]].yiaddr # 0 /\ file[k] = RecordOf(T[at[k]], now)
  BY DumpOf
<1> HIDE DEF file
<1>3. ASSUME NEW k \in DOMAIN file PROVE Owned(file[k], cfg, clients)
  <2>1. file[k].chaddr = T[at[k]].chaddr /\ file[k].yiaddr = T[at[k]].yiaddr
        /\ T[at[k]].yiaddr # 0 /\ at[k] \in Slots
    BY <1>2 DEF RecordOf
  <2> QED BY <2>1 DEF TableOK, Owned
<1>4. ASSUME now = 0 PROVE file = << >>
  <2>1. T = EmptyTable BY <1>4 DEF TableOK
  <2>2. DOMAIN file = {}
    BY <1>2, <2>1 DEF EmptyTable, Blank
  <2>3. DOMAIN file = 1 .. Len(file) /\ Len(file) \in Nat BY <1>1
  <2>4. Len(file) = 0 BY <2>2, <2>3
  <2> QED BY <1>1, <2>4
<1> QED BY <1>3, <1>4 DEF file

\* A table that is read from a file of both pools is in order for the pool it is read
\* for: the range leaves the records of the other pool out.
LEMMA LoadOwned ==
    ASSUME NEW file \in Seq(Record), NEW cfg \in Config, NEW clients, NEW now \in Nat,
           now = 0 => file = << >>,
           \A k \in DOMAIN file :
              file[k].yiaddr \in cfg.start .. cfg.end => Owned(file[k], cfg, clients)
    PROVE  TableOK(Load(file, cfg, now), cfg, clients, now)
<1> DEFINE T == Load(file, cfg, now)
<1>1. PICK n \in Nat : \E at \in [1 .. n -> DOMAIN file \cup {0}] :
              Filled(T, file, cfg, now, n, at)
  BY LoadFrom
<1>2. PICK at \in [1 .. n -> DOMAIN file \cup {0}] : Filled(T, file, cfg, now, n, at)
  BY <1>1
<1>3. T = [i \in Slots |-> T[i]] BY DEF Load
<1> HIDE DEF T
<1>4. Blank.chaddr = NoChaddr /\ Blank.yiaddr = 0 /\ Blank.expires = 0 BY DEF Blank
<1>5. Junk.chaddr = NoChaddr /\ Junk.yiaddr = 0 /\ Junk.remaining = 0 BY DEF Junk
<1>6. \A i \in Slots : ~(i < n) => T[i] = Blank BY <1>2 DEF Filled
<1>7. ASSUME NEW i \in Slots, i < n
      PROVE  \/ T[i].chaddr = NoChaddr /\ T[i].yiaddr = 0 /\ T[i].expires = now
                /\ T[i] = [chaddr |-> NoChaddr, yiaddr |-> 0, expires |-> now]
             \/ /\ T[i].yiaddr # 0 /\ Allowed(T[i].yiaddr, cfg)
                /\ T[i].chaddr # NoChaddr => T[i].chaddr \in clients
                /\ T[i].expires >= now /\ T[i].expires \in Nat /\ file # << >>
  <2> DEFINE k == at[i + 1]
             r == IF k = 0 THEN Junk ELSE file[k]
  <2>1. i + 1 \in 1 .. n BY <1>7, LeaseTableAssumption DEF Slots
  <2>2. T[i] = [chaddr |-> r.chaddr, yiaddr |-> r.yiaddr, expires |-> r.remaining + now]
    BY <1>2, <1>7 DEF Filled
  <2>3. CASE k = 0
    <3>1. r = Junk BY <2>3
    <3>2. r.remaining + now = now BY <1>5, <3>1
    <3> HIDE DEF r
    <3> QED BY <1>5, <2>2, <3>1, <3>2
  <2>4. CASE k # 0
    <3>1. k \in DOMAIN file BY <2>1, <2>4
    <3>2. file[k].yiaddr \in cfg.start .. cfg.end BY <1>2, <2>1, <2>4 DEF Filled
    <3>3. Owned(file[k], cfg, clients) BY <3>1, <3>2
    <3>4. file[k] \in Record BY <3>1
    <3>5. file[k].remaining \in Nat BY <3>4 DEF Record
    <3>6. r = file[k] BY <2>4
    <3> HIDE DEF k, r
    <3>7. T[i].chaddr = file[k].chaddr /\ T[i].yiaddr = file[k].yiaddr
          /\ T[i].expires = file[k].remaining + now
      BY <2>2, <3>6
    <3>8. file # << >> BY <3>1
    <3> QED BY <3>3, <3>5, <3>7, <3>8 DEF Owned
  <2> QED BY <2>3, <2>4
<1>9. \A i \in Slots : T[i].chaddr # NoChaddr => T[i].yiaddr # 0 /\ T[i].chaddr \in clients
  BY <1>4, <1>6, <1>7
<1>10. \A i \in Slots : T[i].yiaddr # 0 => Allowed(T[i].yiaddr, cfg)
  BY <1>4, <1>6, <1>7
<1>11. CASE now = 0
  <2>1. file = << >> BY <1>11
  <2>2. \A i \in Slots : T[i] = Blank
    BY <1>6, <1>7, <1>11, <2>1 DEF Blank
  <2>3. T = EmptyTable BY <1>3, <2>2 DEF EmptyTable
  <2> QED BY <2>3, EmptyInOrder DEF T
<1>12. CASE now # 0
  <2>1. \A i \in Slots : i < n => T[i].expires # 0 BY <1>7, <1>12
  <2>2. ASSUME NEW i \in Slots, T[i].expires = 0
        PROVE  T[i] = Blank /\ \A j \in Slots : i < j => T[j].expires = 0
    <3>1. ~(i < n) BY <2>1, <2>2
    <3>2. \A j \in Slots : i < j => ~(j < n) BY <3>1, LeaseTableAssumption DEF Slots
    <3> QED BY <1>4, <1>6, <3>1, <3>2
  <2>3. Compact(T) BY <2>2 DEF Compact
  <2> QED BY <1>9, <1>10, <1>12, <2>3 DEF TableOK, T
<1> QED BY <1>11, <1>12

\* What may be written is the table of one of the pools.
LEMMA WritablePool ==
    ASSUME PoolDiskInv, NEW T, Writable(T)
    PROVE  \/ TableOK(T, Config1, Clients1, uptime)
           \/ TableOK(T, Config2, Clients2, uptime)
<1>1. T = Pool1 \/ T = Pool2
  BY DEF Writable, Pool1, Pool2, Swapped
<1> QED BY <1>1 DEF PoolDiskInv, TablesOK

\* The beginning of a file of records of the pools is one.
LEMMA CutOwned ==
    ASSUME NEW file \in Seq(Record), NEW now, FileOwned(file, now), NEW k \in 0 .. Len(file)
    PROVE  FileOwned(SubSeq(file, 1, k), now)
<1> DEFINE cut == SubSeq(file, 1, k)
<1>1. Len(file) \in Nat /\ DOMAIN file = 1 .. Len(file) OBVIOUS
<1>2. cut \in Seq(Record) /\ DOMAIN cut = 1 .. k /\ Len(cut) = k
      /\ \A i \in 1 .. k : cut[i] = file[i]
  BY <1>1
<1> HIDE DEF cut
<1>3. ASSUME now = 0 PROVE cut = << >>
  <2>1. Len(file) = 0 BY <1>3 DEF FileOwned
  <2>2. Len(cut) = 0 BY <1>2, <2>1
  <2> QED BY <1>2, <2>2
<1>4. \A i \in DOMAIN cut : i \in DOMAIN file /\ cut[i] = file[i] BY <1>1, <1>2
<1> QED BY <1>3, <1>4 DEF FileOwned, cut

\* Whatever a step leaves in a file are records of the pools.
LEMMA LeftOwned ==
    ASSUME PoolDiskInv, NEW fs, NEW sv, NEW f \in Files, Left(fs, sv, f)
    PROVE  FileOwned(fs[f], uptime)
<1>1. uptime \in Nat /\ leases \in Tables /\ leases2 \in Tables
  BY UdhcpdAssumption DEF PoolDiskInv, DiskInv, TypeOK
<1>2. CASE fs[f] = files[f]
  <2>1. FileOwned(files[f], uptime) BY DEF PoolDiskInv, FilesOwned
  <2> QED BY <1>2, <2>1
<1>3. ASSUME NEW T, NEW k \in 0 .. Len(Dump(T, uptime)), Writable(T),
             fs[f] = SubSeq(Dump(T, uptime), 1, k)
      PROVE  FileOwned(fs[f], uptime)
  <2>1. T \in Tables BY <1>1, <1>3 DEF Writable
  <2>2. Dump(T, uptime) \in Seq(Record) BY <1>1, <2>1, DumpOf
  <2>3. FileOwned(Dump(T, uptime), uptime)
    BY <1>1, <1>3, <2>1, WritablePool, DumpOwned DEF FileOwned
  <2> QED BY <1>3, <2>2, <2>3, CutOwned
<1> QED BY <1>2, <1>3 DEF Left

\* A new daemon that finds records of the pools in its files has both tables in order.
LEMMA BootOwned ==
    ASSUME RangesDisjoint, TypeOK, NEW fs, Boot(fs),
           \A f \in Files : fs[f] \in Seq(Record) /\ FileOwned(fs[f], uptime)
    PROVE  Loop' /\ TablesOK'
<1>1. Config1 \in Config /\ Config2 \in Config /\ uptime \in Nat
      /\ Config1.lease_file \in Files /\ Config2.lease_file \in Files
  BY UdhcpdAssumption DEF TypeOK, Config, Files
<1>2. pc' = "select" /\ packet' = NoPacket /\ server_config' = Config1
      /\ server2_config' = Config2 /\ uptime' = uptime
      /\ leases' = Load(fs[Config1.lease_file], Config1, uptime)
      /\ leases2' = Load(fs[Config2.lease_file], Config2, uptime)
  BY DEF Boot
<1>3. ~Swapped' BY <1>2 DEF Swapped
<1>4. Loop' BY <1>2, <1>3 DEF Loop, SameRange
<1>5. Pool1' = leases' /\ Pool2' = leases2' BY <1>3 DEF Pool1, Pool2
<1>6. ASSUME NEW f \in Files, NEW k \in DOMAIN fs[f]
      PROVE  /\ fs[f][k].yiaddr \in Config1.start .. Config1.end
                   => Owned(fs[f][k], Config1, Clients1)
             /\ fs[f][k].yiaddr \in Config2.start .. Config2.end
                   => Owned(fs[f][k], Config2, Clients2)
  <2>1. Owned(fs[f][k], Config1, Clients1) \/ Owned(fs[f][k], Config2, Clients2)
    BY DEF FileOwned
  <2> QED BY <2>1 DEF Owned, Allowed, RangesDisjoint
<1>7. \A f \in Files : uptime = 0 => fs[f] = << >> BY DEF FileOwned
<1>8. TableOK(leases', Config1, Clients1, uptime) BY <1>1, <1>2, <1>6, <1>7, LoadOwned
<1>9. TableOK(leases2', Config2, Clients2, uptime) BY <1>1, <1>2, <1>6, <1>7, LoadOwned
<1> QED BY <1>2, <1>4, <1>5, <1>8, <1>9 DEF TablesOK

\* Saves, kills and restarts keep the pools apart.
LEMMA OwnedStep ==
    ASSUME RangesDisjoint, PoolDiskInv,
           AutoSave \/ SigUsr1 \/ Restart \/ KilledInSave \/ KilledInSave2
    PROVE  (Loop /\ TablesOK /\ FilesOwned)'
<1>1. DiskInv /\ Loop /\ TablesOK BY DEF PoolDiskInv
<1>2. \A f \in Files : FileOwned(files'[f], uptime) BY <1>1, FilesLeft, LeftOwned
<1>3. CASE AutoSave \/ SigUsr1
  <2>1. UNCHANGED vars BY <1>3 DEF AutoSave, SigUsr1
  <2>2. Loop' /\ TablesOK'
    BY <1>1, <2>1 DEF vars, Loop, TablesOK, Pool1, Pool2, Swapped, UsePool2, SameRange
  <2>3. FilesOwned' BY <1>2, <2>1 DEF FilesOwned, vars
  <2> QED BY <2>2, <2>3
<1>4. CASE Restart \/ KilledInSave \/ KilledInSave2
  <2>1. PICK fs : Boot(fs) BY <1>4 DEF Restart, KilledInSave, KilledInSave2
  <2>2. fs = files' /\ uptime' = uptime BY <2>1 DEF Boot
  <2>3. \A f \in Files : FileOK(files'[f], saved'[f], uptime) BY <1>1, FilesStep
  <2>4. \A f \in Files : fs[f] \in Seq(Record) /\ FileOwned(fs[f], uptime)
    BY <1>2, <2>2, <2>3 DEF FileOK
  <2>5. TypeOK BY <1>1 DEF DiskInv
  <2>6. Loop' /\ TablesOK' BY <2>1, <2>4, <2>5, BootOwned
  <2>7. FilesOwned' BY <1>2, <2>2 DEF FilesOwned
  <2> QED BY <2>6, <2>7
<1> QED BY <1>3, <1>4

\* So does serving the clients.
LEMMA OwnedServed ==
    ASSUME Consistent, PoolDiskInv, [Next]_vars, UNCHANGED diskVars
    PROVE  (Loop /\ TablesOK /\ FilesOwned)'
<1>1. TableInv BY DEF PoolDiskInv, DiskInv, TableInv
<1>2. Loop' /\ TablesOK' BY <1>1, LoopStep, TablesStep
<1>3. uptime \in Nat BY UdhcpdAssumption DEF PoolDiskInv, DiskInv, TypeOK
<1>4. uptime' = 0 => uptime = 0 BY <1>3, ClockStep
<1>5. FilesOwned' BY <1>4 DEF PoolDiskInv, FilesOwned, FileOwned, diskVars
<1> QED BY <1>2, <1>5

(* The tables stay in order across restarts when clients keep to their pools and these
   have no address in common: the inductive invariant of the theorems below. *)
THEOREM PoolDiskInvariant ==
    ASSUME Consistent, RangesDisjoint
    PROVE  DiskSpec => []PoolDiskInv
<1>1. DiskInit => Loop /\ TablesOK /\ FilesOwned
  <2> SUFFICES ASSUME DiskInit PROVE Loop /\ TablesOK /\ FilesOwned
    OBVIOUS
  <2>1. Loop /\ TablesOK BY PoolsInit DEF DiskInit
  <2>2. \A f \in Files : files[f] = << >> BY DEF DiskInit
  <2> QED BY <2>1, <2>2 DEF FilesOwned, FileOwned
<1>2. DiskInv /\ Loop /\ TablesOK /\ FilesOwned /\ [DiskNext]_allVars
        => (Loop /\ TablesOK /\ FilesOwned)'
  <2> SUFFICES ASSUME PoolDiskInv, [DiskNext]_allVars
               PROVE  (Loop /\ TablesOK /\ FilesOwned)'
    BY DEF PoolDiskInv
  <2>1. CASE Serve BY <2>1, OwnedServed DEF Serve
  <2>2. CASE UNCHANGED allVars
    <3>1. UNCHANGED vars /\ UNCHANGED diskVars BY <2>2 DEF allVars
    <3> QED BY <3>1, OwnedServed
  <2>3. CASE AutoSave \/ SigUsr1 \/ Restart \/ KilledInSave \/ KilledInSave2
    BY <2>3, OwnedStep
  <2> QED BY <2>1, <2>2, <2>3 DEF DiskNext
<1>3. DiskInv /\ Loop /\ TablesOK /\ FilesOwned <=> PoolDiskInv BY DEF PoolDiskInv
<1> QED BY <1>1, <1>2, <1>3, DiskInvariant, PTL DEF DiskSpec

(* A pool's table has only addresses that the pool may give out, also when it was read
   from a file that holds records of the other pool. *)
THEOREM DiskPoolsDisciplined ==
    ASSUME Consistent, RangesDisjoint
    PROVE  DiskSpec => []PoolDiscipline
<1>1. PoolDiskInv => PoolDiscipline
  BY Disciplined DEF PoolDiskInv, DiskInv, TableInv
<1> QED BY <1>1, PoolDiskInvariant, PTL

(* sendACK moves no record in a table that was read from a file either: its records are
   packed at the front like those of a table that was filled by the clients. *)
THEOREM DiskSlotsStable ==
    ASSUME Consistent, RangesDisjoint
    PROVE  DiskSpec => SlotStable
<1> DEFINE Stable == packet # NoPacket /\ Lease1 # NULL /\ reply'.type = "ACK"
                       => find_lease_by_chaddr(leases', packet.chaddr) = Lease1
<1>1. PoolDiskInv /\ [DiskNext]_allVars => [Stable]_vars
  <2> SUFFICES ASSUME PoolDiskInv, [DiskNext]_allVars, ~UNCHANGED vars,
                      packet # NoPacket, Lease1 # NULL, reply'.type = "ACK"
               PROVE  find_lease_by_chaddr(leases', packet.chaddr) = Lease1
    OBVIOUS
  <2>1. CASE Serve
    <3>1. TableInv BY DEF PoolDiskInv, DiskInv, TableInv
    <3> QED BY <2>1, <3>1, AckInPlace DEF Serve
  <2>2. CASE Restart \/ KilledInSave \/ KilledInSave2
    BY <2>2 DEF Restart, KilledInSave, KilledInSave2, Boot, NoReply
  <2> QED BY <2>1, <2>2 DEF DiskNext, AutoSave, SigUsr1, allVars
<1> QED BY <1>1, PoolDiskInvariant, PTL DEF DiskSpec, SlotStable

=============================================================================
