------------------------------ MODULE UdhcpdDisk ------------------------------
(***************************************************************************)
(* The udhcp server with its lease files (udhcp/files.c): both tables are  *)
(* written every auto_time seconds, the first one also when SIGUSR1        *)
(* arrives, which may be in the middle of a packet; a new daemon reads     *)
(* them back.  A file is the sequence of the records written to it.        *)
(***************************************************************************)
EXTENDS Udhcpd, Sequences, Thinning

CONSTANT AutoTime    \* server_config.auto_time, in the unit of uptime

ASSUME AutoTimeAssumption == AutoTime \in Nat \ {0}

VARIABLES
    files,           \* the two lease files
    timeout_end,     \* when the next automatic save is due
    saved            \* ghost: the table each file was last written from

diskVars == <<files, timeout_end, saved>>
allVars == <<vars, diskVars>>

Files == {"udhcpd.leases", "udhcpd2.leases"}

-----------------------------------------------------------------------------
\* What the fwrite calls of write_leases put out for a lease, and what the
\* fread of read_leases takes in (struct dhcpOfferedAddr also has a vendorid).
WrittenSize == 16 + 4 + 4 + 64
StructSize == 16 + 4 + 4 + 64 + 64

\* Mutant: an expired lease is not stored as 0.
Dump_Unclamped(T, now) ==
    LET used == Thin([k \in 1 .. MaxLeases |-> T[k - 1]],
                     {k \in 1 .. MaxLeases : T[k - 1].yiaddr # 0})
    IN  [k \in 1 .. Len(used) |->
            [chaddr |-> used[k].chaddr, yiaddr |-> used[k].yiaddr,
             remaining |-> used[k].expires - now]]

\* The records of the slots in use, in slot order.  The server is configured to
\* store the time remaining, 0 for a lease that has expired.
Dump(T, now) ==
    LET used == Thin([k \in 1 .. MaxLeases |-> T[k - 1]],
                     {k \in 1 .. MaxLeases : T[k - 1].yiaddr # 0})
    IN  [k \in 1 .. Len(used) |->
            [chaddr |-> used[k].chaddr, yiaddr |-> used[k].yiaddr,
             remaining |-> IF lease_expired(used[k], now) THEN 0
                           ELSE used[k].expires - now]]

\* What the reads return.  One that does not begin on a record boundary takes its
\* yiaddr from the middle of a record, from the padding of a hardware address or
\* the text of a host name: that is taken not to be an address of a pool, although a
\* client may choose its host name so that it is.
Reads(file) ==
    [k \in 1 .. (WrittenSize * Len(file)) \div StructSize |->
        IF (StructSize * (k - 1)) % WrittenSize = 0
        THEN file[(StructSize * (k - 1)) \div WrittenSize + 1]
        ELSE [chaddr |-> NoChaddr, yiaddr |-> 0, remaining |-> 0]]

\* Mutants: the range is not looked at; the time remaining is taken for the expiry.
Load_AnyRange(file, cfg, now) ==
    LET found == Reads(file)
    IN  [i \in Slots |->
            IF i < Len(found)
            THEN [chaddr |-> found[i + 1].chaddr, yiaddr |-> found[i + 1].yiaddr,
                  expires |-> found[i + 1].remaining + now]
            ELSE Blank]
Load_Absolute(file, cfg, now) ==
    LET reads == Reads(file)
        found == Thin(reads, {k \in DOMAIN reads :
                                 reads[k].yiaddr \in cfg.start .. cfg.end})
    IN  [i \in Slots |->
            IF i < Len(found)
            THEN [chaddr |-> found[i + 1].chaddr, yiaddr |-> found[i + 1].yiaddr,
                  expires |-> found[i + 1].remaining]
            ELSE Blank]

\* The table read_leases builds: the records in the pool's range fill the first
\* slots, with the time remaining counted from now.
Load(file, cfg, now) ==
    LET reads == Reads(file)
        found == Thin(reads, {k \in DOMAIN reads :
                                 reads[k].yiaddr \in cfg.start .. cfg.end})
    IN  [i \in Slots |->
            IF i < Len(found)
            THEN [chaddr |-> found[i + 1].chaddr, yiaddr |-> found[i + 1].yiaddr,
                  expires |-> found[i + 1].remaining + now]
            ELSE Blank]

-----------------------------------------------------------------------------
DiskInit ==
    /\ Init
    /\ files = [f \in Files |-> <<>>]
    /\ timeout_end = AutoTime
    /\ saved = [f \in Files |-> EmptyTable]

\* One turn of the main loop, or the clock.
Serve == Next /\ UNCHANGED diskVars

\* write_leases, then write_leases2, each to the file its configuration names.
AutoSave ==
    LET f == server_config.lease_file
        f2 == server2_config.lease_file
    IN  /\ pc = "select"
        /\ uptime >= timeout_end
        /\ files' = [files EXCEPT ![f] = Dump(leases, uptime),
                                  ![f2] = Dump(leases2, uptime)]
        /\ saved' = [saved EXCEPT ![f] = leases, ![f2] = leases2]
        /\ timeout_end' = uptime + AutoTime
        /\ UNCHANGED vars

\* The signal handler is write_leases itself.  If it interrupts select the main
\* loop only opens its socket again.  It comes before, during or after the handling
\* of a packet; the copying of the tables in a swap is not cut.
SigUsr1 ==
    LET f == server_config.lease_file
    IN  /\ files' = [files EXCEPT ![f] = Dump(leases, uptime)]
        /\ saved' = [saved EXCEPT ![f] = leases]
        /\ UNCHANGED <<vars, timeout_end>>

\* A new daemon starts from the files fs.
Boot(fs) ==
    /\ files' = fs
    /\ server_config' = Config1
    /\ server2_config' = Config2
    /\ tmpSrvCfg' = Config1
    /\ leases' = Load(fs[Config1.lease_file], Config1, uptime)
    /\ leases2' = Load(fs[Config2.lease_file], Config2, uptime)
    /\ tmpls' = EmptyTable
    /\ pc' = "select"
    /\ packet' = NoPacket
    /\ reply' = NoReply
    /\ timeout_end' = uptime + AutoTime
    /\ UNCHANGED <<uptime, granted>>

\* The daemon is killed, at any point, and started again.  (Time spent down is
\* time spent before: the files do not change meanwhile.)
Restart == Boot(files) /\ UNCHANGED saved

\* fs with file f cut short: fopen has truncated it, and the daemon was killed
\* before fclose.  A cut within a record reads like one at either end of it.
Torn(fs, f, T) ==
    {[fs EXCEPT ![f] = SubSeq(Dump(T, uptime), 1, k)] : k \in 0 .. Len(Dump(T, uptime))}

\* The daemon is killed in write_leases, by whoever called it.
KilledInSave ==
    LET f == server_config.lease_file
    IN  /\ \E fs \in Torn(files, f, leases) : Boot(fs)
        /\ saved' = [saved EXCEPT ![f] = leases]

\* The daemon is killed in write_leases2, after write_leases.
KilledInSave2 ==
    LET f == server_config.lease_file
        f2 == server2_config.lease_file
        done == [files EXCEPT ![f] = Dump(leases, uptime)]
    IN  /\ pc = "select"
        /\ uptime >= timeout_end
        /\ \E fs \in Torn(done, f2, leases2) : Boot(fs)
        /\ saved' = [saved EXCEPT ![f] = leases, ![f2] = leases2]

DiskNext == Serve \/ AutoSave \/ SigUsr1 \/ Restart \/ KilledInSave \/ KilledInSave2

DiskSpec == DiskInit /\ [][DiskNext]_allVars

-----------------------------------------------------------------------------
\* Types: in particular the time remaining that is written is never negative.
DiskTypeOK ==
    /\ TypeOK
    /\ DOMAIN files = Files
    /\ \A f \in Files : files[f] \in Seq([chaddr : Chaddr \cup {NoChaddr},
                                         yiaddr : Nat, remaining : Nat])
    /\ timeout_end \in Nat
    /\ saved \in [Files -> Tables]

\* A lease that survives a restart was in the table its file was written from,
\* and is not cut short by the conversion to time remaining and back, also when
\* the daemon was killed while it wrote the file.
RecoveredKeepsTime ==
    [][Restart \/ KilledInSave \/ KilledInSave2 =>
        \A i \in Slots : leases'[i].yiaddr # 0 =>
            \E j \in Slots :
                LET old == saved'[Config1.lease_file][j]
                IN  /\ old.chaddr = leases'[i].chaddr
                    /\ old.yiaddr = leases'[i].yiaddr
                    /\ leases'[i].expires >= uptime
                    /\ leases'[i].expires >= old.expires]_allVars

\* A restart brings back every lease of the file that read_leases looks for.
RestartRecoversAll ==
    [][Restart =>
        \A k \in 1 .. Len(files[Config1.lease_file]) :
            LET r == files[Config1.lease_file][k]
            IN  r.yiaddr \in Config1.start .. Config1.end =>
                  \E i \in Slots : /\ leases'[i].chaddr = r.chaddr
                                   /\ leases'[i].yiaddr = r.yiaddr]_allVars

=============================================================================
