------------------------------- MODULE Fat32 -------------------------------
(***************************************************************************)
(* fs/fat32/fat32_file_system.cpp: cluster chains, the entries of one      *)
(* directory and the inodes of its files, as openat, inode::read,          *)
(* inode::write, close and unlinkat use them.                              *)
(*                                                                         *)
(* An action is what a task does between two places where it sleeps: for   *)
(* the disk, or for the lock of an inode.  The FAT is in memory.  The long *)
(* entries and the short entry of a file are one entry here, and a file    *)
(* grows by one cluster at a time.  The directory is read and written      *)
(* through the buffer cache, but UpdateInode reads a sector of it from the *)
(* disk, changes one entry and writes the sector back, past the cache.     *)
(***************************************************************************)
EXTENDS Naturals, Sequences, FiniteSetsExt

CONSTANTS
    Procs,
    Names,     \* file names
    Alike,     \* the pairs <<n, m>> of other names that strncasecmp, with
               \* the length of n, finds equal
    Prefixes,  \* those which strncmp finds equal: n is a proper prefix of m
    MaxSlot,   \* entries of the directory
    PerSector, \* how many of them a sector holds
    MaxClus,   \* the last cluster
    MaxLen,    \* clusters of a file
    Values,    \* contents of a cluster
    None,
    Races      \* the windows that no lock covers are entered

ASSUME FatAssumption ==
    /\ MaxSlot \in Nat \ {0} /\ MaxClus \in Nat /\ MaxClus > 1
    /\ MaxLen \in Nat \ {0}
    /\ PerSector \in Nat \ {0}
    /\ Prefixes \subseteq Alike /\ Alike \subseteq Names \X Names
    /\ None \notin Nat \cup Procs \cup Values
    /\ Races \in BOOLEAN

Slots    == 1 .. MaxSlot
Clusters == 2 .. MaxClus
EOC      == MaxClus + 1       \* kEndOfCluster32
Entries  == [name : Names, start : Clusters, size : 0 .. MaxLen]
Inodes   == [name : Names, start : Clusters, size : 0 .. MaxLen,
             ref : Nat, logi : 0 .. MaxLen, clus : Clusters,
             lock : Procs \cup {None}]

NoDir    == [s \in Slots |-> None]
Writes   == [file : Slots, at : 0 .. MaxLen]   \* where a write goes

\* None is not an entry, an inode, a place to write or the content of a file.
ASSUME NoneAssumption ==
    /\ None \notin Entries \cup Inodes \cup Writes
    /\ \A n \in 0 .. MaxLen : None \notin [1 .. n -> Values \cup {None}]

VARIABLES
    fat,      \* fat_cache_
    data,     \* what was written to each cluster since it was allocated, or
              \* None: whatever it was before, in the cache or on the disk
    dir,      \* the entry in each slot of the directory on the disk, or None
    cached,   \* the directory as the next buffer_layer.read shows it
    sector,   \* what each process inside UpdateInode read of the directory
    dirLock,  \* the lock of the directory's inode
    inode,    \* inode_cache_map_: the inode built for a slot, or None
    file,     \* the inode of the file each process has open, or None
    pc, name, slot, clus, at   \* a process: its place and its variables

diskVars == <<fat, data, dir, cached>>
procVars == <<pc, name, slot, clus, at>>
vars == <<diskVars, sector, dirLock, inode, file, procVars>>

\* Inside Create and Unlink, and inside Lookup.
ChangePcs == {"create", "mark", "unchain"}
LookupPcs == {"namei", "search", "dup"}
WritePcs  == {"grow", "write"}
Pcs == {"idle", "read", "entry", "update", "hang"} \cup ChangePcs \cup LookupPcs \cup WritePcs

TypeOK ==
    /\ fat \in [Clusters -> Clusters \cup {0, EOC}]
    /\ data \in [Clusters -> Values \cup {None}]
    /\ dir \in [Slots -> Entries \cup {None}]
    /\ cached \in [Slots -> Entries \cup {None}]
    /\ sector \in [Procs -> [Slots -> Entries \cup {None}]]
    /\ dirLock \in Procs \cup {None}
    /\ inode \in [Slots -> Inodes \cup {None}]
    /\ file \in [Procs -> Slots \cup {None}]
    /\ pc \in [Procs -> Pcs]
    /\ name \in [Procs -> Names \cup {None}]
    /\ slot \in [Procs -> Slots \cup {None}]
    /\ clus \in [Procs -> Clusters \cup {None}]
    /\ at \in [Procs -> 0 .. MaxLen]

Init ==
    /\ fat = [c \in Clusters |-> 0]
    /\ data = [c \in Clusters |-> None]
    /\ dir = NoDir
    /\ cached = dir
    /\ sector = [p \in Procs |-> NoDir]
    /\ dirLock = None
    /\ inode = [s \in Slots |-> None]
    /\ file = [p \in Procs |-> None]
    /\ pc = [p \in Procs |-> "idle"]
    /\ name = [p \in Procs |-> None]
    /\ slot = [p \in Procs |-> None]
    /\ clus = [p \in Procs |-> None]
    /\ at = [p \in Procs |-> 0]

Goto(p, l) == pc' = [pc EXCEPT ![p] = l]

\* The call returns: its local variables are gone.
Return(p) ==
    /\ Goto(p, "idle")
    /\ name' = [name EXCEPT ![p] = None]
    /\ slot' = [slot EXCEPT ![p] = None]
    /\ clus' = [clus EXCEPT ![p] = None]
    /\ at' = [at EXCEPT ![p] = 0]

\* Create and Unlink take no lock, and a Lookup can run beside them.
MayChange(p) == Races \/ \A q \in Procs \ {p} : pc[q] \notin ChangePcs \cup LookupPcs
MayLookup(p) == Races \/ \A q \in Procs \ {p} : pc[q] \notin ChangePcs

\* Nor does UpdateInode: an entry that is added or deleted between its read and
\* its write of the sector comes back as it was.
MayWriteDir == Races \/ \A q \in Procs : pc[q] # "update"

-----------------------------------------------------------------------------
(* Clusters.                                                               *)

FreeClusters == {c \in Clusters : fat[c] = 0}

GetFatEntry(c) == IF c \in Clusters THEN fat[c] ELSE EOC

\* The clusters from c on, counted from 0.  A chain has at most MaxLen.
Path(c) ==
    LET f[i \in 0 .. MaxLen] == IF i = 0 THEN c ELSE GetFatEntry(f[i - 1])
    IN f

Follow(c, j) == Path(c)[j]
Chain(c) == LET f == Path(c) IN {f[j] : j \in 0 .. MaxLen} \cap Clusters

\* Mutant: the cluster is not marked until it is linked.
AllocCluster_NotMarked(p) ==
    LET c == Min(FreeClusters)
    IN /\ clus' = [clus EXCEPT ![p] = c]
       /\ data' = [data EXCEPT ![c] = None]
       /\ UNCHANGED fat

\* The first free cluster is marked as the end of a chain.  It holds zeroes on
\* the disk, and perhaps its last contents in the cache: ZeroCluster writes
\* past it.
AllocCluster(p) ==
    LET c == Min(FreeClusters)
    IN /\ clus' = [clus EXCEPT ![p] = c]
       /\ data' = [data EXCEPT ![c] = None]
       /\ fat' = [fat EXCEPT ![c] = EOC]

\* Mutant: the search always starts from the cached place.
BmapFrom_Cached(ip, k) == [i |-> ip.logi, c |-> ip.clus]

\* bmap starts from the place it found last, unless that is too far.
BmapFrom(ip, k) == IF k >= ip.logi THEN [i |-> ip.logi, c |-> ip.clus]
                   ELSE [i |-> 0, c |-> ip.start]

\* bmap for a cluster that is in the chain, or EOC for the one after it.
Bmap(ip, k) == LET from == BmapFrom(ip, k)
               IN IF k >= from.i THEN Follow(from.c, k - from.i) ELSE from.c

FreeClusterChain(c) == [x \in Clusters |-> IF x \in Chain(c) THEN 0 ELSE fat[x]]

-----------------------------------------------------------------------------
(* openat, close and exit.                                                 *)

\* AllocCluster's loop does not end when the disk is full.
Hang(p) ==
    /\ FreeClusters = {}
    /\ Goto(p, "hang")
    /\ UNCHANGED <<fat, data, clus>>

\* O_CREATE: Create without a look at whether the name exists.  (With no free
\* slot the directory would grow.)
OpenCreate(p, n) ==
    /\ pc[p] = "idle" /\ file[p] = None /\ MayChange(p)
    /\ dirLock = None               \* nameiparent takes the lock and releases it
    /\ \E s \in Slots : cached[s] = None
    /\ name' = [name EXCEPT ![p] = n]
    /\ slot' = [slot EXCEPT ![p] = Min({s \in Slots : cached[s] = None})]
    /\ \/ FreeClusters # {} /\ AllocCluster(p) /\ Goto(p, "create")
       \/ Hang(p)
    /\ UNCHANGED <<dir, cached, sector, dirLock, inode, file, at>>

\* WriteInode of the directory: the whole block goes to the disk.
WriteDir(s, e) ==
    /\ cached' = [cached EXCEPT ![s] = e]
    /\ dir' = cached'

\* The directory's buffer is used for another block, and is read again.
Reload ==
    /\ cached # dir
    /\ cached' = dir
    /\ UNCHANGED <<fat, data, dir, sector, dirLock, inode, file, procVars>>

\* The entry is written, then namei looks the name up.
CreateEntry(p) ==
    /\ pc[p] = "create" /\ MayWriteDir
    /\ WriteDir(slot[p], [name |-> name[p], start |-> clus[p], size |-> 0])
    /\ slot' = [slot EXCEPT ![p] = None]
    /\ clus' = [clus EXCEPT ![p] = None]
    /\ Goto(p, "namei")
    /\ UNCHANGED <<fat, data, sector, dirLock, inode, file, name, at>>

\* Without O_CREATE: namei alone, which starts when the directory is not locked.
Open(p, n) ==
    /\ pc[p] = "idle" /\ file[p] = None /\ MayLookup(p)
    /\ dirLock = None
    /\ dirLock' = p
    /\ name' = [name EXCEPT ![p] = n]
    /\ Goto(p, "search")
    /\ UNCHANGED <<diskVars, sector, inode, file, slot, clus, at>>

NamexLock(p) ==
    /\ pc[p] = "namei" /\ dirLock = None
    /\ dirLock' = p
    /\ Goto(p, "search")
    /\ UNCHANGED <<diskVars, sector, inode, file, name, slot, clus, at>>

\* The entries that n matches under R.  (The loops of Lookup and Unlink also
\* compare n with what a deleted entry leaves in tmp_name: the name of the live
\* entry before it, which did not match, or one that begins with 0xe5.  That
\* some file that is never removed is the first entry is assumed.)
Matches(n, R) ==
    {s \in Slots : /\ cached[s] # None
                   /\ cached[s].name = n \/ <<n, cached[s].name>> \in R}

\* Lookup stops at the first that strncasecmp matches, ...
Found(n) == Matches(n, Alike)

LookupFails(p) ==
    /\ pc[p] = "search" /\ Found(name[p]) = {}
    /\ dirLock' = None
    /\ Return(p)
    /\ UNCHANGED <<diskVars, sector, inode, file>>

\* p has the inode of slot s: fp->inode.
Opened(p, s) ==
    /\ file' = [file EXCEPT ![p] = s]
    /\ dirLock' = None
    /\ Return(p)
    /\ UNCHANGED <<diskVars, sector>>

\* BuildInode of an entry that has no inode yet.
LookupBuilds(p) ==
    /\ pc[p] = "search" /\ Found(name[p]) # {}
    /\ LET s == Min(Found(name[p]))
           e == cached[s]
       IN /\ inode[s] = None
          /\ inode' = [inode EXCEPT ![s] =
                 [name |-> e.name, start |-> e.start, size |-> e.size, ref |-> 1,
                  logi |-> 0, clus |-> e.start, lock |-> None]]
          /\ Opened(p, s)

Dup(s) == inode' = [inode EXCEPT ![s].ref = @ + 1]

\* GetInode finds the inode, and inode::dup its lock free ...
LookupFinds(p) ==
    /\ pc[p] = "search" /\ Found(name[p]) # {}
    /\ LET s == Min(Found(name[p]))
       IN /\ inode[s] # None /\ inode[s].lock = None
          /\ Dup(s)
          /\ Opened(p, s)

\* ... or taken, and sleeps.
LookupSleeps(p) ==
    /\ pc[p] = "search" /\ Found(name[p]) # {}
    /\ LET s == Min(Found(name[p]))
       IN /\ inode[s] # None /\ inode[s].lock # None
          /\ slot' = [slot EXCEPT ![p] = s]
    /\ Goto(p, "dup")
    /\ UNCHANGED <<diskVars, sector, dirLock, inode, file, name, clus, at>>

\* The sleeper runs again.  The inode may have been deleted meanwhile.
LookupWakes(p) ==
    /\ pc[p] = "dup"
    /\ LET s == slot[p]
       IN /\ \/ inode[s] = None /\ UNCHANGED inode
             \/ inode[s] # None /\ inode[s].lock = None /\ Dup(s)
          /\ Opened(p, s)

\* p's open file can be worked on: the lock of its inode is free.
Ready(p) ==
    /\ pc[p] = "idle" /\ file[p] # None
    /\ inode[file[p]] # None
    /\ inode[file[p]].lock = None

\* Mutant: the inode goes away with the first file that is closed.
Close_First(p) ==
    /\ Ready(p)
    /\ Races \/ \A q \in Procs : pc[q] = "dup" => slot[q] # file[p]
    /\ inode' = [inode EXCEPT ![file[p]] = None]
    /\ file' = [file EXCEPT ![p] = None]
    /\ UNCHANGED <<diskVars, sector, dirLock, procVars>>

\* inode::free deletes the inode with the last reference; it may overtake a
\* process that has been woken in dup and has not run yet.
Close(p) ==
    /\ Ready(p)
    /\ Races \/ \A q \in Procs : pc[q] = "dup" => slot[q] # file[p]
    /\ LET ip == inode[file[p]]
       IN inode' = [inode EXCEPT ![file[p]] =
                 IF ip.ref = 1 THEN None ELSE [ip EXCEPT !.ref = ip.ref - 1]]
    /\ file' = [file EXCEPT ![p] = None]
    /\ UNCHANGED <<diskVars, sector, dirLock, procVars>>

Users(s) == {p \in Procs : file[p] = s}

\* Bound: exit leaks one reference at a time.
NoLeak == \A s \in Slots : inode[s] # None => inode[s].ref = Cardinality(Users(s))

\* exit closes with the old vfs::close, which keeps the inode's reference.
Exit(p) ==
    /\ pc[p] = "idle" /\ file[p] # None
    /\ NoLeak
    /\ file' = [file EXCEPT ![p] = None]
    /\ UNCHANGED <<diskVars, sector, dirLock, inode, procVars>>

-----------------------------------------------------------------------------
(* inode::read and inode::write.                                           *)

Unlock(p) == inode' = [inode EXCEPT ![file[p]].lock = None]

\* Mutant: the size is taken for the last byte.
Readable_Last(ip, k) == k <= ip.size

Readable(ip, k) == k < ip.size

\* ReadInode stays below the size; bmap remembers the place.
Read(p, k) ==
    /\ Ready(p)
    /\ LET ip == inode[file[p]]
       IN /\ Readable(ip, k)
          /\ inode' = [inode EXCEPT ![file[p]] =
                 [ip EXCEPT !.lock = p, !.logi = k, !.clus = Bmap(ip, k)]]
    /\ at' = [at EXCEPT ![p] = k]
    /\ Goto(p, "read")
    /\ UNCHANGED <<diskVars, sector, dirLock, file, name, slot, clus>>

ReadDone(p) ==
    /\ pc[p] = "read"
    /\ Unlock(p)
    /\ Return(p)
    /\ UNCHANGED <<diskVars, sector, dirLock, file>>

\* WriteInode of cluster k, which exists, ...
Write(p, k) ==
    /\ Ready(p)
    /\ LET ip == inode[file[p]]
       IN /\ k <= ip.size
          /\ Bmap(ip, k) # EOC
          /\ inode' = [inode EXCEPT ![file[p]] =
                 [ip EXCEPT !.lock = p, !.logi = k, !.clus = Bmap(ip, k)]]
    /\ at' = [at EXCEPT ![p] = k]
    /\ Goto(p, "write")
    /\ UNCHANGED <<diskVars, sector, dirLock, file, name, slot, clus>>

\* ... or which bmap has to allocate.
WriteGrow(p, k) ==
    /\ Ready(p)
    /\ LET ip == inode[file[p]]
       IN /\ k <= ip.size
          /\ Bmap(ip, k) = EOC
          /\ inode' = [inode EXCEPT ![file[p]].lock = p]
    /\ at' = [at EXCEPT ![p] = k]
    /\ \/ FreeClusters # {} /\ AllocCluster(p) /\ Goto(p, "grow")
       \/ Hang(p)
    /\ UNCHANGED <<dir, cached, sector, dirLock, file, name, slot>>

\* The new cluster is linked to the last one.
Grow(p) ==
    /\ pc[p] = "grow"
    /\ LET ip == inode[file[p]]
       IN /\ fat' = [fat EXCEPT ![Bmap(ip, at[p] - 1)] = clus[p]]
          /\ inode' = [inode EXCEPT ![file[p]] =
                 [ip EXCEPT !.logi = at[p], !.clus = clus[p]]]
    /\ clus' = [clus EXCEPT ![p] = None]
    /\ Goto(p, "write")
    /\ UNCHANGED <<data, dir, cached, sector, dirLock, file, name, slot, at>>

SizeAfter(size, k) == IF k + 1 > size THEN k + 1 ELSE size

\* The block is copied from the user's memory, the size follows.
WriteBlock(p, v) ==
    /\ pc[p] = "write"
    /\ data' = [data EXCEPT ![inode[file[p]].clus] = v]
    /\ inode' = [inode EXCEPT ![file[p]].size = SizeAfter(@, at[p])]
    /\ Goto(p, "entry")
    /\ UNCHANGED <<fat, dir, cached, sector, dirLock, file, name, slot, clus, at>>

\* UpdateInode reads the sector of the entry at i_pos from the disk, ...
UpdateRead(p) ==
    /\ pc[p] = "entry"
    /\ sector' = [sector EXCEPT ![p] = dir]
    /\ Goto(p, "update")
    /\ UNCHANGED <<diskVars, dirLock, inode, file, name, slot, clus, at>>

SameSector(s, t) == (s - 1) \div PerSector = (t - 1) \div PerSector

EntryOf(ip) == [name |-> ip.name, start |-> ip.start, size |-> ip.size]

\* ... and writes it back, with the entry of the inode in its place.
UpdateWrite(p) ==
    /\ pc[p] = "update"
    /\ dir' = [s \in Slots |->
                  IF s = file[p] THEN EntryOf(inode[s])
                  ELSE IF SameSector(s, file[p]) THEN sector[p][s] ELSE dir[s]]
    /\ sector' = [sector EXCEPT ![p] = NoDir]
    /\ Unlock(p)
    /\ Return(p)
    /\ UNCHANGED <<fat, data, cached, dirLock, file>>

-----------------------------------------------------------------------------
(* Unlink.                                                                 *)

\* Mutant: an open file can be removed.
InUse_Never(s) == FALSE

InUse(s) == inode[s] # None

\* ... Unlink at the first that strncmp matches, unless it is in use (then -1 and nothing is changed).
Unlink(p, n) ==
    /\ pc[p] = "idle" /\ MayChange(p)
    /\ Matches(n, Prefixes) # {}
    /\ LET s == Min(Matches(n, Prefixes))
       IN /\ ~InUse(s)
          /\ slot' = [slot EXCEPT ![p] = s]
          /\ clus' = [clus EXCEPT ![p] = cached[s].start]
    /\ name' = [name EXCEPT ![p] = n]
    /\ Goto(p, "mark")
    /\ UNCHANGED <<diskVars, sector, dirLock, inode, file, at>>

MarkEntryDeleted(p) ==
    /\ pc[p] = "mark" /\ MayWriteDir
    /\ WriteDir(slot[p], None)
    /\ Goto(p, "unchain")
    /\ UNCHANGED <<fat, data, sector, dirLock, inode, file, name, slot, clus, at>>

FreeChain(p) ==
    /\ pc[p] = "unchain"
    /\ fat' = FreeClusterChain(clus[p])
    /\ data' = [c \in Clusters |-> IF fat'[c] = 0 THEN None ELSE data[c]]
    /\ Return(p)
    /\ UNCHANGED <<dir, cached, sector, dirLock, inode, file>>

-----------------------------------------------------------------------------
OpenStep(p) ==
    \/ \E n \in Names : OpenCreate(p, n) \/ Open(p, n)
    \/ CreateEntry(p) \/ NamexLock(p)
    \/ LookupFails(p) \/ LookupBuilds(p)
    \/ LookupFinds(p) \/ LookupSleeps(p) \/ LookupWakes(p)
    \/ Close(p) \/ Exit(p)

InodeStep(p) ==
    \/ \E k \in 0 .. MaxLen - 1 : Read(p, k) \/ Write(p, k) \/ WriteGrow(p, k)
    \/ \E v \in Values : WriteBlock(p, v)
    \/ ReadDone(p) \/ Grow(p) \/ UpdateRead(p) \/ UpdateWrite(p)

UnlinkStep(p) ==
    \/ \E n \in Names : Unlink(p, n)
    \/ MarkEntryDeleted(p) \/ FreeChain(p)

Next ==
    \/ Reload
    \/ \E p \in Procs : OpenStep(p) \/ InodeStep(p) \/ UnlinkStep(p)

Spec == Init /\ [][Next]_vars

-----------------------------------------------------------------------------
(* Properties.                                                             *)

\* The chains of two entries never meet and none has a free cluster: what is
\* allocated in one task's sleep is not taken by another.  The copy of the
\* directory in the cache may be old, but it has the same chains.
ChainsApart ==
    LET used == {s \in Slots : dir[s] # None}
        chain == [s \in used |-> Chain(dir[s].start)]
    IN /\ used = {s \in Slots : cached[s] # None}
       /\ \A s \in used :
             /\ \A c \in chain[s] : fat[c] # 0
             /\ cached[s].start = dir[s].start
             /\ {dir[s].size, cached[s].size} \subseteq 0 .. Cardinality(chain[s])
             /\ \A t \in used \ {s} : chain[s] \cap chain[t] = {}

\* No cluster is lost: one that is not free is in the chain of an entry, or
\* a process is about to link it or to free it.
NoClusterLost ==
    \A c \in Clusters : fat[c] # 0 =>
        \/ \E s \in Slots : dir[s] # None /\ c \in Chain(dir[s].start)
        \/ \E p \in Procs : pc[p] \in {"create", "grow", "unchain"} /\ c \in Chain(clus[p])

\* Every cluster of the FAT has one owner: an entry, a call, or the free list.
ClustersOwned == TypeOK /\ ChainsApart /\ NoClusterLost

\* The place bmap remembers is right, so the next call may start from it.
PlaceRemembered ==
    \A s \in Slots : inode[s] # None =>
        Follow(inode[s].start, inode[s].logi) = inode[s].clus

\* A read is given what was written to the file: neither the last contents of
\* a cluster that was allocated again, nor zeroes.
ReadsWritten ==
    \A p \in Procs : pc[p] = "read" => data[inode[file[p]].clus] # None

\* An open file keeps its inode, and the inode its entry: neither close nor
\* unlink of others takes them away.
OpenFilesAlive ==
    \A s \in Slots : Users(s) # {} =>
            /\ inode[s] # None /\ inode[s].ref >= Cardinality(Users(s))
            /\ dir[s] # None /\ dir[s].start = inode[s].start

\* The blocks a file has, written or not.
FileContent(s) ==
    IF dir[s] = None THEN None
    ELSE LET f == Path(dir[s].start)
         IN [k \in {j \in 1 .. MaxLen : f[j - 1] \in Clusters} |-> data[f[k - 1]]]

Contents == [s \in Slots |-> FileContent(s)]

\* The writes that have not reached their block.
Pending == [p \in Procs |-> IF pc[p] \in WritePcs THEN [file |-> file[p], at |-> at[p]]
                           ELSE None]

Store == INSTANCE FileStore
             WITH Clients <- Procs, Files <- Slots,
                  content <- Contents, pending <- Pending

\* A block of a file changes only by a write to it, and a file grows only at
\* its end, whatever happens to other files and to freed clusters.
FilesAreStore == Store!StoreSpec

\* GetInode: "if there is such an inode it returns it": the inode a process
\* was given is one that exists.
OpenHasInode == \A p \in Procs : file[p] # None => inode[file[p]] # None

\* UpdateInode updates "the data of the short entry of the file": the sector it
\* is about to write back holds the other entries as they are.
OwnEntryOnly ==
    \A p \in Procs : pc[p] = "update" =>
        \A s \in Slots \ {file[p]} :
            SameSector(s, file[p]) => sector[p][s] = dir[s]
=============================================================================
