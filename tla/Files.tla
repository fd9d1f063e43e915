-------------------------------- MODULE Files -------------------------------
(***************************************************************************)
(* c7file: calls of rewrite for one file, in one process or in several,    *)
(* and somebody who reads the file.  A system call is one step, writing    *)
(* contents two, a half each; a process may be killed between any two.  A  *)
(* name leads to an inode, and whoever has opened an inode keeps it when   *)
(* its name goes. Mode and owner of a file are left out.                   *)
(***************************************************************************)
EXTENDS Integers, Sequences, FiniteSets

CONSTANTS
    Calls,     \* the calls of rewrite; their number is what they write, 0 is what was there
    Overlap,   \* bound: calls at a time
    Prefixed,  \* those that are given a bck_prefix
    MaxTries   \* bound: the names .tmp.1, .tmp.2, ... that are tried

FilesAssumption ==
    /\ Calls \subseteq Nat \ {0} /\ Prefixed \subseteq Calls
    /\ Overlap \in Nat \ {0} /\ MaxTries \in Nat \ {0}

VARIABLES
    names,   \* names[f]: the inode of the file f, 0 when there is none
    inodes,  \* the contents of each inode that was ever made
    call,    \* call[w]: where it is, the number of its temporary file, its descriptor
    reader,  \* where read is, its descriptor, the size it was told, what it got
    last     \* history: what was put at path last

fileVars == <<names, inodes, call, reader, last>>

Path    == 0
Backup  == MaxTries + 1
Names   == 0 .. MaxTries + 1     \* 1 .. MaxTries are the temporary ones
Hole    == -1
Whole(w) == <<w, w>>
Contents(f) == inodes[names[f]]

InCall(w) == call[w].at \notin {"idle", "ok", "error", "killed"}
To(w, at) == call' = [call EXCEPT ![w].at = at]

FilesInit ==
    /\ names = [f \in Names |-> IF f = Path THEN 1 ELSE 0]
    /\ inodes = <<Whole(0)>>
    /\ call = [w \in Calls |-> [at |-> "idle", tmp |-> 0, fd |-> 0]]
    /\ reader = [at |-> "idle", fd |-> 0, size |-> 0, got |-> Whole(0)]
    /\ last = 0
-----------------------------------------------------------------------------
(* rewrite                                                                 *)

\* A name that is free leads to a new inode.
Create(f) ==
    /\ names' = [names EXCEPT ![f] = Len(inodes) + 1]
    /\ inodes' = Append(inodes, <<>>)

rewrite(w) ==
    /\ call[w].at = "idle"
    /\ Cardinality({v \in Calls : InCall(v)}) < Overlap
    /\ call' = [call EXCEPT ![w] = [@ EXCEPT !.at = "reserve", !.tmp = 1]]
    /\ UNCHANGED <<names, inodes, last>>

\* open with O_CREAT|O_EXCL of one name; the next one when it is there
reservetmp(w) ==
    /\ call[w].at = "reserve"
    /\ IF names[call[w].tmp] = 0
       THEN Create(call[w].tmp) /\ To(w, "write")
       ELSE /\ call[w].tmp < MaxTries
            /\ call' = [call EXCEPT ![w].tmp = @ + 1]
            /\ UNCHANGED <<names, inodes>>
    /\ UNCHANGED last

\* write opens the temporary file by its name, with O_CREAT|O_TRUNC.
write_open(w) ==
    LET tmp == call[w].tmp
    IN /\ call[w].at = "write"
       /\ IF names[tmp] = 0 THEN Create(tmp)
          ELSE inodes' = [inodes EXCEPT ![names[tmp]] = <<>>] /\ UNCHANGED names
       /\ call' = [call EXCEPT ![w] = [@ EXCEPT !.at = "first", !.fd = names'[tmp]]]
       /\ UNCHANGED last

\* The half k of the contents, at its offset in the inode
PutHalf(w, k) ==
    inodes' = [inodes EXCEPT ![call[w].fd] =
                 [j \in 1 .. (IF Len(@) > k THEN Len(@) ELSE k) |->
                    IF j = k THEN w ELSE IF j <= Len(@) THEN @[j] ELSE Hole]]

\* Mutant: a short write is taken for a write.
write_short(w) ==
    /\ \/ call[w].at = "first" /\ PutHalf(w, 1) /\ To(w, "second")
       \/ call[w].at = "second" /\ PutHalf(w, 2) /\ To(w, "backup")
       \/ call[w].at = "second" /\ UNCHANGED inodes /\ To(w, "backup")
    /\ UNCHANGED <<names, last>>
\* A disk that is full makes a short write of it, and rewrite an error.
write(w) ==
    /\ \/ call[w].at = "first" /\ PutHalf(w, 1) /\ To(w, "second")
       \/ call[w].at = "second" /\ PutHalf(w, 2) /\ To(w, "backup")
       \/ call[w].at = "second" /\ UNCHANGED inodes /\ To(w, "unlink_error")
    /\ UNCHANGED <<names, last>>

rename_backup(w) ==
    /\ call[w].at = "backup"
    /\ names' = IF w \in Prefixed /\ names[Path] # 0
                THEN [names EXCEPT ![Backup] = names[Path], ![Path] = 0] ELSE names
    /\ To(w, "rename")
    /\ UNCHANGED <<inodes, last>>

rename(w) ==
    LET tmp == call[w].tmp
    IN /\ call[w].at = "rename"
       /\ IF names[tmp] # 0
          THEN /\ names' = [names EXCEPT ![Path] = names[tmp], ![tmp] = 0]
               /\ last' = w
               /\ To(w, "unlink_ok")
          ELSE To(w, "unlink_error") /\ UNCHANGED <<names, last>>
       /\ UNCHANGED inodes

\* rmvtmp, on the way out: the name may be another's by now
unlink(w) ==
    /\ call[w].at \in {"unlink_ok", "unlink_error"}
    /\ names' = [names EXCEPT ![call[w].tmp] = 0]
    /\ To(w, IF call[w].at = "unlink_ok" THEN "ok" ELSE "error")
    /\ UNCHANGED <<inodes, last>>

\* The process of w is gone; what is in the directory stays.
kill(w) ==
    /\ InCall(w)
    /\ To(w, "killed")
    /\ UNCHANGED <<names, inodes, last>>
-----------------------------------------------------------------------------
(* read                                                                    *)

rx_open ==
    /\ reader.at = "idle"
    /\ names[Path] # 0
    /\ reader' = [reader EXCEPT !.at = "stat", !.fd = names[Path]]
rx_stat ==
    /\ reader.at = "stat"
    /\ reader' = [reader EXCEPT !.at = "read", !.size = Len(inodes[reader.fd])]
\* A read that gives less than was asked for is an error, and gives nothing.
rx_once ==
    /\ reader.at = "read"
    /\ reader' = [at |-> "idle", fd |-> 0, size |-> 0,
                  got |-> IF Len(inodes[reader.fd]) >= reader.size
                          THEN SubSeq(inodes[reader.fd], 1, reader.size) ELSE reader.got]

FilesNext ==
    \/ \E w \in Calls :
         /\ \/ rewrite(w) \/ reservetmp(w) \/ write_open(w) \/ write(w)
            \/ rename_backup(w) \/ rename(w) \/ unlink(w) \/ kill(w)
         /\ UNCHANGED reader
    \/ (rx_open \/ rx_stat \/ rx_once) /\ UNCHANGED <<names, inodes, call, last>>
-----------------------------------------------------------------------------
\* Whoever looks at path or at the backup, or reads, finds one version, whole.
VersionsAreWhole ==
    /\ \A f \in {Path, Backup} : names[f] # 0 => Contents(f) \in {Whole(w) : w \in Calls \cup {0}}
    /\ reader.got \in {Whole(w) : w \in Calls \cup {0}}

\* Killed or not, what was put last is at path, or path is gone and it is the backup.
LastIsThere ==
    IF names[Path] # 0 THEN Contents(Path) = Whole(last)
    ELSE names[Backup] # 0 /\ Contents(Backup) = Whole(last)

\* A call that fails has put its contents nowhere, and only one that is killed leaves a
\* temporary file behind.
FailureIsClean ==
    /\ \A u \in 1 .. MaxTries : names[u] # 0 => \E w \in Calls : call[w].tmp = u /\ call[w].at \notin {"idle", "ok", "error"}
    /\ \A w \in Calls : call[w].at = "error" =>
         \A f \in {Path, Backup} : names[f] # 0 => Whole(w) # Contents(f)
=============================================================================
