--------------------------------- MODULE Fs ---------------------------------
(***************************************************************************)
(* Inodes and names: iget, ilock, iput, ialloc, dirlookup, dirlink and      *)
(* namex (fs.c) under open, mkdir, link, unlink, chdir and close            *)
(* (sysfile.c, file.c).                                                     *)
(*                                                                         *)
(* A step is what a call does from one ilock, or one icache.lock, to the    *)
(* next.  The inode cache is write-through, so an inode on the disk and its *)
(* cached copy are one; module Log shows that a call is atomic on the disk. *)
(***************************************************************************)
EXTENDS Integers, Sequences, FiniteSets

CONSTANTS
  Proc,     \* processes
  Inode,    \* the inodes of the disk
  Root,     \* ROOTINO
  Name,     \* names of directory entries
  Calls,    \* the calls processes make, with one path or, link, with two;
            \* a path is a sequence of names, after "/" if it is absolute
  MaxLinks, \* bound: the nlink up to which link is called
  None      \* no inode, no process

Dots == {".", ".."}
Op == {"open", "create", "mkdir", "unlink", "chdir", "link"}

\* skipelem: only a "/" in front counts.
Paths == {s \in Seq(Name \cup {"/"}) : \A n \in 2 .. Len(s) : s[n] # "/"}
Absolute(path) == path # <<>> /\ Head(path) = "/"

ASSUME FsAssumption ==
  /\ IsFiniteSet(Proc) /\ IsFiniteSet(Inode) /\ IsFiniteSet(Name)
  /\ Root \in Inode /\ None \notin Inode \cup Proc
  /\ Dots \subseteq Name /\ "/" \notin Name
  /\ \A c \in Calls : c.op \in Op /\ {c.path, c.new} \subseteq Paths

VARIABLES
  type,     \* inode.type: "free", "file" or "dir"
  nlink,    \* inode.nlink
  entry,    \* the entries of a directory: the inode of each name, or None
  ref,      \* inode.ref
  valid,    \* the inodes whose cached copy was read from the disk
  lock,     \* who has inode.lock
  pc,       \* where a process is
  fr,       \* the locals of its call
  fd,       \* its open file (NOFILE = 1)
  cwd,      \* proc.cwd
  panicked  \* the message of panic(), or "no"

disk == <<type, nlink, entry>>
cache == <<ref, valid>>
files == <<fd, cwd>>
vars == <<type, nlink, entry, ref, valid, lock, pc, fr, fd, cwd, panicked>>

Points == {"user", "walk", "at", "exists", "made", "unlink", "unlink_full", "unlinked",
           "link_dup", "link_bad", "linked", "put", "drop"}

\* k: the element of path to look up next; new: the second path of link.  ip, dp, old
\* (of link, while it looks for the new name) and put (the argument of iput): the
\* inodes the call has references to.  then: where iput returns.
NoCall == [op |-> "none", path |-> <<>>, k |-> 1, new |-> <<>>, ip |-> None, dp |-> None,
           old |-> None, put |-> None, then |-> "user"]

NoEntries == [n \in Name |-> None]

\* mkfs made the root directory, and every process is in it.
Init ==
  /\ type = [i \in Inode |-> IF i = Root THEN "dir" ELSE "free"]
  /\ nlink = [i \in Inode |-> IF i = Root THEN 1 ELSE 0]
  /\ entry = [i \in Inode |-> [n \in Name |-> IF i = Root /\ n \in Dots THEN Root ELSE None]]
  /\ ref = [i \in Inode |-> IF i = Root THEN Cardinality(Proc) ELSE 0]
  /\ valid = {}
  /\ lock = [i \in Inode |-> None]
  /\ pc = [p \in Proc |-> "user"]
  /\ fr = [p \in Proc |-> NoCall]
  /\ fd = [p \in Proc |-> None]
  /\ cwd = [p \in Proc |-> Root]
  /\ panicked = "no"

-----------------------------------------------------------------------------
(* Locks and references.                                                   *)

Goto(p, point) == pc' = [pc EXCEPT ![p] = point]
Return(p) == Goto(p, "user") /\ fr' = [fr EXCEPT ![p] = NoCall]

\* iget, idup
Got(i) == [ref EXCEPT ![i] = @ + 1]

\* The inode whose lock the call needs for its next step.
Wanted(p) ==
  CASE pc[p] \in {"walk", "exists", "unlink"} -> fr[p].ip
    [] pc[p] = "at" -> IF fr[p].dp = None THEN fr[p].ip ELSE fr[p].dp
    [] pc[p] = "link_bad" -> fr[p].old
    [] pc[p] = "put" -> fr[p].put
    [] OTHER -> None

\* ilock(i) returns: nobody has the lock, and the inode is in use.
Ilock(i) ==
  /\ lock[i] = None /\ type[i] # "free"
  /\ valid' = valid \cup {i}

\* ilock panics on an inode that is free on the disk.
IlockPanic(p) ==
  /\ Wanted(p) # None /\ pc[p] # "put"
  /\ lock[Wanted(p)] = None /\ type[Wanted(p)] = "free"
  /\ panicked' = "ilock: no type"
  /\ UNCHANGED <<disk, cache, lock, pc, fr, files>>

\* iput(i) with the locals f, and go on at the given point.
Iput(p, i, f, point) ==
  /\ fr' = [fr EXCEPT ![p] = [f EXCEPT !.put = i, !.then = point]]
  /\ Goto(p, "put")

AnyRef(i) == TRUE

\* The test r == 1: nobody else has a pointer to the inode.
OnlyRef(i) == ref[i] = 1

\* With ip->lock: without links and other references, truncate and free.
IputFree(p) ==
  LET i == fr[p].put
      last == i \in valid /\ nlink[i] = 0 /\ OnlyRef(i)
  IN  /\ pc[p] = "put" /\ lock[i] = None
      /\ type' = [type EXCEPT ![i] = IF last THEN "free" ELSE @]
      /\ entry' = [entry EXCEPT ![i] = IF last THEN NoEntries ELSE @]
      /\ valid' = IF last THEN valid \ {i} ELSE valid
      /\ Goto(p, "drop")
      /\ UNCHANGED <<nlink, ref, lock, fr, files, panicked>>

\* ip->ref--; a cache entry without references is recycled.
IputDrop(p) ==
  LET i == fr[p].put
  IN  /\ pc[p] = "drop"
      /\ ref' = [ref EXCEPT ![i] = @ - 1]
      /\ valid' = IF ref[i] = 1 THEN valid \ {i} ELSE valid
      /\ IF fr[p].then = "user"
           THEN Return(p)
           ELSE Goto(p, fr[p].then) /\ fr' = [fr EXCEPT ![p].put = None, ![p].then = "user"]
      /\ UNCHANGED <<disk, lock, files, panicked>>

-----------------------------------------------------------------------------
(* namex                                                                   *)

\* nameiparent, not namei
WantsParent(op) == op \in {"create", "mkdir", "unlink", "link2"}

\* Where a call goes on after a lookup that failed: link undoes its count.
Failed(op) == IF op = "link2" THEN "link_bad" ELSE "user"

\* The start of namex(path), with the locals f.
Namex(p, path, f) ==
  LET start == IF Absolute(path) THEN Root ELSE cwd[p]
      rest == IF Absolute(path) THEN Tail(path) ELSE path
  IN  /\ ref' = Got(start)
      /\ IF rest = <<>> /\ WantsParent(f.op)
           THEN Iput(p, start, f, Failed(f.op))
           ELSE /\ fr' = [fr EXCEPT ![p] = [f EXCEPT !.path = rest, !.k = 1, !.ip = start]]
                /\ Goto(p, IF rest = <<>> THEN "at" ELSE "walk")

\* The name to look up next.
Elem(f) == f.path[f.k]

\* One element of the path, with ilock(ip).
Walk(p) ==
  LET f == fr[p]
      next == entry[f.ip][Elem(f)]
      last == f.k = Len(f.path)
      stop == WantsParent(f.op) /\ last
      found == type[f.ip] = "dir" /\ next # None
  IN  /\ pc[p] = "walk" /\ Ilock(f.ip)
      /\ \/ /\ type[f.ip] = "dir" /\ stop
            /\ fr' = [fr EXCEPT ![p].dp = f.ip, ![p].ip = None]
            /\ Goto(p, "at")
            /\ UNCHANGED ref
         \/ /\ ~stop /\ found
            /\ ref' = Got(next)
            /\ Iput(p, f.ip, [f EXCEPT !.ip = next, !.k = @ + 1],
                    IF last THEN "at" ELSE "walk")
         \/ /\ ~(type[f.ip] = "dir" /\ stop) /\ ~(~stop /\ found)
            /\ Iput(p, f.ip, [f EXCEPT !.ip = None], Failed(f.op))
            /\ UNCHANGED ref
      /\ UNCHANGED <<disk, lock, files, panicked>>

Call(p, c) ==
  /\ pc[p] = "user"
  /\ Namex(p, c.path, [NoCall EXCEPT !.op = c.op, !.new = c.new])
  /\ UNCHANGED <<disk, valid, lock, files, panicked>>

-----------------------------------------------------------------------------
(* open and close, chdir                                                   *)

\* filealloc and fdalloc, and f->ip = ip.
OpenFile(p, i) ==
  /\ fd[p] = None
  /\ fd' = [fd EXCEPT ![p] = i]
  /\ Return(p)

FailsWithoutIput(p, i) == Return(p) /\ UNCHANGED fd

\* The descriptor or a file table entry is missing, or a directory was to be
\* opened for writing.
OpenFails(p, i) == Iput(p, i, [fr[p] EXCEPT !.ip = None], "user") /\ UNCHANGED fd

Open(p) ==
  /\ pc[p] = "at" /\ fr[p].op = "open"
  /\ Ilock(fr[p].ip)
  /\ OpenFile(p, fr[p].ip) \/ OpenFails(p, fr[p].ip)
  /\ UNCHANGED <<disk, ref, lock, cwd, panicked>>

Close(p) ==
  /\ pc[p] = "user" /\ fd[p] # None
  /\ fd' = [fd EXCEPT ![p] = None]
  /\ Iput(p, fd[p], NoCall, "user")
  /\ UNCHANGED <<disk, cache, lock, cwd, panicked>>

Chdir(p) ==
  LET i == fr[p].ip
  IN  /\ pc[p] = "at" /\ fr[p].op = "chdir" /\ Ilock(i)
      /\ cwd' = [cwd EXCEPT ![p] = IF type[i] = "dir" THEN i ELSE @]
      /\ Iput(p, IF type[i] = "dir" THEN cwd[p] ELSE i, [fr[p] EXCEPT !.ip = None], "user")
      /\ UNCHANGED <<disk, ref, lock, fd, panicked>>

-----------------------------------------------------------------------------
(* create, for open with O_CREATE and for mkdir                            *)

OwnParent(op, i, dp) ==
  IF op = "mkdir" THEN [NoEntries EXCEPT !["."] = i, ![".."] = i] ELSE NoEntries

\* The entries of a new directory are "." and "..".
NewEntries(op, i, dp) ==
  IF op = "mkdir" THEN [NoEntries EXCEPT !["."] = i, ![".."] = dp] ELSE NoEntries

\* The links a new inode brings to its parent: ".." of a directory.
NewLinks(op) == IF op = "mkdir" THEN 1 ELSE 0

\* With ilock(dp): the name exists, or an inode is allocated and named.
Create(p) ==
  LET f == fr[p]
      next == entry[f.dp][Elem(f)]
  IN  /\ pc[p] = "at" /\ f.op \in {"create", "mkdir"} /\ lock[f.dp] = None
      /\ \/ /\ next # None
            /\ ref' = Got(next)
            /\ valid' = valid \cup {f.dp}
            /\ Iput(p, f.dp, [f EXCEPT !.ip = next, !.k = @ + 1, !.dp = None], "exists")
            /\ UNCHANGED <<disk, lock>>
         \/ \E i \in Inode :
              /\ next = None /\ type[i] = "free" /\ lock[i] = None
              /\ type' = [type EXCEPT ![i] = IF f.op = "mkdir" THEN "dir" ELSE "file"]
              /\ nlink' = [nlink EXCEPT ![i] = 1, ![f.dp] = @ + NewLinks(f.op)]
              /\ entry' = [entry EXCEPT ![i] = NewEntries(f.op, i, f.dp), ![f.dp][Elem(f)] = i]
              /\ ref' = Got(i)
              /\ valid' = valid \cup {f.dp, i}
              /\ lock' = [lock EXCEPT ![i] = p]
              /\ Iput(p, f.dp, [f EXCEPT !.ip = i, !.dp = None], "made")
      /\ UNCHANGED <<files, panicked>>

IallocPanic(p) ==
  /\ pc[p] = "at" /\ fr[p].op \in {"create", "mkdir"} /\ lock[fr[p].dp] = None
  /\ entry[fr[p].dp][Elem(fr[p])] = None
  /\ \A i \in Inode : type[i] # "free"
  /\ panicked' = "ialloc: no inodes"
  /\ UNCHANGED <<disk, cache, lock, pc, fr, files>>

\* ilock of what has the name already: only open takes it, and only a file.
Exists(p) ==
  LET i == fr[p].ip
  IN  /\ pc[p] = "exists" /\ Ilock(i)
      /\ \/ fr[p].op = "create" /\ type[i] = "file" /\ OpenFile(p, i)
         \/ OpenFails(p, i)
      /\ UNCHANGED <<disk, ref, lock, cwd, panicked>>

\* create returned the new inode, locked.
Made(p) ==
  LET i == fr[p].ip
  IN  /\ pc[p] = "made"
      /\ lock' = [lock EXCEPT ![i] = None]
      /\ \/ fr[p].op = "create" /\ OpenFile(p, i)
         \/ OpenFails(p, i)
      /\ UNCHANGED <<disk, cache, cwd, panicked>>

-----------------------------------------------------------------------------
(* unlink                                                                  *)

\* With ilock(dp), which it keeps to lock ip.
Unlink(p) ==
  LET f == fr[p]
      next == entry[f.dp][Elem(f)]
  IN  /\ pc[p] = "at" /\ f.op = "unlink" /\ Ilock(f.dp)
      /\ IF Elem(f) \in Dots \/ next = None
           THEN /\ Iput(p, f.dp, [f EXCEPT !.dp = None], "user")
                /\ UNCHANGED <<ref, lock>>
           ELSE /\ ref' = Got(next)
                /\ lock' = [lock EXCEPT ![f.dp] = p]
                /\ fr' = [fr EXCEPT ![p].ip = next]
                /\ Goto(p, "unlink")
      /\ UNCHANGED <<disk, files, panicked>>

IsDirEmpty(i) == \A n \in Name \ Dots : entry[i][n] = None

\* With ilock(ip): clear the entry, unlock dp and put it, with ip locked.
UnlinkEntry(p) ==
  LET f == fr[p]
  IN  /\ pc[p] = "unlink" /\ Ilock(f.ip)
      /\ panicked' = IF nlink[f.ip] < 1 THEN "unlink: nlink < 1" ELSE panicked
      /\ IF type[f.ip] = "dir" /\ ~IsDirEmpty(f.ip)
           THEN /\ Iput(p, f.ip, [f EXCEPT !.ip = None], "unlink_full")
                /\ UNCHANGED <<disk, lock>>
           ELSE /\ entry' = [entry EXCEPT ![f.dp][Elem(f)] = None]
                /\ nlink' = [nlink EXCEPT ![f.dp] = IF type[f.ip] = "dir" THEN @ - 1 ELSE @]
                /\ lock' = [lock EXCEPT ![f.dp] = None, ![f.ip] = p]
                /\ Iput(p, f.dp, [f EXCEPT !.dp = None], "unlinked")
                /\ UNCHANGED type
      /\ UNCHANGED <<ref, files>>

\* The directory was not empty: iunlockput(dp).
UnlinkFull(p) ==
  /\ pc[p] = "unlink_full"
  /\ lock' = [lock EXCEPT ![fr[p].dp] = None]
  /\ Iput(p, fr[p].dp, [fr[p] EXCEPT !.dp = None], "user")
  /\ UNCHANGED <<disk, cache, files, panicked>>

Unlinked(p) ==
  /\ pc[p] = "unlinked"
  /\ nlink' = [nlink EXCEPT ![fr[p].ip] = @ - 1]
  /\ lock' = [lock EXCEPT ![fr[p].ip] = None]
  /\ Iput(p, fr[p].ip, [fr[p] EXCEPT !.ip = None], "user")
  /\ UNCHANGED <<type, entry, cache, files, panicked>>

-----------------------------------------------------------------------------
(* link                                                                    *)

Counted(i) == [nlink EXCEPT ![i] = @ + 1]

\* With ilock(ip): count the new name, and look for its directory.
Link(p) ==
  LET f == fr[p]
  IN  /\ pc[p] = "at" /\ f.op = "link" /\ Ilock(f.ip)
      /\ \/ /\ type[f.ip] = "dir"
            /\ Iput(p, f.ip, [f EXCEPT !.ip = None], "user")
            /\ UNCHANGED <<nlink, ref>>
         \/ /\ type[f.ip] # "dir" /\ nlink[f.ip] < MaxLinks
            /\ nlink' = Counted(f.ip)
            /\ Namex(p, f.new, [f EXCEPT !.op = "link2", !.old = f.ip, !.ip = None])
      /\ UNCHANGED <<type, entry, lock, files, panicked>>

\* With ilock(dp): dirlink, which puts an inode that has the name already.
Dirlink(p) ==
  LET f == fr[p]
      next == entry[f.dp][Elem(f)]
  IN  /\ pc[p] = "at" /\ f.op = "link2" /\ Ilock(f.dp)
      /\ \/ /\ next # None
            /\ ref' = Got(next)
            /\ lock' = [lock EXCEPT ![f.dp] = p]
            /\ Iput(p, next, f, "link_dup")
            /\ UNCHANGED entry
         \/ /\ next = None
            /\ entry' = [entry EXCEPT ![f.dp][Elem(f)] = f.old]
            /\ Iput(p, f.dp, [f EXCEPT !.dp = None], "linked")
            /\ UNCHANGED <<ref, lock>>
      /\ UNCHANGED <<type, nlink, files, panicked>>

LinkDup(p) ==
  /\ pc[p] = "link_dup"
  /\ lock' = [lock EXCEPT ![fr[p].dp] = None]
  /\ Iput(p, fr[p].dp, [fr[p] EXCEPT !.dp = None], "link_bad")
  /\ UNCHANGED <<disk, cache, files, panicked>>

Linked(p) ==
  /\ pc[p] = "linked"
  /\ Iput(p, fr[p].old, [fr[p] EXCEPT !.old = None], "user")
  /\ UNCHANGED <<disk, cache, lock, files, panicked>>

\* bad: the count of the name that was not made.
LinkBad(p) ==
  /\ pc[p] = "link_bad" /\ Ilock(fr[p].old)
  /\ nlink' = [nlink EXCEPT ![fr[p].old] = @ - 1]
  /\ Iput(p, fr[p].old, [fr[p] EXCEPT !.old = None], "user")
  /\ UNCHANGED <<type, entry, ref, lock, files, panicked>>

-----------------------------------------------------------------------------

Step(p) ==
  \/ Walk(p) \/ IputFree(p) \/ IputDrop(p)
  \/ Open(p) \/ Chdir(p)
  \/ Create(p) \/ Exists(p) \/ Made(p)
  \/ Unlink(p) \/ UnlinkEntry(p) \/ UnlinkFull(p) \/ Unlinked(p)
  \/ Link(p) \/ Dirlink(p) \/ LinkDup(p) \/ Linked(p) \/ LinkBad(p)

Panic(p) == IlockPanic(p) \/ IallocPanic(p)

Next == panicked = "no" /\ \E p \in Proc :
  (\E c \in Calls : Call(p, c)) \/ Close(p) \/ Step(p) \/ Panic(p)

Spec == Init /\ [][Next]_vars

-----------------------------------------------------------------------------
(* Properties                                                              *)

\* Types; link and reference counts never go below zero.
TypeOK ==
  /\ type \in [Inode -> {"free", "file", "dir"}]
  /\ nlink \in [Inode -> Nat] /\ ref \in [Inode -> Nat]
  /\ entry \in [Inode -> [Name -> Inode \cup {None}]]
  /\ valid \subseteq Inode
  /\ lock \in [Inode -> Proc \cup {None}]
  /\ pc \in [Proc -> Points]
  /\ \A p \in Proc : /\ DOMAIN fr[p] = DOMAIN NoCall
                     /\ fr[p].op \in Op \cup {"link2", "none"} /\ fr[p].then \in Points
                     /\ {fr[p].ip, fr[p].dp, fr[p].old, fr[p].put} \subseteq Inode \cup {None}
  /\ fd \in [Proc -> Inode \cup {None}] /\ cwd \in [Proc -> Inode]
  /\ panicked \in {"no", "ilock: no type", "ialloc: no inodes", "unlink: nlink < 1"}

\* The directory entries that name an inode, and the subdirectories it names.
Names(i) == {e \in Inode \X (Name \ Dots) : entry[e[1]][e[2]] = i}
Subdirs(i) == {n \in Name \ Dots : entry[i][n] # None /\ type[entry[i][n]] = "dir"}

\* nlink covers the names of an inode, and the ".." of its subdirectories, at
\* every point of calls that link and unlink it at the same time.
LinksCounted == \A i \in Inode : nlink[i] >= Cardinality(Names(i)) + Cardinality(Subdirs(i))

\* fs.c:402, itrunc is "only called when the inode has no links to it ... and has
\* no in-memory reference to it": what has a name, or is an open file or current
\* directory, is not freed, however the calls that put it interleave.
InUse ==
  \A i \in Inode : type[i] = "free" =>
    Names(i) = {} /\ \A p \in Proc : fd[p] # i /\ cwd[p] # i

\* Names and link counts agree, and nothing that is in use is freed.
NamesSound == TypeOK /\ LinksCounted /\ InUse

\* Directories form a tree: a directory has one name, and its ".." is where that
\* name is.  A "." is the directory itself.
TreeOfDirectories ==
  \A c \in Inode : type[c] = "dir" =>
    /\ \A e \in Names(c) : entry[c][".."] = e[1]
    /\ Cardinality(Names(c)) <= 1
    /\ entry[c]["."] = c

\* Who has a reference to an inode: files, current directories, and calls.
Holders(i) ==
  {h \in Proc \X {"fd", "cwd", "ip", "dp", "old", "put"} :
     i = CASE h[2] = "fd" -> fd[h[1]] [] h[2] = "cwd" -> cwd[h[1]] [] OTHER -> fr[h[1]][h[2]]}

\* Every reference is somebody's: no path through a call, its error returns
\* included, loses a reference or gives one back twice.
RefsAccounted == \A i \in Inode : ref[i] = Cardinality(Holders(i))

\* A call returns without the locks it took.
LocksReleased == \A i \in Inode : lock[i] # None => pc[lock[i]] # "user"

\* A lookup finds inodes that are in use, also when the directory or the inode
\* is removed at the same time, and unlink never meets its panic "nlink < 1".
\* The exception is ".." of a removed directory.
LookupFindsLive ==
  /\ panicked # "unlink: nlink < 1"
  /\ \A p \in Proc :
       fr[p].ip # None /\ type[fr[p].ip] = "free" =>
         fr[p].k > 1 /\ fr[p].path[fr[p].k - 1] = ".."

\* Lookups walk a tree of live directories.
TreeWalked == TreeOfDirectories /\ LookupFindsLive

\* Calls give back what they took, on every return.
GivenBack == RefsAccounted /\ LocksReleased
=============================================================================
