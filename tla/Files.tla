------------------------------- MODULE Files -------------------------------
(***************************************************************************)
(* The guest's file names: the VFS (internal/vfs/fs.go) and the calls of   *)
(* the kernel that take a path (mkdir, unlink, rename, open and chdir of   *)
(* internal/kernel/syscall.go), on a host directory tree that these calls  *)
(* change.                                                                 *)
(*                                                                         *)
(* A path is a sequence of names, the root directory the empty one.  A     *)
(* name as a guest writes it, or as a link holds it, is a record with its  *)
(* parts, which may be "..", and whether it starts with a slash.  tree     *)
(* maps the host paths below FS.Root that exist to what is there.  Links   *)
(* come with the installed root: no call makes one.                        *)
(***************************************************************************)
EXTENDS Naturals, Sequences, Functions

CONSTANTS
    Name,       \* the names of directory entries
    MaxDepth,   \* bound: the length of a path
    MaxHops,    \* 40: how often Resolve starts again
    Virtual,    \* the paths of mounted virtual files
    Outside,    \* the paths that exist on the host outside the root
    Trees,      \* the installed roots to start from
    Written     \* the names guests use in calls

VARIABLES
    tree,       \* the files below FS.Root
    cwd,        \* Kernel.cwd, a clean absolute path
    call        \* the call just made and its outcome (history)

fvars == <<tree, cwd, call>>

Part == Name \cup {".."}
Path == UNION {[1..n -> Name] : n \in 0..MaxDepth}
Text(part) == [abs : BOOLEAN, parts : UNION {[1..n -> part] : n \in 0..MaxDepth}]

Dir == [kind |-> "dir"]
File(d) == [kind |-> "file", data |-> d]
Link(t) == [kind |-> "link", to |-> t]

ASSUME FilesAssumption ==
    /\ ".." \notin Name
    /\ MaxDepth \in Nat /\ MaxHops \in Nat \ {0}
    /\ Virtual \subseteq Path /\ Outside \subseteq Path
    /\ Written \subseteq Text(Part)

-----------------------------------------------------------------------------
(* The directory of a path, and whether p is q or a directory above it.    *)
Parent(p) == SubSeq(p, 1, Len(p) - 1)
Above(p, q) == Len(p) <= Len(q) /\ SubSeq(q, 1, Len(p)) = p

(* clean and path.Join: ".." is taken back in the text, links or not.      *)
Joined(p, s) == IF s # ".." THEN Append(p, s) ELSE IF p = <<>> THEN p ELSE Parent(p)

clean(parts) ==
    LET done[k \in 0..Len(parts)] == IF k = 0 THEN <<>> ELSE Joined(done[k - 1], parts[k])
    IN  done[Len(parts)]

validate(n) == n.abs => ".." \notin Range(n.parts)

(* Kernel.guestPath, then clean: a relative name continues the directory   *)
(* the guest is in.                                                        *)
guestPath(n) == clean(IF n.abs THEN n.parts ELSE cwd \o n.parts)

Is(t, p, kind) == p \in DOMAIN t /\ t[p].kind = kind
Children(t, p) == {q \in DOMAIN t : q # <<>> /\ Parent(q) = p}

(* Walking a path the way an operating system does: at is a directory or   *)
(* file reached without a link, parts is what is left to walk.  A link is  *)
(* followed unless it is the last part and last is FALSE.  An absolute     *)
(* target starts again at the root of the guest, or of the host when       *)
(* inside is FALSE: what exists there counts as found and as no link.      *)
Walk(t, start, names, hops, last, inside) ==
    LET walk[at \in Seq(Part), parts \in Seq(Part), links \in 0..MaxHops] ==
            IF parts = <<>> THEN [found |-> TRUE, at |-> at]
            ELSE LET s == Head(parts)
                     rest == Tail(parts)
                     q == Append(at, s)
                     target == t[q].to
                 IN  IF t[at].kind = "file" THEN [found |-> FALSE, why |-> "notdir"]
                     ELSE IF s = ".." THEN walk[Joined(at, s), rest, links]
                     ELSE IF q \notin DOMAIN t
                          THEN [found |-> FALSE, why |-> IF rest = <<>> THEN "entry" ELSE "missing", at |-> q]
                     ELSE IF t[q].kind # "link" THEN walk[q, rest, links]
                     ELSE IF rest = <<>> /\ ~last THEN [found |-> TRUE, at |-> q]
                     ELSE IF links = 0 THEN [found |-> FALSE, why |-> "loop"]
                     ELSE IF target.abs /\ ~inside
                          THEN IF clean(target.parts \o rest) \in Outside THEN [found |-> TRUE, at |-> <<>>]
                               ELSE [found |-> FALSE, why |-> "missing"]
                     ELSE walk[IF target.abs THEN <<>> ELSE at, target.parts \o rest, links - 1]
    IN  walk[start, names, hops]

(* os.Lstat of a path below FS.Root: the host follows all links but the    *)
(* last, absolute ones out of the root.                                    *)
Lstat(t, p) == Walk(t, <<>>, p, MaxHops, FALSE, FALSE)
Missing(x) == ~x.found /\ x.why \in {"entry", "missing"}

-----------------------------------------------------------------------------
(* What Resolve does with a link at the i-th part of guest: the path to    *)
(* start again with, or an error.  An absolute target that exists only     *)
(* outside the root is refused.                                            *)
Error == [ok |-> FALSE]
Ok(p) == [ok |-> TRUE, path |-> p]

(* Mutant: a relative target continues the link, not its directory.        *)
FollowBeside(t, guest, i) ==
    LET target == t[SubSeq(guest, 1, i)].to
        rest == SubSeq(guest, i + 1, Len(guest))
    IN  Ok(clean((IF target.abs THEN <<>> ELSE SubSeq(guest, 1, i)) \o target.parts \o rest))

Follow(t, guest, i) ==
    LET target == t[SubSeq(guest, 1, i)].to
        rest == SubSeq(guest, i + 1, Len(guest))
        there == Lstat(t, clean(target.parts))
    IN  IF ~target.abs THEN Ok(clean(SubSeq(guest, 1, i - 1) \o target.parts \o rest))
        ELSE IF there.found \/ (Missing(there) /\ clean(target.parts) \notin Outside)
             THEN Ok(clean(target.parts) \o rest)
        ELSE Error

(* Resolve: the first part that is missing ends the walk, the path then    *)
(* stays as it is; a part below a file is an error of Lstat; at a link the *)
(* walk starts again, MaxHops times in all.                                *)
Resolve(t, path) ==
    LET from[guest \in Seq(Part), hops \in 0..MaxHops] ==
            LET prefix(i) == SubSeq(guest, 1, i)
                stops == {i \in 1..Len(guest) : prefix(i) \notin DOMAIN t \/ t[prefix(i)].kind = "link"}
                i == CHOOSE k \in stops : \A j \in stops : k <= j
            IN  IF hops = 0 THEN Error
                ELSE IF stops = {} THEN Ok(guest)
                ELSE IF prefix(i) \in DOMAIN t
                     THEN LET next == Follow(t, guest, i)
                          IN  IF next.ok THEN from[next.path, hops - 1] ELSE Error
                ELSE IF Is(t, prefix(i - 1), "file") THEN Error
                ELSE Ok(guest)
    IN  from[path, MaxHops]

(* virtualPath: only a link at the end of the path is followed, in the     *)
(* text, until a mounted name or no link is there.                         *)
virtualPath(t, path) ==
    LET from[guest \in Seq(Part), hops \in 0..MaxHops] ==
            LET here == Lstat(t, guest) IN
            IF hops = 0 THEN Error
            ELSE IF guest \in Virtual THEN Ok(guest)
            ELSE IF ~here.found THEN IF Missing(here) THEN Ok(guest) ELSE Error
            ELSE IF t[here.at].kind # "link" THEN Ok(guest)
            ELSE LET target == t[here.at].to
                 IN  from[clean(IF target.abs THEN target.parts ELSE Parent(guest) \o target.parts), hops - 1]
    IN  from[path, MaxHops]

IsVirtual(t, guest) == virtualPath(t, guest).ok /\ virtualPath(t, guest).path \in Virtual

Nothing == [kind |-> "none"]

(* Mutant: the last link of the path is not followed.                      *)
StatLink(t, guest) ==
    LET here == Lstat(t, guest) IN
    IF IsVirtual(t, guest) THEN [kind |-> "virtual"]
    ELSE IF here.found THEN t[here.at] ELSE Nothing

(* Stat: a virtual file, a directory above one, or what Resolve leads to.  *)
Stat(t, guest) ==
    LET r == Resolve(t, guest) IN
    IF IsVirtual(t, guest) THEN [kind |-> "virtual"]
    ELSE IF ~virtualPath(t, guest).ok THEN Nothing
    ELSE IF \E v \in Virtual : guest # v /\ Above(guest, v) THEN Dir
    ELSE IF r.ok /\ r.path \in DOMAIN t THEN t[r.path] ELSE Nothing

-----------------------------------------------------------------------------
(* A call with the name n returns; made is the kind of entry it created.   *)
Returns(n, ok, made) == call' = [path |-> guestPath(n), ok |-> ok, made |-> made]
Fails(n) == Returns(n, FALSE, "none") /\ UNCHANGED <<tree, cwd>>

(* The host path a call works on; the host calls below follow no link,     *)
(* because Resolve has left none.                                          *)
Target(n) == IF validate(n) THEN Resolve(tree, guestPath(n)) ELSE Error

(* An entry can be made at p.                                              *)
Room(p) == p # <<>> /\ p \notin DOMAIN tree /\ Is(tree, Parent(p), "dir") /\ Len(p) <= MaxDepth

With(p, node) == [q \in DOMAIN tree \cup {p} |-> IF q = p THEN node ELSE tree[q]]

mkdir(n) ==
    LET r == Target(n) IN
    IF r.ok /\ Room(r.path)
    THEN /\ tree' = With(r.path, Dir)
         /\ Returns(n, TRUE, "dir")
         /\ UNCHANGED cwd
    ELSE Fails(n)

(* os.Remove takes files and empty directories.                            *)
unlink(n) ==
    LET r == Target(n) IN
    IF r.ok /\ r.path \in DOMAIN tree /\ Children(tree, r.path) = {}
    THEN /\ tree' = [q \in DOMAIN tree \ {r.path} |-> tree[q]]
         /\ Returns(n, TRUE, "none")
         /\ UNCHANGED cwd
    ELSE Fails(n)

(* os.Rename: never onto a directory, a directory never onto a file or     *)
(* into itself.                                                            *)
Movable(p, q) ==
    /\ p \in DOMAIN tree
    /\ \/ Room(q) /\ ~Above(p, q)
       \/ Is(tree, p, "file") /\ Is(tree, q, "file")

MovedTo(p, q) ==
    LET below == {x \in DOMAIN tree : Above(p, x)}
        new(x) == q \o SubSeq(x, Len(p) + 1, Len(x))
        old(y) == CHOOSE x \in below : new(x) = y
        moved == {new(x) : x \in below}
    IN  [y \in (DOMAIN tree \ below) \cup moved |-> IF y \in moved THEN tree[old(y)] ELSE tree[y]]

rename(n, m) ==
    LET r == Target(n)
        s == Target(m)
    IN  IF r.ok /\ s.ok /\ Movable(r.path, s.path)
        THEN /\ tree' = MovedTo(r.path, s.path)
             /\ \A x \in DOMAIN tree' : Len(x) <= MaxDepth
             /\ Returns(m, TRUE, "none")
             /\ UNCHANGED cwd
        ELSE Fails(n)

(* open: a virtual file, else what Resolve leads to.  The names that open  *)
(* knows itself (/dev/null, /dev/zero, /dev/tty) are mounted, so they are  *)
(* virtual before its switch is reached.  "write" stands for the flags     *)
(* that only refuse a directory (O_WRONLY, O_RDWR, O_TRUNC): writing to a  *)
(* file is not modelled.                                                   *)
Flags == {{}, {"write"}, {"create"}, {"create", "excl"}}

open(n, flags) ==
    LET g == guestPath(n)
        r == Target(n)
        here == IF r.ok /\ r.path \in DOMAIN tree THEN tree[r.path].kind ELSE "none"
    IN  IF ~validate(n) \/ ~virtualPath(tree, g).ok THEN Fails(n)
        ELSE IF IsVirtual(tree, g) THEN Returns(n, TRUE, "none") /\ UNCHANGED <<tree, cwd>>
        ELSE IF ~r.ok THEN Fails(n)
        ELSE IF here = "none"
        THEN IF "create" \in flags /\ Room(r.path)
             THEN tree' = With(r.path, File("none")) /\ Returns(n, TRUE, "file") /\ UNCHANGED cwd
             ELSE Fails(n)
        ELSE IF {"create", "excl"} \subseteq flags \/ (here = "dir" /\ flags # {}) THEN Fails(n)
        ELSE Returns(n, TRUE, "none") /\ UNCHANGED <<tree, cwd>>

(* chdir keeps the name, not the directory it leads to.                    *)
chdir(n) ==
    IF validate(n) /\ Stat(tree, guestPath(n)).kind = "dir"
    THEN cwd' = guestPath(n) /\ Returns(n, TRUE, "none") /\ UNCHANGED tree
    ELSE Fails(n)

NoCall == [path |-> <<>>, ok |-> TRUE, made |-> "none"]

FilesInit ==
    /\ tree \in Trees
    /\ cwd = <<>>
    /\ call = NoCall

FilesNext ==
    \E n \in Written :
        \/ mkdir(n) \/ unlink(n) \/ chdir(n)
        \/ \E flags \in Flags : open(n, flags)
        \/ \E m \in Written : rename(n, m)

FilesSpec == FilesInit /\ [][FilesNext]_fvars

-----------------------------------------------------------------------------
(* The link targets for which a walk in the text is a walk of directories: *)
(* ".." comes first.                                                       *)
Simple(t) == \A p \in DOMAIN t : t[p].kind = "link" =>
                 \A i \in 2..Len(t[p].to.parts) : t[p].to.parts[i] = ".." => t[p].to.parts[i - 1] = ".."

LeavesRoot(t) == \E p \in DOMAIN t : t[p].kind = "link" /\ t[p].to.abs /\ clean(t[p].to.parts) \in Outside

(* Every name leads where the walk of an operating system with the guest's *)
(* root would lead, through any chain of links, although Resolve works on  *)
(* the text and starts again at each link: to the same file or directory,  *)
(* to the same place for a new entry, and to an error where links loop or  *)
(* a file is used as a directory.  A path with a missing directory leads   *)
(* to no entry.  Links to what exists only outside the root are refused.   *)
ResolvesLikeKernel ==
    Simple(tree) =>
        \A p \in Path :
            LET r == Resolve(tree, p)
                k == Walk(tree, <<>>, p, MaxHops - 1, TRUE, TRUE)
            IN  /\ k.found => r = Ok(k.at)
                /\ ~k.found /\ k.why = "entry" => r = Ok(k.at) \/ (~r.ok /\ LeavesRoot(tree))
                /\ ~k.found /\ k.why = "missing" /\ r.ok => r.path \notin DOMAIN tree /\ Parent(r.path) \notin DOMAIN tree
                /\ ~k.found /\ k.why \in {"loop", "notdir"} => ~r.ok

(* What mkdir and open(O_CREAT) have made is there under the name it was   *)
(* made with, whatever links that name passes.  Names of virtual files and *)
(* of directories above them are excepted: mkdir makes a directory behind  *)
(* a virtual file, where no call finds it.                                 *)
CreatedIsFound ==
    call.made # "none" => \/ Stat(tree, call.path).kind = call.made
                          \/ IsVirtual(tree, call.path)
                          \/ \E v \in Virtual : Above(call.path, v)
====
