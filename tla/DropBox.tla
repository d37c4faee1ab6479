---- MODULE DropBox ----
(***************************************************************************)
(* The rooted SFTP file service (src/tailcat_sftp.go): sessions of several *)
(* clients on one directory, which its owner uses too.  In the drop-box    *)
(* modes a client may leave files and adjust those it left, and a session  *)
(* remembers, by the path it asked for, where its file really is.          *)
(***************************************************************************)
EXTENDS Naturals, Sequences

CONSTANTS
  Session,
  None,
  Mode,       \* FileServeMode: a subset of "ro", "rw", "wo", "wo+"
  MaxObjects  \* bound: files and directories ever made

VARIABLES
  mode,
  names,   \* the directory: the object at a path, or None
  object,  \* every object made: what it is, by whom, and whether another touched it
  wrote,   \* rootedFiles.wrote per session
  handle,  \* the object a session has open for writing, or None
  told     \* the last answer of a drop box, and what an empty one would have said

vars == <<mode, names, object, wrote, handle, told>>

-----------------------------------------------------------------------------

\* A path is its directory, its base and, for a sibling of the server's choosing, a
\* number: n = 0 is the path a client may ask for.
Root == <<".", ".", 0>>
X == <<".", "x", 0>>
D == <<".", "d", 0>>
Asked == {X, D, <<"d", "x", 0>>}
Path == {Root} \cup {<<p[1], p[2], n>> : p \in Asked, n \in 0 .. MaxObjects}

\* OpenFile's flags, as the client asks for them.
Flags == {{"write", "creat"}, {"write"}, {"read", "write", "creat"}, {"write", "creat", "trunc"},
          {"write", "creat", "excl"}}

WriteOnly == mode \in {"wo", "wo+"}

Exists(p) == names[p] # None
IsDir(p) == Exists(p) /\ object[names[p]].kind = "dir"
Dir(p) == IF p[1] = "d" THEN D ELSE Root
Nested(p) == Dir(p) # Root

Room == Len(object) < MaxObjects
Made == Len(object) + 1
New(kind, s) == [kind |-> kind, by |-> s, touched |-> FALSE]

\* Session s writes into the object, cuts it, or sets its permissions or its times.
TouchedBy(s, o) == [object EXCEPT ![o].touched = @ \/ object[o].by # s]

\* uniqueUploadPath: a name that is nobody's.
UniqueUploadPath(p) == [p EXCEPT ![3] = Made]

Says(result, blind) == told' = [result |-> result, blind |-> blind]
Same == told' = told

Opens(s, at, o) ==
  /\ names' = [names EXCEPT ![at] = o]
  /\ handle' = [handle EXCEPT ![s] = o]

\* rootedFiles.wrote: where the file is that the session asked for at p.
Remembers(s, p, at) ==
  wrote' = [wrote EXCEPT ![s] = [q \in DOMAIN @ \cup {p} |-> IF q = p THEN at ELSE @[q]]]

-----------------------------------------------------------------------------
(* Filewrite *)

\* Mutant: the file is created, or opened if there is one.
CreatesAny(s, p, at) ==
  /\ IF Exists(at) THEN Opens(s, at, names[at]) /\ UNCHANGED object
     ELSE Opens(s, at, Made) /\ object' = Append(object, New("file", s))
  /\ Remembers(s, p, at)

\* O_EXCL: the object is new, and the session's own.
Creates(s, p, at) ==
  /\ ~ Exists(at)
  /\ Opens(s, at, Made)
  /\ object' = Append(object, New("file", s))
  /\ Remembers(s, p, at)

Refuses == UNCHANGED <<names, object, wrote, handle>>

\* In a drop box: a new file or nothing; under a name of the server's if the box
\* is flat, or if the name is taken.
Drops(s, p, flags) ==
  /\ WriteOnly /\ Room
  /\ LET denied == "read" \in flags \/ "creat" \notin flags \/ (mode = "wo" /\ Nested(p))
         at == IF mode = "wo" THEN UniqueUploadPath(p) ELSE p
     IN IF denied THEN Refuses /\ Says("denied", "denied")
        ELSE IF ~ IsDir(Dir(p)) THEN Refuses /\ Says("none", "ok")
        ELSE /\ \/ Creates(s, p, at)
                \/ Exists(at) /\ Creates(s, p, UniqueUploadPath(p))
             /\ Says("ok", "ok")
  /\ UNCHANGED mode

\* Otherwise as the flags say.  A file that is opened may be anybody's.
Puts(s, p, flags) ==
  /\ ~ WriteOnly /\ Room
  /\ IF mode = "ro" \/ ~ IsDir(Dir(p)) \/ IsDir(p)
        \/ (Exists(p) /\ "excl" \in flags) \/ (~ Exists(p) /\ "creat" \notin flags)
     THEN Refuses
     ELSE IF Exists(p)
     THEN /\ handle' = [handle EXCEPT ![s] = names[p]]
          /\ object' = IF "trunc" \in flags
                       THEN TouchedBy(s, names[p]) ELSE object
          /\ UNCHANGED <<names, wrote>>
     ELSE /\ Opens(s, p, Made)
          /\ object' = Append(object, New("file", s))
          /\ UNCHANGED wrote
  /\ Same /\ UNCHANGED mode

\* WriteAt on the handle, whatever became of its name.
WritesAt(s) ==
  /\ handle[s] # None
  /\ object' = TouchedBy(s, handle[s])
  /\ UNCHANGED <<mode, names, wrote, handle, told>>

-----------------------------------------------------------------------------
(* Fileread, Filecmd, Filelist *)

\* Fileread and List: a drop box gives nothing back.
Reads(s, p) ==
  /\ IF WriteOnly THEN Says("denied", "denied") ELSE Same
  /\ UNCHANGED <<mode, names, object, wrote, handle>>

\* stat, and what it may say: what the session left is its own, and of the rest only
\* directories, in a recursive box.
Stat(s, p) ==
  CASE p \in DOMAIN wrote[s] -> IF Exists(wrote[s][p]) THEN "own" ELSE "gone"
    [] p \notin DOMAIN wrote[s] /\ (mode # "wo" \/ p = Root) /\ IsDir(p) -> "dir"
    [] OTHER -> "none"

Stats(s, p) ==
  /\ IF WriteOnly
     THEN Says(Stat(s, p), IF p \in DOMAIN wrote[s] THEN Stat(s, p)
                           ELSE IF p = Root THEN "dir" ELSE "none")
     ELSE Same
  /\ UNCHANGED <<mode, names, object, wrote, handle>>

\* Setstat, at the path itself or at the one the session remembers.  With a size it cuts
\* the file.
Setstats(s, p) ==
  /\ LET own == p \in DOMAIN wrote[s]
         at == IF WriteOnly /\ own THEN wrote[s][p] ELSE p
     IN object' = IF mode = "ro" \/ (WriteOnly /\ ~ own) \/ ~ Exists(at) THEN object
                  ELSE TouchedBy(s, names[at])
  /\ Same /\ UNCHANGED <<mode, names, wrote, handle>>

Mkdirs(s, p) ==
  /\ mode \in {"rw", "wo+"} /\ Room
  /\ ~ Exists(p) /\ IsDir(Dir(p))
  /\ names' = [names EXCEPT ![p] = Made]
  /\ object' = Append(object, New("dir", s))
  /\ IF mode = "wo+" THEN Remembers(s, p, p) ELSE UNCHANGED wrote
  /\ Same /\ UNCHANGED <<mode, handle>>

\* Remove and Rmdir, and of files Rename and Link, in a box that is not one.
Removes(s, p) ==
  /\ mode = "rw" /\ Exists(p) /\ (IsDir(p) => \A q \in Path : Nested(q) => ~ Exists(q))
  /\ names' = [names EXCEPT ![p] = None]
  /\ Same /\ UNCHANGED <<mode, object, wrote, handle>>

Renames(s, p, q) ==
  /\ mode = "rw" /\ Exists(p) /\ ~ IsDir(p) /\ ~ IsDir(q) /\ IsDir(Dir(q)) /\ p # q
  /\ \E kept \in {names[p], None} :
       /\ kept # None => ~ Exists(q)
       /\ names' = [names EXCEPT ![q] = names[p], ![p] = kept]
  /\ Same /\ UNCHANGED <<mode, object, wrote, handle>>

\* sftpSubsystemHandler: the session ends and, as another client's, begins anew,
\* without its handles and what it remembered.  What it left is nobody's.
Leaves(s) ==
  /\ wrote[s] # <<>> \/ handle[s] # None
  /\ wrote' = [wrote EXCEPT ![s] = <<>>]
  /\ handle' = [handle EXCEPT ![s] = None]
  /\ object' = [o \in DOMAIN object |->
       IF object[o].by = s THEN [object[o] EXCEPT !.by = None] ELSE object[o]]
  /\ Same /\ UNCHANGED <<mode, names>>

\* The owner of the directory takes a file out.
Takes(p) ==
  /\ Exists(p) /\ ~ IsDir(p)
  /\ names' = [names EXCEPT ![p] = None]
  /\ Same /\ UNCHANGED <<mode, object, wrote, handle>>

\* The root is there; a directory may be, or a file of its owner's.
Init ==
  /\ mode \in Mode
  /\ \E there \in {<<>>, <<X>>, <<D>>} :
       /\ object = <<New("dir", None)>> \o [i \in DOMAIN there |-> New(IF there[i] = D THEN "dir" ELSE "file", None)]
       /\ names = [p \in Path |-> IF p = Root THEN 1 ELSE IF <<p>> = there THEN 2 ELSE None]
  /\ wrote = [s \in Session |-> <<>>]
  /\ handle = [s \in Session |-> None]
  /\ told = [result |-> "none", blind |-> "none"]

Next ==
  \/ \E p \in Asked : Takes(p)
  \/ \E s \in Session :
       \/ WritesAt(s) \/ Leaves(s)
       \/ \E p \in Asked :
            \/ Reads(s, p) \/ Stats(s, p) \/ Setstats(s, p) \/ Mkdirs(s, p) \/ Removes(s, p)
            \/ \E flags \in Flags : Drops(s, p, flags) \/ Puts(s, p, flags)
            \/ \E q \in Asked : Renames(s, p, q)

Spec == Init /\ [][Next]_vars

-----------------------------------------------------------------------------
(* Properties *)

\* What is known of a file or a directory.
Object == [kind : {"file", "dir"}, by : Session \cup {None}, touched : BOOLEAN]

\* Every variable has its type.
TypeOK ==
  /\ mode \in Mode
  /\ names \in [Path -> (DOMAIN object) \cup {None}]
  /\ object \in Seq(Object)
  /\ DOMAIN wrote = Session
  /\ \A s \in Session :
       DOMAIN wrote[s] \subseteq Asked /\ \A p \in DOMAIN wrote[s] : wrote[s][p] \in Path
  /\ handle \in [Session -> (DOMAIN object) \cup {None}]

\* In a drop box a session never has another's file open for writing, whoever asks for the
\* same name (tailcat_sftp.go:166-193), and in a flat one nobody touches in any way what
\* another left; a box that is read-only stays as it is; and of a flat box no answer
\* depends on what others left in it (tailcat_files.go:21-25).
BoxHolds ==
  /\ WriteOnly => \A s \in Session : handle[s] # None => object[handle[s]].by = s
  /\ mode \in {"ro", "wo"} => \A o \in DOMAIN object : ~ object[o].touched
  /\ mode = "ro" => \A o \in DOMAIN object : object[o].by = None
  /\ mode = "wo" => told.result = told.blind

\* What keeps it.  A box that is read-only has nothing open; nothing a client asks for takes
\* the root's name; and where a flat box remembers a session's file, under a name it gave
\* once, there is that file or none.
FlatOwn ==
  mode = "wo" =>
    \A s \in Session : \A p \in DOMAIN wrote[s] :
      /\ wrote[s][p][3] \in 1 .. Len(object)
      /\ Exists(wrote[s][p]) => object[names[wrote[s][p]]].by = s

BoxInv ==
  /\ TypeOK
  /\ names[Root] = 1 /\ Len(object) > 0 /\ object[1].kind = "dir"
  /\ mode = "ro" => \A s \in Session : handle[s] = None
  /\ FlatOwn
  /\ BoxHolds

\* Does not hold.  tailcat_sftp.go:250-252: a session may adjust what it itself wrote, but
\* cannot touch anything else.  What it wrote is known by name, and in a recursive box the name may by
\* then be another's file, which a Setstat with a size even cuts.
OnlyOwnTouched ==
  WriteOnly => \A o \in DOMAIN object : ~ object[o].touched

=============================================================================
