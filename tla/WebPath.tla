------------------------------ MODULE WebPath -------------------------------
(***************************************************************************)
(* web/Web.go: WebPath, the tree of request handlers.  A node holds one    *)
(* segment of a path; Same is the tree of what follows the segment, Next   *)
(* the chain of other segments at the same place.  A path is the sequence  *)
(* of its segments: "/a/b" is <<a, b>>, "/a/" is <<a, Slash>>, "/" is      *)
(* <<Slash>>.  Every operation locks the root first, so each is one step.  *)
(***************************************************************************)
EXTENDS Naturals, Sequences

CONSTANTS
  Segs,     \* segments
  Slash,    \* the empty segment after a last "/"
  Paths,    \* the paths in use
  Handlers,
  Nil,      \* no node, no handler, no path
  MaxOps,   \* bound: operations
  MaxReset  \* bound: calls of Reset

WebPathAssumption ==
  /\ Paths \subseteq Seq(Segs \cup {Slash}) \ {<<>>}
  /\ Nil \notin Segs \cup Handlers
  /\ MaxOps \in Nat /\ MaxReset \in Nat

VARIABLES
  root,     \* the tree
  routes,   \* [Paths -> handler or Nil]: what is stored, the reference
  ops,      \* operations so far
  resets    \* calls of Reset so far

vars == <<root, routes, ops, resets>>

Node(path, f, same, next) == [Path |-> path, f |-> f, Same |-> same, Next |-> next]

Empty == Node(Nil, Nil, Nil, Nil)

\* parsePath
Key(p) == Head(p)
Left(p) == Tail(p)
Fin(p) == Len(p) = 1

----------------------------------------------------------------------------
(* The lookups; Nil is "not found".  A call on a nil node or with an empty *)
(* path finds nothing.                                                     *)

RECURSIVE Load(_, _)
Load(t, p) ==
  IF t = Nil \/ p = <<>> THEN Nil
  ELSE IF t.Path # Key(p) THEN Load(t.Next, p)
  ELSE IF Fin(p) THEN t.f ELSE Load(t.Same, Left(p))

Or(f1, f) == IF f1 # Nil THEN f1 ELSE f

RECURSIVE LoadOnePerfix(_, _)
LoadOnePerfix(t, p) ==
  IF t = Nil \/ p = <<>> THEN Nil
  ELSE IF t.Path = Key(p)
         THEN Or(LoadOnePerfix(t.Same, Left(p)), IF t.Path = Slash \/ Fin(p) THEN t.f ELSE Nil)
         ELSE Or(LoadOnePerfix(t.Next, p), IF t.Path = Slash /\ Fin(p) THEN t.f ELSE Nil)

\* Mutant: a handler for a directory is found before the ones below it.
RECURSIVE LoadPerfixShort(_, _)
LoadPerfixShort(t, p) ==
  IF t = Nil \/ p = <<>> THEN Nil
  ELSE IF t.Path = Slash
         THEN Or(t.f, IF t.Path # Key(p) THEN LoadPerfixShort(t.Next, p)
                      ELSE IF Fin(p) THEN Nil ELSE LoadPerfixShort(t.Same, Left(p)))
  ELSE IF t.Path # Key(p) THEN LoadPerfixShort(t.Next, p)
  ELSE IF Fin(p) THEN t.f
  ELSE Or(LoadPerfixShort(t.Same, Left(p)), LoadPerfixShort(t.Next, p))

RECURSIVE LoadPerfix(_, _)
LoadPerfix(t, p) ==
  IF t = Nil \/ p = <<>> THEN Nil
  ELSE IF t.Path = Slash
         THEN Or(IF t.Path # Key(p) THEN LoadPerfix(t.Next, p)
                 ELSE IF Fin(p) THEN Nil ELSE LoadPerfix(t.Same, Left(p)), t.f)
  ELSE IF t.Path # Key(p) THEN LoadPerfix(t.Next, p)
  ELSE IF Fin(p) THEN t.f
  ELSE Or(LoadPerfix(t.Same, Left(p)), LoadPerfix(t.Next, p))

----------------------------------------------------------------------------
(* The updates.                                                            *)

OrNew(t) == IF t = Nil THEN Empty ELSE t

RECURSIVE StoreIn(_, _, _)
StoreIn(t, p, f) ==
  IF t.Path = Nil
    THEN IF Fin(p) THEN [t EXCEPT !.Path = Key(p), !.f = f]
                   ELSE [t EXCEPT !.Path = Key(p), !.Same = StoreIn(Empty, Left(p), f)]
  ELSE IF t.Path = Key(p)
    THEN IF Fin(p) THEN [t EXCEPT !.f = f]
                   ELSE [t EXCEPT !.Same = StoreIn(OrNew(@), Left(p), f)]
  ELSE [t EXCEPT !.Next = StoreIn(OrNew(@), p, f)]

Bare(t) == t.f = Nil /\ t.Next = Nil /\ t.Same = Nil

\* The tree after Delete, and deleteMe.
RECURSIVE DeleteIn(_, _)
DeleteIn(t, p) ==
  IF t = Nil \/ p = <<>> THEN [t |-> t, me |-> FALSE]
  ELSE IF t.Path = Key(p) /\ Fin(p)
    THEN LET u == [t EXCEPT !.f = Nil] IN [t |-> u, me |-> Bare(u)]
  ELSE IF t.Path = Key(p)
    THEN LET d == DeleteIn(t.Same, Left(p))
             u == [t EXCEPT !.Same = IF d.me THEN Nil ELSE d.t]
         IN  [t |-> u, me |-> t.Same # Nil /\ Bare(u)]
  ELSE LET d == DeleteIn(t.Next, p)
           u == [t EXCEPT !.Next = IF d.me THEN Nil ELSE d.t]
       IN  [t |-> u, me |-> t.Next # Nil /\ Bare(u)]

----------------------------------------------------------------------------
Init ==
  /\ root = Empty
  /\ routes = [p \in Paths |-> Nil]
  /\ ops = 0
  /\ resets = 0

Op == ops < MaxOps /\ ops' = ops + 1

\* What store makes of the routes.  Reset left the root's handler in its node: the
\* first path that gives the root a segment again brings it back at that segment.
Stored(p, f) ==
  LET back == IF root.Path = Nil THEN {<<Key(p)>>} \ {p} ELSE {}
  IN  [q \in Paths |-> IF q = p THEN f ELSE IF q \in back THEN root.f ELSE routes[q]]

Store(p, f) ==
  /\ Op
  /\ root' = StoreIn(root, p, f)
  /\ routes' = Stored(p, f)
  /\ UNCHANGED resets

StoreIfNotExist(p, f) ==
  /\ Op
  /\ root' = IF Load(root, p) = Nil THEN StoreIn(root, p, f) ELSE root
  /\ routes' = IF routes[p] = Nil THEN Stored(p, f) ELSE routes
  /\ UNCHANGED resets

\* Delete, and Store of a nil handler.  The root itself stays.
Delete(p) ==
  /\ Op
  /\ root' = DeleteIn(root, p).t
  /\ routes' = [routes EXCEPT ![p] = Nil]
  /\ UNCHANGED resets

ResetTo(t) ==
  /\ resets < MaxReset
  /\ Op
  /\ resets' = resets + 1
  /\ root' = t
  /\ routes' = [p \in Paths |-> Nil]

\* Mutant: Reset leaves the chain of other segments.
ResetKeepsNext == ResetTo([root EXCEPT !.Path = Nil, !.Same = Nil])

\* Reset leaves the field f.
Reset == ResetTo([root EXCEPT !.Path = Nil, !.Same = Nil, !.Next = Nil])

Next ==
  \/ \E p \in Paths, f \in Handlers : Store(p, f) \/ StoreIfNotExist(p, f)
  \/ \E p \in Paths : Delete(p)
  \/ Reset

Spec == Init /\ [][Next]_vars

----------------------------------------------------------------------------
(* What the lookups are to find.                                           *)

Dir(p, k) == Append(SubSeq(p, 1, k), Slash)

\* The stored path that is nearest to p, out of p itself and the directories
\* above it that levels allows.
Nearest(p, levels) ==
  LET found == {k \in levels : Dir(p, k) \in Paths /\ routes[Dir(p, k)] # Nil}
  IN  IF routes[p] # Nil THEN routes[p]
      ELSE IF found = {} THEN Nil
      ELSE routes[Dir(p, CHOOSE k \in found : \A j \in found : j <= k)]

AllDirs(p) == 0..(Len(p) - 1)
OneDir(p) == {Len(p) - 1}

\* The tree has a node for p.
RECURSIVE HasNode(_, _)
HasNode(t, p) ==
  IF t = Nil THEN FALSE
  ELSE IF t.Path # Key(p) THEN HasNode(t.Next, p)
  ELSE Fin(p) \/ HasNode(t.Same, Left(p))

\* Load finds exactly what was stored at the path and not deleted since.
LoadExact == \A p \in Paths : Load(root, p) = routes[p]

\* Nothing is stored at p, but the tree has a node for it.
Hollow(p) == routes[p] = Nil /\ HasNode(root, p)

\* What LoadPerfix finds is the nearest handler: the path's own or that of the
\* deepest directory above it.  For a path that is a node without a handler it
\* may pass over directories, but still finds one above the path or none.
PerfixNearest ==
  \A p \in Paths : LET f == LoadPerfix(root, p) IN
    f = Nearest(p, AllDirs(p)) \/ (Hollow(p) /\ f \in {Nil} \cup {Nearest(p, 0..k) : k \in AllDirs(p)})

\* The same of LoadOnePerfix and the directory that the path is in.
OnePerfixNearest ==
  \A p \in Paths : LET f == LoadOnePerfix(root, p) IN
    f = Nearest(p, OneDir(p)) \/ (Hollow(p) /\ f = Nil)

=============================================================================
