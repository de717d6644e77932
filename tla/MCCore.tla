------------------------------- MODULE MCCore -------------------------------
(***************************************************************************)
(* What a return promises: Close of limit, done() of ctx, and the lookups  *)
(* of the router of package web.  They share no state, so a behaviour      *)
(* exercises one of them: unit says which, and the others stay as they     *)
(* began.                                                                  *)
(***************************************************************************)
EXTENDS Limit, CtxWait, Sequences, TLC

CONSTANTS
  root, sub, a, b, c1, c2,  \* the scopes, tasks and callers of done
  h1, h2, Nil               \* Router, Doubles

VARIABLES
  unit,
  tree, routes, ops, resets \* Router, Doubles

pathVars == <<tree, routes, ops, resets>>

\* The root scope has the task a, the nested scope is opened inside a's context
\* and has the task b.
MCScopes == {root, sub}
MCTasks  == {a, b}
MCUnderTask == (a :> root) @@ (sub :> a) @@ (b :> sub)
MCOwnerTask == (a :> root) @@ (sub :> root) @@ (b :> sub)

\* Both children of the root are announced, the nested scope does not know.
MCPlan == (root :> 2) @@ (sub :> 0)
MCCallers == {c1, c2}
MCSubTO == {sub}

\* The paths / /a /b /a/ /a/b /a/a /a/b/, and paths with empty segments: / // //a //a/ /a.
Router == INSTANCE WebPath WITH
  root <- tree, Segs <- {"a", "b"}, Slash <- "", Handlers <- {h1, h2},
  MaxOps <- 6, MaxReset <- 2,
  Paths <- {<<"">>, <<"a">>, <<"b">>, <<"a", "">>, <<"a", "b">>, <<"a", "a">>, <<"a", "b", "">>}
Doubles == INSTANCE WebPath WITH
  root <- tree, Segs <- {"a"}, Slash <- "", Handlers <- {h1, h2},
  MaxOps <- 6, MaxReset <- 2,
  Paths <- {<<"">>, <<"", "">>, <<"", "a">>, <<"", "a", "">>, <<"a">>}

ASSUME CoreAssumptions == Router!WebPathAssumption /\ Doubles!WebPathAssumption

CoreInit ==
  /\ LimitInit
  /\ Init
  /\ \/ unit = "doubles" /\ Doubles!Init
     \/ unit \in {"limit", "ctx", "router"} /\ Router!Init

CoreNext ==
  /\ UNCHANGED unit
  /\ \/ unit = "limit" /\ LimitNext /\ UNCHANGED <<vars, pathVars>>
     \/ unit = "ctx" /\ Next /\ UNCHANGED <<allLimitVars, pathVars>>
     \/ unit = "router" /\ Router!Next /\ UNCHANGED <<allLimitVars, vars>>
     \/ unit = "doubles" /\ Doubles!Next /\ UNCHANGED <<allLimitVars, vars>>

CoreSpec == CoreInit /\ [][CoreNext]_<<unit, allLimitVars, vars, pathVars>>

Perms == Permutations({h1, h2})

----------------------------------------------------------------------------

\* WebPath: after any Store, Delete and Reset, Load finds exactly what is stored
\* at the path, where what is stored is the last handler since the last Delete or
\* Reset, but a Reset keeps the handler of the tree's first segment, which comes
\* back when a longer path is stored first.  LoadPerfix finds the path's own
\* handler or that of the deepest directory above it, LoadOnePerfix (for paths
\* without empty segments) that of the directory the path is in; for a path with
\* a node of its own but no handler, as /a/b has below a stored /a/b/c, they find
\* that of some directory above it or none, against the comments on them.
RoutesExact ==
  /\ unit = "router" =>
       Router!LoadExact /\ Router!PerfixNearest /\ Router!OnePerfixNearest
  /\ unit = "doubles" => Doubles!LoadExact /\ Doubles!PerfixNearest
=============================================================================
