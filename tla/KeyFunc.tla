------------------------------- MODULE KeyFunc -------------------------------
(***************************************************************************)
(* keyFunc/keyFunc.go: getTrace.  A key has methods; a method that misses  *)
(* another key names it, and is called again after that key was got.  The  *)
(* recursion is a stack of frames.  A method may report a missing key, or  *)
(* fail, whenever it is called, whatever was got before.                   *)
(***************************************************************************)
EXTENDS Integers, Sequences, SequencesExt

CONSTANTS
  keyGet,   \* registered key -> number of its methods
  Deps,     \* key -> keys its methods may miss
  Target    \* the key Get is asked for

VARIABLES
  frames,  \* the calls of getTrace: key and i, the method in hand
  nodes,   \* the trace: Key, MethodIndex and Err of each node
  ret      \* "none", or the error of the trace getTrace returned

vars == <<frames, nodes, ret>>

Init ==
  /\ frames = <<[key |-> Target, i |-> 0]>>
  /\ nodes = <<>>
  /\ ret = "none"

Top == Last(frames)
Push(key) == Append(frames, [key |-> key, i |-> 0])
NextMethod == [frames EXCEPT ![Len(frames)].i = @ + 1]
Node(err) == Append(nodes, [key |-> Top.key, i |-> Top.i, err |-> err])

\* getTrace of a key that has no methods: a node that is not linked to the trace.
NotReg ==
  /\ ret = "none" /\ frames # <<>> /\ Top.key \notin DOMAIN keyGet
  /\ ret' = "ErrKeyNotReg"
  /\ frames' = Front(frames)
  /\ nodes' = <<[key |-> Top.key, i |-> 0, err |-> "ErrKeyNotReg"]>>

Ready == ret = "none" /\ frames # <<>> /\ Top.key \in DOMAIN keyGet /\ Top.i < keyGet[Top.key]

\* Mutant: a key that is in the trace is got again.
MissAlways(k) ==
  /\ Ready
  /\ nodes' = Node("nil")
  /\ frames' = Push(k) /\ UNCHANGED ret

\* The method names a missing key: ErrKeyMissAgain if the trace has it already,
\* the node of this call included.
Miss(k) ==
  /\ Ready
  /\ IF \E n \in DOMAIN Node("nil") : Node("nil")[n].key = k
       THEN /\ nodes' = Node("ErrKeyMissAgain")
            /\ frames' = Front(frames) /\ ret' = "ErrKeyMissAgain"
       ELSE /\ nodes' = Node("nil")
            /\ frames' = Push(k) /\ UNCHANGED ret

\* The method succeeds: the key is valid, or the next method is tried.
Method(valid) ==
  /\ Ready
  /\ IF valid
       THEN nodes' = Node("nil") /\ frames' = Front(frames) /\ ret' = "nil"
       ELSE nodes' = Node("ErrKeyNotValid") /\ frames' = NextMethod /\ UNCHANGED ret

\* The method fails: ErrNextMethod goes on with the next one.
Fails(err) ==
  /\ Ready
  /\ nodes' = Node(err)
  /\ IF err = "ErrNextMethod" THEN frames' = NextMethod /\ UNCHANGED ret
     ELSE frames' = Front(frames) /\ ret' = err

\* No method is left: the error of the last node.
Exhausted ==
  /\ ret = "none" /\ frames # <<>>
  /\ Top.key \in DOMAIN keyGet /\ Top.i >= keyGet[Top.key]
  /\ frames' = Front(frames)
  /\ ret' = Last(nodes).err
  /\ UNCHANGED nodes

\* A missing key was got, or not: the same method, the next one, or the end.
Returned ==
  /\ ret # "none" /\ frames # <<>>
  /\ \/ ret = "nil" /\ ret' = "none" /\ UNCHANGED frames
     \/ ret = "ErrNextMethod" /\ ret' = "none" /\ frames' = NextMethod
     \/ ret \notin {"nil", "ErrNextMethod"} /\ frames' = Front(frames) /\ UNCHANGED ret
  /\ UNCHANGED nodes

Next ==
  \/ NotReg
  \/ Exhausted
  \/ Returned
  \/ \E valid \in BOOLEAN : Method(valid)
  \/ \E err \in {"ErrNextMethod", "err"} : Fails(err)
  \/ frames # <<>> /\ Top.key \in DOMAIN Deps /\ \E k \in Deps[Top.key] : Miss(k)

Fairness == WF_vars(Next)
Spec == Init /\ [][Next]_vars /\ Fairness

----------------------------------------------------------------------------
\* Get returns, whatever the methods report, since no key is got inside the
\* getting of the same key, however they depend on each other; and a success is
\* the success of the key asked for.
GetEnds ==
  /\ [][Len(frames') > Len(frames) =>
          \A i \in DOMAIN frames : frames[i].key # Last(frames').key]_vars
  /\ <>(frames = <<>> /\ ret # "none" /\ (ret = "nil" => Last(nodes).key = Target))
=============================================================================
