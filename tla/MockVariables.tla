--------------------------- MODULE MockVariables ---------------------------
(***************************************************************************)
(* The variables of the mock runtime and what a client holds of them: the  *)
(* RuntimeVariable objects of src/mockRuntime.ts, the handles that         *)
(* src/mockDebug.ts gives out for them, and the client's copies of their   *)
(* memory.                                                                 *)
(*                                                                         *)
(* An object keeps the encoding of its string in a field, made when it is  *)
(* first asked for.  A line that assigns to a variable replaces its        *)
(* object; handles are never taken back and keep the object they were      *)
(* given for.  Requests that name nothing there is change nothing and are  *)
(* left out.                                                               *)
(***************************************************************************)
EXTENDS Integers, Sequences, SequencesExt

CONSTANTS
  Names,            \* the variables of the program
  LazyNames,        \* the names that contain "lazy"
  Strings, Numbers, \* the values, of which numbers stand for all that have no memory
  Bytes,            \* the contents of memory
  Encoded, Decoded, \* TextEncoder and TextDecoder
  Size,             \* the number of bytes
  Fields,           \* the names and values in an object value
  MaxObjects, MaxHandles   \* bounds: objects made, handles given

\* A decoder takes any bytes, and gives back what has been encoded.
ASSUME CodecAssumption ==
  /\ Encoded \in [Strings -> Bytes] /\ Decoded \in [Bytes -> Strings]
  /\ \A s \in Strings : Decoded[Encoded[s]] = s
  /\ Size \in [Bytes -> Nat]
  /\ "none" \notin Bytes \cup Strings \cup Numbers
  /\ "object" \notin Strings \cup Numbers /\ Strings \cap Numbers = {}

\* The names of objects: a wrapper and the value in it have none.
Labels == Names \cup {"", "eval"} \cup {Fields[k].name : k \in DOMAIN Fields}

ASSUME VariablesAssumption ==
  /\ Fields \in Seq([name : Labels, value : Strings \cup Numbers])
  /\ MaxObjects \in Nat /\ MaxHandles \in Nat

VARIABLES
  heap,       \* the objects, in the order they were made
  handles,    \* _variableHandles: an object, or a scope
  variables,  \* the current objects of the program, in the order of the map
  view        \* for each handle, the memory that the client shows for it

variableVars == <<heap, handles, variables, view>>

Values == Strings \cup Numbers
LocalsScope == 0
GlobalsScope == -1

Object(name, value, elements) ==
  [name |-> name, value |-> value, elements |-> elements, memory |-> "none", reference |-> 0]

VariablesInit ==
  /\ heap = << >> /\ handles = << >> /\ variables = << >>
  /\ view = [r \in 1 .. MaxHandles |-> "none"]

-----------------------------------------------------------------------------
(***************************************************************************)
(* RuntimeVariable.                                                        *)
(***************************************************************************)
\* The getter of memory, and its effect.
MemoryOf(o) ==
  IF o.memory = "none" /\ o.value \in Strings THEN Encoded[o.value] ELSE o.memory
Remembering(o) == [o EXCEPT !.memory = MemoryOf(o)]

\* The setter of value.
SetValueKeepingMemory(o, value) == [o EXCEPT !.value = value, !.elements = << >>] \* fault
SetValue(o, value) ==
  [o EXCEPT !.value = value, !.elements = << >>, !.memory = "none"]

\* setMemory: what is written over, at whatever offset, keeps its size.
SetMemory(o, bytes) == [o EXCEPT !.memory = bytes, !.value = Decoded[bytes]]
Overwritten(o) == {bytes \in Bytes : Size[bytes] = Size[MemoryOf(o)]}

-----------------------------------------------------------------------------
(***************************************************************************)
(* convertFromRuntime, on a store of objects and handles: what is shown to *)
(* the client gets a reference, once.  A lazy variable gets that of a      *)
(* wrapper around the value it has then, which is also the one it gives    *)
(* out for its memory.                                                     *)
(***************************************************************************)
Store == [heap |-> heap, handles |-> handles]

\* v.reference ??= handles.create(to)
ReferredAgain(store, id, to) ==                                       \* fault
  [heap |-> [store.heap EXCEPT ![id].reference = Len(store.handles) + 1],
   handles |-> Append(store.handles, to)]
Referred(store, id, to) ==
  IF store.heap[id].reference # 0 THEN store
  ELSE [heap |-> [store.heap EXCEPT ![id].reference = Len(store.handles) + 1],
        handles |-> Append(store.handles, to)]

Wrapped(store, id) ==
  LET o == store.heap[id]
      next == Len(store.heap) + 1
  IN  IF o.reference # 0 THEN store
      ELSE Referred([store EXCEPT !.heap = @ \o <<Object("", o.value, o.elements),
                                                  Object("", "object", <<next>>)>>],
                    id, next + 1)

ConvertFromRuntime(store, id) ==
  LET o == store.heap[id]
      shown == CASE o.name \in LazyNames -> Wrapped(store, id)
                 [] o.name \notin LazyNames /\ o.value = "object" -> Referred(store, id, id)
                 [] OTHER -> store
  IN  IF MemoryOf(o) = "none" THEN shown
      ELSE Referred([shown EXCEPT !.heap[id] = Remembering(@)], id, id)

Fits(store) == Len(store.heap) <= MaxObjects /\ Len(store.handles) <= MaxHandles

\* The response shows the objects with these ids, one after the other.
Converted(store, ids) ==
  LET after[k \in 0 .. Len(ids)] ==
        IF k = 0 THEN store ELSE ConvertFromRuntime(after[k - 1], ids[k])
  IN  after[Len(ids)]

Shows(store, ids) ==
  LET after == Converted(store, ids)
  IN  /\ Fits(after)
      /\ heap' = after.heap /\ handles' = after.handles

-----------------------------------------------------------------------------
(***************************************************************************)
(* The program: executeLine at an assignment.                              *)
(***************************************************************************)
Named(ids, name) == {id \in Range(ids) : heap[id].name = name}

Assign(name, value) ==
  LET id == Len(heap) + 1
      fields == IF value = "object" THEN Fields ELSE << >>
      elements == [k \in DOMAIN fields |-> id + k]
      old == SelectInSeq(variables, LAMBDA v : heap[v].name = name)
  IN  /\ id + Len(fields) <= MaxObjects
      /\ heap' = (heap \o <<Object(name, value, elements)>>)
                   \o [k \in DOMAIN fields |-> Object(fields[k].name, fields[k].value, << >>)]
      /\ variables' = IF old = 0 THEN Append(variables, id)
                      ELSE [variables EXCEPT ![old] = id]
      /\ UNCHANGED <<handles, view>>

-----------------------------------------------------------------------------
(***************************************************************************)
(* The requests.                                                           *)
(***************************************************************************)
Scopes ==
  /\ Len(handles) + 2 <= MaxHandles
  /\ handles' = handles \o <<LocalsScope, GlobalsScope>>
  /\ UNCHANGED <<heap, variables, view>>

\* What variablesRequest and setVariableRequest find behind a reference.
Contents(r) ==
  IF handles[r] = LocalsScope THEN variables
  ELSE IF handles[r] = GlobalsScope THEN << >> ELSE heap[handles[r]].elements

VariablesRequest(r) ==
  /\ Contents(r) # << >>
  /\ Shows(Store, Contents(r))
  /\ UNCHANGED <<variables, view>>

\* What setVariableRequest and setExpressionRequest have in common.
Sets(id, value) ==
  /\ Shows([Store EXCEPT !.heap[id] = SetValue(@, value)], <<id>>)
  /\ UNCHANGED variables

\* The MemoryEvent of a variable that has memory and a reference.
NoMemoryEvent(id) == UNCHANGED view                                   \* fault
MemoryEvent(id) ==
  view' = IF heap'[id].memory # "none" /\ heap'[id].reference # 0
          THEN [view EXCEPT ![heap'[id].reference] = "none"] ELSE view

SetVariable(r, name, value) ==
  \E id \in Named(Contents(r), name) : Sets(id, value) /\ MemoryEvent(id)

SetExpression(name, value) ==
  \E id \in Named(variables, name) : Sets(id, value) /\ UNCHANGED view

\* evaluateRequest: of a variable, and of a value, which makes an object.
EvaluateVariable(name) ==
  /\ \E id \in Named(variables, name) : Shows(Store, <<id>>)
  /\ UNCHANGED <<variables, view>>

EvaluateValue(value) ==
  /\ Shows([Store EXCEPT !.heap = Append(@, Object("eval", value, << >>))], <<Len(heap) + 1>>)
  /\ UNCHANGED <<variables, view>>

ReadMemory(r) ==
  /\ handles[r] > 0
  /\ heap' = [heap EXCEPT ![handles[r]] = Remembering(@)]
  /\ view' = [view EXCEPT ![r] = MemoryOf(heap[handles[r]])]
  /\ UNCHANGED <<handles, variables>>

\* A client reads again what it has written.  The request changes nothing of an
\* object without memory; bytes beyond the end throw before anything is changed.
WriteMemory(r) ==
  /\ handles[r] > 0 /\ MemoryOf(heap[handles[r]]) # "none"
  /\ \E bytes \in Overwritten(heap[handles[r]]) :
       heap' = [heap EXCEPT ![handles[r]] = SetMemory(@, bytes)]
  /\ view' = [view EXCEPT ![r] = "none"]
  /\ UNCHANGED <<handles, variables>>

-----------------------------------------------------------------------------
VariableRequests(set) ==
  \/ Scopes
  \/ \E name \in Names, value \in Values \cup {"object"} : Assign(name, value)
  \/ \E name \in Names : EvaluateVariable(name)
  \/ \E value \in Values : EvaluateValue(value)
  \/ \E r \in DOMAIN handles :
       \/ VariablesRequest(r)
       \/ ReadMemory(r) \/ WriteMemory(r)
       \/ \E id \in DOMAIN heap, value \in Values : SetVariable(r, heap[id].name, value)
  \/ set /\ \E name \in Names, value \in Values : SetExpression(name, value)

-----------------------------------------------------------------------------
Element == [name : Labels, value : Values \cup {"object"}, elements : Seq(1 .. MaxObjects),
            memory : Bytes \cup {"none"}, reference : 0 .. MaxHandles]

\* The types of the objects, the handles and the client's copies.
VariablesTypeOK ==
  /\ heap \in Seq(Element) /\ handles \in Seq(-1 .. MaxObjects)
  /\ variables \in Seq(1 .. MaxObjects)
  /\ view \in [1 .. MaxHandles -> Bytes \cup {"none"}]

(***************************************************************************)
(* The bytes an object remembers are of the value it has: they decode to   *)
(* it, through any sequence of assignments, sets and writes, also of bytes *)
(* that no string encodes to.                                              *)
(***************************************************************************)
MemoryCoherent ==
  \A id \in DOMAIN heap :
    heap[id].memory # "none" =>
      heap[id].value \in Strings /\ Decoded[heap[id].memory] = heap[id].value

(***************************************************************************)
(* A reference means one variable and a variable has one, however often it *)
(* is shown, evaluated or assigned to: the object that a handle was made   *)
(* for, or the one lazy variable whose value its wrapper holds.            *)
(***************************************************************************)
Owners(r) == {id \in DOMAIN heap : heap[id].reference = r}

ReferencesOwned ==
  \A r \in DOMAIN handles :
    handles[r] > 0 =>
      /\ \E id \in DOMAIN heap :
           Owners(r) = {id} /\ (heap[id].name \in LazyNames <=> id # handles[r])
      /\ \A q \in DOMAIN handles : q # r => handles[q] # handles[r]
=============================================================================
