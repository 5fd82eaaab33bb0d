------------------------------ MODULE GlBuffers ------------------------------
(***************************************************************************)
(* Buffer objects and vertex arrays (bridges/opengl/buffers.c).  The guest *)
(* has names of its own; behind each is an object with the native handle.  *)
(* A deleted object keeps its handle as long as some vertex array still    *)
(* refers to it, while its name may be given to another object.  One       *)
(* thread owns the context.                                                *)
(*                                                                         *)
(* `gl` is vitaGL, which is outside: handles, and what it has bound.       *)
(***************************************************************************)
EXTENDS Naturals, FiniteSets
Sets == INSTANCE FiniteSetsExt

CONSTANTS
  MaxName,    \* the last name before the counter starts again at 1 (2^32 - 1)
  Objects,    \* bound: memory for objects
  Arrays,     \* bound: vertex arrays besides the default one, 0
  Attribs     \* vertex attributes

VARIABLES
  objects,    \* objects[o]: a buffer object, or Freed
  arrayBuffer, \* __array_buffer: an object, or 0
  arrays,     \* arrays[a]: what a vertex array refers to, or NoArray
  current,    \* __current_array
  nextName,   \* __next_name
  gl

vars == <<objects, arrayBuffer, arrays, current, nextName, gl>>

Freed == [name |-> 0, native |-> 0, created |-> FALSE, deleted |-> FALSE]
Unbound == [there |-> TRUE, element |-> 0, attribs |-> [i \in Attribs |-> 0]]
NoArray == [Unbound EXCEPT !.there = FALSE]
AllArrays == {0} \cup Arrays

Init ==
  /\ objects = [o \in Objects |-> Freed]
  /\ arrayBuffer = 0
  /\ arrays = [a \in AllArrays |-> IF a = 0 THEN Unbound ELSE NoArray]
  /\ current = 0
  /\ nextName = 1
  /\ gl = [live |-> {}, array |-> 0,
           element |-> [a \in AllArrays |-> 0], attribs |-> [a \in AllArrays |-> [i \in Attribs |-> 0]]]

Least(S) == IF S = {} THEN 0 ELSE Sets!Min(S)
Native(o) == IF o = 0 THEN 0 ELSE objects[o].native

\* __find_buffer, of a name that is not 0; 0 if there is none.
Find(name) == Least({o \in Objects : name # 0 /\ objects[o].name = name /\ ~objects[o].deleted})
FindNative(native) == Least({o \in Objects : native # 0 /\ objects[o].native = native})

\* Mutant: only the bound vertex array is looked at.
ReferencedHere(binding, all, o) == o = binding \/ all[current].element = o \/ \E i \in Attribs : all[current].attribs[i] = o
\* __is_referenced.
Referenced(binding, all, o) ==
  o = binding \/ \E a \in AllArrays : all[a].element = o \/ \E i \in Attribs : all[a].attribs[i] = o

\* __collect_deleted, from the objects and bindings a call has arrived at: objects
\* that were deleted and that nothing refers to go, with their handles.
Collect(objs, binding, all, native) ==
  LET gone == {o \in Objects : objs[o].deleted /\ ~Referenced(binding, all, o)} IN
  /\ objects' = [o \in Objects |-> IF o \in gone THEN Freed ELSE objs[o]]
  /\ gl' = [native EXCEPT !.live = @ \ {objs[o].native : o \in gone}]
  /\ arrayBuffer' = binding
  /\ arrays' = all

-----------------------------------------------------------------------------
\* __allocate_name: the next names that no live object has, one after the other.
After(name) == IF name = MaxName THEN 1 ELSE name + 1
NamesFrom == [k \in 0..MaxName - 1 |-> 1 + ((nextName - 1 + k) % MaxName)]
Unused(used) == {k \in 0..MaxName - 1 : Find(NamesFrom[k]) = 0 /\ NamesFrom[k] \notin used}
FreeObjects == {o \in Objects : objects[o] = Freed}

\* bridge_gl_gen_buffers of one name; a list of them is one after the other, and a
\* list that fails gives back what it has reserved.
GenBuffer ==
  LET free == Unused({})  k == Sets!Min(free) IN
  /\ free # {} /\ FreeObjects # {}
  /\ objects' = [objects EXCEPT ![Sets!Min(FreeObjects)] = [Freed EXCEPT !.name = NamesFrom[k]]]
  /\ nextName' = After(NamesFrom[k])
  /\ UNCHANGED <<arrayBuffer, arrays, current, gl>>

GenTwo ==
  LET one == Sets!Min(Unused({}))  more == Unused({NamesFrom[one]}) \cap one + 1..MaxName - 1 IN
  /\ Unused({}) # {}
  /\ \/ /\ more # {} /\ Cardinality(FreeObjects) > 1
        /\ LET o == Sets!Min(FreeObjects)  p == Sets!Min(FreeObjects \ {o})  two == Sets!Min(more) IN
             /\ objects' = [objects EXCEPT ![o] = [Freed EXCEPT !.name = NamesFrom[one]],
                                           ![p] = [Freed EXCEPT !.name = NamesFrom[two]]]
             /\ nextName' = After(NamesFrom[two])
     \/ /\ Cardinality(FreeObjects) = 1 \/ more = {}
        /\ nextName' = IF more = {} THEN After(NamesFrom[one]) ELSE After(NamesFrom[Sets!Min(more)])
        /\ UNCHANGED objects
  /\ UNCHANGED <<arrayBuffer, arrays, current, gl>>

\* bridge_gl_bind_buffer.  A name that was never generated gets an object; the
\* handle is made when the object is bound for the first time.
Bound(target, o, handle, native) ==
  IF target = "array" THEN [native EXCEPT !.array = handle] ELSE [native EXCEPT !.element[current] = handle]
Bind(target, name) ==
  LET found == Find(name)
      o == IF found # 0 THEN found ELSE Least(FreeObjects)
      handle == IF found # 0 /\ objects[found].native # 0 THEN objects[found].native
                ELSE Sets!Min(Objects \ gl.live)
      object == [name |-> name, native |-> handle, created |-> TRUE, deleted |-> FALSE]
      all == IF target = "array" THEN arrays
             ELSE [arrays EXCEPT ![current].element = IF name = 0 THEN 0 ELSE o]
      binding == IF target # "array" THEN arrayBuffer ELSE IF name = 0 THEN 0 ELSE o
  IN
  /\ IF name = 0 THEN Collect(objects, binding, all, Bound(target, 0, 0, gl))
     ELSE /\ o # 0
          /\ Collect([objects EXCEPT ![o] = object], binding, all,
                     [Bound(target, o, handle, gl) EXCEPT !.live = @ \cup {handle}])
  /\ UNCHANGED <<current, nextName>>

\* bridge_gl_delete_buffers of one name: the object is unbound from the context
\* and from the bound vertex array; others go on using it.
Delete(name) ==
  LET o == Find(name)
      binding == IF arrayBuffer = o THEN 0 ELSE arrayBuffer
      loose(f) == [i \in Attribs |-> IF arrays[current].attribs[i] = o THEN 0 ELSE f[i]]
      all == [arrays EXCEPT ![current].element = IF @ = o THEN 0 ELSE @, ![current].attribs = loose(@)]
  IN
  /\ o # 0
  /\ Collect([objects EXCEPT ![o].deleted = TRUE], binding, all,
             [gl EXCEPT !.array = Native(binding), !.element[current] = Native(all[current].element),
                        !.attribs[current] = loose(@)])
  /\ UNCHANGED <<current, nextName>>

\* bridge_gl_vertex_attrib_pointer: vitaGL takes the bound buffer, or refuses; what
\* it has now is asked for.
AttribPointer(i, taken) ==
  LET native == IF taken THEN [gl EXCEPT !.attribs[current][i] = gl.array] ELSE gl IN
  /\ Collect(objects, arrayBuffer,
             [arrays EXCEPT ![current].attribs[i] = FindNative(native.attribs[current][i])], native)
  /\ UNCHANGED <<current, nextName>>

GenArray(a) ==
  /\ ~arrays[a].there
  /\ arrays' = [arrays EXCEPT ![a] = Unbound]
  /\ UNCHANGED <<objects, arrayBuffer, current, nextName, gl>>

BindArray(a) ==
  /\ arrays[a].there
  /\ current' = a
  /\ UNCHANGED <<objects, arrayBuffer, arrays, nextName, gl>>

DeleteArray(a) ==
  /\ a # 0 /\ arrays[a].there
  /\ current' = IF current = a THEN 0 ELSE current
  /\ Collect(objects, arrayBuffer, [arrays EXCEPT ![a] = NoArray],
             [gl EXCEPT !.element[a] = 0, !.attribs[a] = [i \in Attribs |-> 0]])
  /\ UNCHANGED nextName

\* bridge_gl_shutdown_buffers: vertex arrays, bindings, then all objects.
Shutdown ==
  /\ objects' = [o \in Objects |-> Freed]
  /\ arrayBuffer' = 0 /\ current' = 0 /\ nextName' = 1
  /\ arrays' = [a \in AllArrays |-> IF a = 0 THEN Unbound ELSE NoArray]
  /\ gl' = [live |-> gl.live \ {objects[o].native : o \in Objects}, array |-> 0,
            element |-> [a \in AllArrays |-> 0], attribs |-> [a \in AllArrays |-> [i \in Attribs |-> 0]]]

Next ==
  \/ GenBuffer \/ GenTwo \/ Shutdown
  \/ \E target \in {"array", "element"}, name \in 0..MaxName : Bind(target, name)
  \/ \E name \in 1..MaxName : Delete(name)
  \/ \E i \in Attribs, taken \in BOOLEAN : AttribPointer(i, taken)
  \/ \E a \in Arrays : GenArray(a) \/ DeleteArray(a)
  \/ \E a \in AllArrays : BindArray(a)

-----------------------------------------------------------------------------
\* vitaGL never has a buffer bound, in any vertex array, that was given back to
\* it; what it has bound is what the bridge thinks, so queries name the right
\* buffer; handles are neither lost nor shared; a name means one object; and
\* deleted objects stay only while something refers to them.
BuffersTracked ==
  /\ gl.array = Native(arrayBuffer)
  /\ \A a \in AllArrays :
       /\ gl.element[a] = Native(arrays[a].element)
       /\ \A i \in Attribs : gl.attribs[a][i] = Native(arrays[a].attribs[i])
       /\ {gl.element[a]} \cup {gl.attribs[a][i] : i \in Attribs} \subseteq gl.live \cup {0}
  /\ gl.live = {objects[o].native : o \in Objects} \ {0}
  /\ \A o, p \in Objects : o # p /\ objects[o] # Freed =>
       /\ objects[o].native # 0 => objects[o].native # objects[p].native
       /\ objects[o].name = objects[p].name => objects[o].deleted \/ objects[p].deleted
  /\ \A o \in Objects : objects[o].deleted => Referenced(arrayBuffer, arrays, o)
=============================================================================
