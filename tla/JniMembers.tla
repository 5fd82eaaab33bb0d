------------------------------ MODULE JniMembers ------------------------------
(***************************************************************************)
(* Methods of Java classes that exist only as the guest names them         *)
(* (bridges/jni/runtime/class.c, method.c and native.c).  There            *)
(* is no class file: a method appears when its ID is asked for or when the *)
(* guest registers a native for it, in either order, in a class or in one  *)
(* above it.  An ID that was made up before the class that declares the    *)
(* method was known becomes an alias of the declaration.                   *)
(*                                                                         *)
(* One name and signature; constructors, which are not inherited, and the  *)
(* services that stand in for the methods of Android are left out.  All    *)
(* calls hold the lock of the machine.                                     *)
(***************************************************************************)
EXTENDS Naturals, FiniteSets

CONSTANTS
  Classes, NoClass,
  Super,      \* Super[c]: jni_super, from the table of parents, or NoClass
  Procs,      \* addresses of guest functions
  Statics     \* subset of BOOLEAN: kinds of methods asked for

VARIABLES
  natives,    \* natives[c]: the binding in a class: "none", "unbound" or a function
  methods     \* methods[id]: the class whose method the ID is an alias of, or NoClass

vars == <<natives, methods>>

Init ==
  /\ natives = [c \in Classes |-> "none"]
  /\ methods = <<>>

-----------------------------------------------------------------------------
\* A class and those above it; the lowest of some classes above one.
Above[c \in Classes] == {c} \cup (IF Super[c] = NoClass THEN {} ELSE Above[Super[c]])
Lowest(S) == CHOOSE c \in S : S \subseteq Above[c]

\* jni_assignable, without arrays; jni_instanceof of an object of class c.
Assignable(c, d) == d \in Above[c]

\* jni_binding: the classes in which a native was ever registered.  Unregistering
\* takes the function away and leaves the binding.
Declaring == {c \in Classes : natives[c] # "none"}
DeclaringAbove(c) == Declaring \cap Above[c]

\* Method IDs: in a class at most one alias and one that is not.
IdsIn(c, static) == {id \in DOMAIN methods : id.class = c /\ id.static = static}
Id(c, static, n) == [class |-> c, static |-> static, n |-> n]

\* jni_member: the ID of a class that is no alias, made if it is not there.
Own(c, static) ==
  LET own == {id \in IdsIn(c, static) : methods[id] = NoClass} IN
  IF own # {} THEN CHOOSE id \in own : TRUE ELSE Id(c, static, 1 + Cardinality(IdsIn(c, static)))
WithOwn(m, c, static) ==
  LET id == Own(c, static) IN [i \in DOMAIN m \cup {id} |-> IF i \in DOMAIN m THEN m[i] ELSE NoClass]

\* Mutant: an ID that was made up stays what it was.
DeclaredNoAlias(id) == id.class
\* Mutant: the declaration is looked for every time.
DeclaredAnew(id) == IF DeclaringAbove(id.class) = {} THEN id.class ELSE Lowest(DeclaringAbove(id.class))
\* jni_native_decl: the class whose method an ID means.
Declared(id) ==
  IF methods[id] # NoClass THEN methods[id]
  ELSE IF DeclaringAbove(id.class) = {} THEN id.class
  ELSE Lowest(DeclaringAbove(id.class))

\* What it leaves behind: the alias, and the method it is an alias of.
Settled(id) ==
  IF Declared(id) = id.class THEN methods
  ELSE LET m == WithOwn(methods, Declared(id), id.static) IN [m EXCEPT ![id] = Declared(id)]

-----------------------------------------------------------------------------
\* __lookup_method: upwards, the first class with a binding or an ID.
Known(c, static) == {d \in Above[c] : natives[d] # "none" \/ IdsIn(d, static) # {}}
GetMethodID(c, static) ==
  LET owner == Lowest(Known(c, static)) IN
  /\ methods' =
       IF Known(c, static) = {} THEN WithOwn(methods, c, static)
       ELSE IF natives[owner] # "none" THEN WithOwn(methods, owner, static)
       ELSE Settled(CHOOSE id \in IdsIn(owner, static) : TRUE)
  /\ UNCHANGED natives

\* __resolve_virtual_method: from the class of the object up to the class that
\* declares the method, the first with a binding; without one, the method itself.
Resolved(id, c) ==
  LET overriding == {d \in DeclaringAbove(c) : Assignable(d, Declared(id))} IN
  IF overriding = {} THEN Declared(id) ELSE Lowest(overriding)

\* jni_native_run of the method of a class: without a binding, the services.
Run(c) == IF natives[c] = "none" THEN "service" ELSE IF natives[c] = "unbound" THEN "link error" ELSE natives[c]

\* __dispatch_instance on an object of class c; __dispatch_nonvirtual as class d;
\* __dispatch_static on class c.
Virtual(id, c) == IF ~Assignable(c, Declared(id)) THEN "mismatch" ELSE Run(Resolved(id, c))
Nonvirtual(id, c, d) ==
  IF ~Assignable(c, Declared(id)) \/ ~Assignable(d, Declared(id)) \/ ~Assignable(c, d) THEN "mismatch"
  ELSE Run(Declared(id))
Static(id, c) == IF ~Assignable(c, Declared(id)) THEN "mismatch" ELSE Run(Declared(id))

\* Whatever comes of a call, it settles the ID, and a virtual one makes the ID of
\* the method it resolved to.
Call(id) ==
  /\ methods' = Settled(id)
  /\ UNCHANGED natives

CallVirtual(id, c) ==
  /\ ~id.static /\ Assignable(c, Declared(id)) /\ Resolved(id, c) \in Declaring
  /\ methods' = WithOwn(Settled(id), Resolved(id, c), FALSE)
  /\ UNCHANGED natives

-----------------------------------------------------------------------------
\* RegisterNatives of the method.  When memory runs out on the way the binding
\* has been made and has no function, or keeps the one it had.
Register(c, proc) ==
  /\ natives' = [natives EXCEPT ![c] = proc]
  /\ UNCHANGED methods

RegisterFails(c) ==
  /\ natives' = [natives EXCEPT ![c] = IF @ = "none" THEN "unbound" ELSE @]
  /\ UNCHANGED methods

\* UnregisterNatives of a class, and jni_runtime_clear_natives of all of them.
Unbound(S) == [c \in Classes |-> IF c \in S /\ natives[c] # "none" THEN "unbound" ELSE natives[c]]
Unregister(c) == natives' = Unbound({c}) /\ UNCHANGED methods
ClearNatives == natives' = Unbound(Classes) /\ UNCHANGED methods

Next ==
  \/ \E c \in Classes, static \in Statics : GetMethodID(c, static)
  \/ \E id \in DOMAIN methods : Call(id) \/ \E c \in Classes : CallVirtual(id, c)
  \/ \E c \in Classes, p \in Procs : Register(c, p)
  \/ \E c \in Classes : RegisterFails(c) \/ Unregister(c)
  \/ ClearNatives

Spec == Init /\ [][Next]_vars

-----------------------------------------------------------------------------
\* Whether a method was asked for before or after natives were registered for it
\* and for what overrides it, an object's call arrives at the lowest class above
\* the object's own that has a native; an ID is an alias only of a method that has
\* a native, in a class above its own, which has an ID itself.
Expected(c) == IF DeclaringAbove(c) = {} THEN "service" ELSE Run(Lowest(DeclaringAbove(c)))
CallsReachOverride ==
  /\ \A id \in DOMAIN methods :
       /\ ~id.static => \A c \in Classes : Assignable(c, id.class) => Virtual(id, c) = Expected(c)
       /\ id.static => Static(id, id.class) = Run(Declared(id))
       /\ methods[id] # NoClass =>
            /\ methods[id] \in DeclaringAbove(id.class) \ {id.class}
            /\ \E own \in IdsIn(methods[id], id.static) : methods[own] = NoClass

\* An ID that was called, or that has a native in its own class, means the same
\* declaration for good, although natives are registered between its class and
\* that one afterwards.
Fixed(id) == methods[id] # NoClass \/ id.class \in Declaring
MeaningKept == \A id \in DOMAIN methods : Fixed(id) => Fixed(id)' /\ Declared(id)' = Declared(id)
=============================================================================
