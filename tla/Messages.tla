------------------------------- MODULE Messages -------------------------------
(*****************************************************************************)
(* What the message classes promise: two messages of one class are contents  *)
(* by the descriptor, with no caches, no arenas and no order of members, and *)
(* whoever reads the bytes of one by the descriptor gets its content.        *)
(*****************************************************************************)
EXTENDS ProtoSchema

VARIABLES
  class,    \* the class of the messages
  content,  \* <<content of the first message, content of the second>>
  wire,     \* the content of the last message written, in a sequence of one
  call      \* the last call: <<function, message, ...>>

avars == <<class, content, wire, call>>

Init == class \in Classes /\ DOMAIN content = {1, 2} /\ wire = << >> /\ call = << "new" >>

\* Message x gets a new content by a call.
Put(x, new, how) ==
  /\ call' = how
  /\ content' = [content EXCEPT ![x] = new]
  /\ UNCHANGED <<class, wire>>

Set(x, name, v) ==
  Put(x, [content[x] EXCEPT ![name] = v], << "set", x, name, v >>)
ClearField(x, name) ==
  Put(x, [content[x] EXCEPT ![name] = Absent(Schema[class][name])], << "clear field", x, name >>)
Mutable(x, name) ==
  Put(x, [content[x] EXCEPT ![name] = IF @ = << >> THEN << Empty(Schema[class][name].type) >>
                                      ELSE @], << "mutable", x, name >>)
Add(x, name, v) ==
  Put(x, [content[x] EXCEPT ![name] = Append(@, v)], << "add", x, name, v >>)
Clear(x) == Put(x, Empty(class), << "clear", x >>)
Merge(x, y) == Put(x, Merged(class, content[x], content[y]), << "merge", x, y >>)
Copy(x, y) == Put(x, content[y], << "copy", x, y >>)
Read(x) == wire # << >> /\ Put(x, wire[1], << "read", x >>)
Exchange(x, y) ==
  /\ call' = << "swap", x, y >>
  /\ content' = [content EXCEPT ![x] = content[y], ![y] = content[x]]
  /\ UNCHANGED <<class, wire>>
Write(x) ==
  /\ call' = << "write", x >>
  /\ wire' = << content[x] >>
  /\ UNCHANGED <<class, content>>

\* The call is the one that call' names.
Next ==
  \E x \in {1, 2} :
    \/ \E name \in FieldNames(class) :
         \/ call'[1] = "set" /\ Set(x, name, call'[4])
         \/ call'[1] = "add" /\ Add(x, name, call'[4])
         \/ ClearField(x, name)
         \/ IsMessage(Schema[class][name]) /\ ~ Schema[class][name].repeated /\ Mutable(x, name)
    \/ Clear(x) \/ Read(x) \/ Write(x)
    \/ \E y \in {1, 2} : (y # x /\ Merge(x, y)) \/ Copy(x, y) \/ Exchange(x, y)

Spec == Init /\ [][Next]_avars
===============================================================================
