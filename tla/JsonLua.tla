------------------------------- MODULE JsonLua -------------------------------
(***************************************************************************)
(* How JSON objects become Lua tables and Lua tables JSON objects          *)
(* (lua_chat.cpp): the arguments of every command and the replies of the   *)
(* services on the way in, every message that Lua sends on the way out.    *)
(* Lua has one kind of table, so the name of a field tells arrays from     *)
(* objects: "array_" stands before the key of an array.                    *)
(*                                                                         *)
(* A key is a sequence of words; the word "array_" is the prefix and <<>>  *)
(* the empty key.  JSON: [t, v] with v the items of an "array" in their    *)
(* order, and the function from keys to values of an "object".  Lua: [t,   *)
(* v] with v the function of a "table".  Strings and numbers are opaque;   *)
(* of a number, whether JSON has it as an integer or as a real.  Neither   *)
(* side says in which order the keys of an object come; Indexes come in    *)
(* theirs.  Objects have two keys at most, so there are two orders.        *)
(***************************************************************************)
EXTENDS Integers, Sequences, SequencesExt

CONSTANTS
    Documents  \* the objects that are received

Prefix == "array_"
Index(i) == <<"#", i>>
IsIndex(k) == k # <<>> /\ k[1] = "#"
HasPrefix(k) == k # <<>> /\ k[1] = Prefix

\* The keys of v in a fixed order: indexes ascending, short keys first.
Sorted(keys) == SetToSortSeq(keys, LAMBDA x, y :
    IF IsIndex(x) /\ IsIndex(y) THEN x[2] < y[2] ELSE Len(x) < Len(y))

Orders == {"forward", "backward"}

KeysOf(v, order) ==
    IF order = "forward" \/ \A k \in DOMAIN v : IsIndex(k) THEN Sorted(DOMAIN v)
    ELSE Reverse(Sorted(DOMAIN v))

\* The function a sequence of fields makes, each overwriting what was there.
Set(fields) ==
    [k \in {fields[i].key : i \in DOMAIN fields} |->
        fields[SelectLastInSeq(fields, LAMBDA f : f.key = k)].value]

-----------------------------------------------------------------------------
(* jsonToLua *)

LuaKey(k, json) == IF json.t = "array" THEN <<Prefix>> \o k ELSE k

\* The types j2lParseItem knows; null makes no field and no item.
MakesItem(json) == json.t # "null"

\* j2lParseItem: the value a field or an item gets.
RECURSIVE ToLua(_, _)
ToLua(json, order) ==
    CASE json.t = "object" ->
           LET keys == SelectSeq(KeysOf(json.v, order), LAMBDA k : MakesItem(json.v[k])) IN
           [t |-> "table",
            v |-> Set([i \in DOMAIN keys |->
                         [key |-> LuaKey(keys[i], json.v[keys[i]]),
                          value |-> ToLua(json.v[keys[i]], order)]])]
      [] json.t = "array" ->
           [t |-> "table",
            v |-> [k \in {Index(i) : i \in {j \in DOMAIN json.v : MakesItem(json.v[j])}} |->
                      ToLua(json.v[k[2]], order)]]
      [] json.t \in {"integer", "real"} -> [t |-> "number", v |-> json.v]
      [] OTHER -> [t |-> json.t, v |-> json.v]

-----------------------------------------------------------------------------
(* luaToJson *)

IsArray(k, lua) == lua.t = "table" /\ HasPrefix(k)

\* Mutated form of JsonKey: the prefix stays.
JsonKeyKept(k, lua) == IF IsIndex(k) THEN <<>> ELSE k

\* The key of an item: an index has none, and a table loses the prefix.
JsonKey(k, lua) ==
    IF IsIndex(k) THEN <<>> ELSE IF IsArray(k, lua) THEN Tail(k) ELSE k

\* l2jParseItem: the item of the value at key k.
RECURSIVE ToJson(_, _, _)
ToJson(k, lua, order) ==
    LET keys == KeysOf(lua.v, order)
        item(i) == ToJson(keys[i], lua.v[keys[i]], order) IN
    CASE IsArray(k, lua) -> [t |-> "array", v |-> [i \in DOMAIN keys |-> item(i)]]
      [] lua.t = "table" /\ ~IsArray(k, lua) ->
           [t |-> "object",
            v |-> Set([i \in DOMAIN keys |->
                         [key |-> JsonKey(keys[i], lua.v[keys[i]]), value |-> item(i)]])]
      [] lua.t = "number" -> [t |-> "real", v |-> lua.v]
      [] OTHER -> lua

-----------------------------------------------------------------------------

VARIABLES
    received,  \* the object of a message
    held,      \* the table a handler has of it
    sent       \* the object of a message it is sent back in

vars == <<received, held, sent>>
None == [t |-> "none", v |-> <<>>]

\* fromjson, and the argument of a handler.
JsonToLua == \E order \in Orders :
    /\ held = None
    /\ held' = ToLua(received, order)
    /\ UNCHANGED <<received, sent>>

\* tojson, and the messages of u.send and the like.
LuaToJson == \E order \in Orders :
    /\ held # None /\ sent = None
    /\ sent' = ToJson(<<>>, held, order)
    /\ UNCHANGED <<received, held>>

Init == received \in Documents /\ held = None /\ sent = None

Next == JsonToLua \/ LuaToJson

Spec == Init /\ [][Next]_vars

-----------------------------------------------------------------------------
(* Properties *)

RECURSIVE IsJson(_)
IsJson(json) ==
    CASE json.t = "object" -> \A k \in DOMAIN json.v : IsJson(json.v[k])
      [] json.t = "array" -> \A i \in DOMAIN json.v : IsJson(json.v[i])
      [] OTHER -> json.t \in {"boolean", "integer", "real", "string", "null"}

RECURSIVE IsLua(_)
IsLua(lua) ==
    IF lua.t = "table"
    THEN \A k \in DOMAIN lua.v : IsLua(lua.v[k])
    ELSE lua.t \in {"boolean", "number", "string"}

TypeOK ==
    /\ received.t = "object" /\ IsJson(received)
    /\ held # None => held.t = "table" /\ IsLua(held)
    /\ sent # None => sent.t = "object" /\ IsJson(sent)

\* The document with its integers as reals, which is all Lua knows.
RECURSIVE Meaning(_)
Meaning(json) ==
    CASE json.t \in {"object", "array"} ->
           [json EXCEPT !.v = [k \in DOMAIN json.v |-> Meaning(json.v[k])]]
      [] json.t = "integer" -> [json EXCEPT !.t = "real"]
      [] OTHER -> json

\* Nothing in the document is null, no array is an item of an array, no
\* object has a key that begins with "array_", and no two keys meet.
RECURSIVE Plain(_)
Plain(json) ==
    CASE json.t = "object" ->
           \A k \in DOMAIN json.v :
             /\ Plain(json.v[k])
             /\ ~(HasPrefix(k) /\ json.v[k].t = "object")
             /\ \A l \in DOMAIN json.v :
                  LuaKey(k, json.v[k]) = LuaKey(l, json.v[l]) => k = l
      [] json.t = "array" ->
           \A i \in DOMAIN json.v : Plain(json.v[i]) /\ json.v[i].t # "array"
      [] OTHER -> json.t # "null"

\* What a handler passes on is what it got, arrays and objects told apart at
\* every depth and the items in their order: for the plain documents, in
\* whichever order Lua and the JSON library walk them, and for no others.
PlainComesBack ==
    sent # None => (sent = Meaning(received) <=> Plain(received))

\* The documents keep their types on the way, and come back.
DocumentsOK == TypeOK /\ PlainComesBack
=============================================================================
