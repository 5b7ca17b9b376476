----------------------------- MODULE Marshalling -----------------------------
(***************************************************************************)
(* How emitter.c passes the arguments of a call to an async function: the  *)
(* caller (emit_expr) packs them and gives thread_pool_submit a function   *)
(* and one pointer; the function, or the wrapper that emit_program writes  *)
(* for it, unpacks them.  A type is a sequence: "raw" and "fat" pointers   *)
(* outside, a name inside.  A value is the sequence of its bytes.          *)
(***************************************************************************)
EXTENDS Naturals, Sequences, SequencesExt

Scalars    == {"i8", "i16", "i32", "i64", "f64"}
Containers == {"queue", "stack"}

(* An argument: its type; whether the checker has set e->type (it does for *)
(* names, casts and indexing, not for literals, calls and operations); and *)
(* whether it is a variable given away, `@x`, which is emitted as (&x).    *)
Argument(t, known, give) == [type |-> t, known |-> known, give |-> give]

IsPointer(t)   == Head(t) \in {"raw", "fat"}
IsHandle(t)    == Head(t) \in Containers
IsScalar(t)    == Head(t) \in Scalars
Width(t) == CASE t[1] = "i8" -> 1 [] t[1] = "i16" -> 2 [] t[1] = "i32" -> 4
              [] t[1] = "fat" -> 16 [] IsHandle(t) -> 32 [] OTHER -> 8
Align(t) == IF Width(t) > 8 THEN 8 ELSE Width(t)

(* The bytes of a value, by number: its own, and those made of it when C   *)
(* extends an integer, converts a double or an integer, or takes the       *)
(* address of the variable.                                                *)
Garbage == 99
Bytes(first, t) == [i \in 1..Width(t) |-> first + i]
Value(arg)  == IF arg.give THEN Bytes(50, <<"raw">>) ELSE Bytes(0, arg.type)
Assignable(a, b) == a = b \/ (IsScalar(a) /\ IsScalar(b))
Convert(v, a, b) ==
    IF a = b \/ ~IsScalar(a) THEN v
    ELSE IF a = <<"f64">> THEN Bytes(20, b)
    ELSE IF b = <<"f64">> THEN Bytes(30, b)
    ELSE [i \in 1..Width(b) |-> IF i <= Width(a) THEN v[i] ELSE 0]
-----------------------------------------------------------------------------
(* The caller.  The type of an argument is the checker's, or that of the   *)
(* parameter.  One pointer goes as it is and one container as its address, *)
(* to the function itself; anything else goes to the wrapper, one value in *)
(* an int32_t, several in a struct.                                        *)
ArgType(args, params, j) ==
    IF args[j].known THEN args[j].type
    ELSE IF j <= Len(params) THEN params[j] ELSE <<"i32">>

(* Mutant: a pointer is boxed like any other value.                        *)
MarshalBoxing(args, params) ==
    [how   |-> IF args = <<>> THEN "direct" ELSE "wrapper",
     what  |-> IF args = <<>> THEN "nothing" ELSE IF Len(args) = 1 THEN "box" ELSE "struct",
     types |-> [j \in DOMAIN args |-> ArgType(args, params, j)]]

Marshal(args, params) ==
    LET types == [j \in DOMAIN args |-> ArgType(args, params, j)]
        what  == IF args = <<>> THEN "nothing"
                 ELSE IF Len(args) > 1 THEN "struct"
                 ELSE IF IsHandle(types[1]) THEN "address"
                 ELSE IF IsPointer(types[1]) THEN "pointer" ELSE "box"
    IN  [how   |-> IF what \in {"box", "struct"} THEN "wrapper" ELSE "direct",
         what  |-> what,
         types |-> types]

RoundUp(n, a) == n + ((a - (n % a)) % a)

(* A struct in memory: the offset of each member, and the bytes written.   *)
Offset(types) ==
    LET off[j \in 1..Len(types)] ==
            IF j = 1 THEN 0
            ELSE RoundUp(off[j - 1] + Width(types[j - 1]), Align(types[j]))
    IN  off
Written(types, values, b) ==
    LET at == {j \in DOMAIN types : b \in Offset(types)[j] + 1 .. Offset(types)[j] + Width(types[j])}
    IN  IF at = {} THEN Garbage
        ELSE LET j == CHOOSE j \in at : TRUE IN values[j][b - Offset(types)[j]]

(* What the caller writes compiles: `*arg = x` and `arg->argJ = x`.        *)
Packs(call) ==
    CASE call.what = "box"     -> Assignable(call.args[1].type, <<"i32">>)
      [] call.what = "struct"  -> \A j \in DOMAIN call.args :
                                     /\ ~IsHandle(call.types[j])
                                     /\ Assignable(call.args[j].type, call.types[j])
      [] call.what = "pointer" -> Head(call.args[1].type) = "raw"
      [] OTHER -> TRUE
Packed(call) ==
    CASE call.what = "box"    -> <<Convert(Value(call.args[1]), call.args[1].type, <<"i32">>)>>
      [] call.what = "struct" -> [j \in DOMAIN call.args |->
                                    Convert(Value(call.args[j]), call.args[j].type, call.types[j])]
      [] OTHER -> [j \in DOMAIN call.args |-> Value(call.args[j])]
-----------------------------------------------------------------------------
(* The wrapper: of no use for a container, and not C for one fat pointer,  *)
(* which is cast from void *.                                              *)
HasWrapper(params) == \/ Len(params) > 1
                      \/ Len(params) = 1 /\ ~IsHandle(params[1])
Unpacks(params) == ~(Len(params) = 1 /\ Head(params[1]) = "fat")

(* The bytes that parameter j is read from, in a wrapper or in a function  *)
(* that was submitted itself.                                              *)
Received(call, params, j) ==
    CASE call.what = "box"     -> [i \in 1..Width(params[j]) |->
                                     Written(<<<<"i32">>>>, Packed(call), i)]
      [] call.what = "struct"  -> [i \in 1..Width(params[j]) |->
                                     Written(call.types, Packed(call), Offset(params)[j] + i)]
      [] call.what = "pointer" -> Packed(call)[1]
      [] OTHER                 -> [i \in 1..Width(params[j]) |-> Garbage]

(* A call whose arguments arrive as those of any C call do.                *)
Arrives(call, params) ==
    /\ Packs(call) /\ Unpacks(params)
    /\ \A j \in DOMAIN params :
          Received(call, params, j) =
             Convert(Bytes(0, call.args[j].type), call.args[j].type, params[j])
=============================================================================
