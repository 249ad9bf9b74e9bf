------------------------------- MODULE Config -------------------------------
(***************************************************************************)
(* ConfigManager's lookup (impl/src/io/ConfigManager.cpp) in a document    *)
(* that never changes once it is loaded.  A path is the sequence of keys   *)
(* that boost::split makes of it.  Of a number it matters what is before   *)
(* the point and whether anything is behind it.                            *)
(***************************************************************************)
EXTENDS Integers, Sequences

Null == [kind |-> "null"]
Object(fields) == [kind |-> "object", fields |-> fields]
Number(whole, fraction) ==
  [kind |-> "number", whole |-> whole, fraction |-> fraction]
Text(text) == [kind |-> "text", text |-> text]
Flag(b) == [kind |-> "flag", b |-> b]
TypeError == [kind |-> "type_error"]

(* json::operator[] with a key, on the copy that accumulate passes along:  *)
(* a key that is not there is put there with null, and null itself becomes *)
(* an object first; any other value throws.                                *)
At(json, key) ==
  CASE json.kind = "object" /\ key \in DOMAIN json.fields -> json.fields[key]
    [] json.kind = "object" /\ key \notin DOMAIN json.fields -> Null
    [] json.kind = "null" -> Null
    [] OTHER -> TypeError

(* Mutant: a path that leads nowhere stands for an empty text.             *)
SubJson_Default(json, path) ==
  LET sub[i \in 0 .. Len(path)] ==
        IF i = 0 THEN json ELSE At(sub[i - 1], path[i])
  IN  IF sub[Len(path)] = Null THEN Text("") ELSE sub[Len(path)]

(* std::accumulate with operator[] over the keys of the path.              *)
SubJson(json, path) ==
  LET sub[i \in 0 .. Len(path)] ==
        IF i = 0 THEN json ELSE At(sub[i - 1], path[i])
  IN  sub[Len(path)]

(* The conversion to an integer type keeps the low bits.  Of a negative    *)
(* number 32 bits make a huge one.                                         *)
Huge == 2^30
Narrowed(n, T) ==
  CASE T = "int8"   -> ((n + 128) % 256) - 128
    [] T = "uint8"  -> n % 256
    [] T = "uint32" -> IF n >= 0 THEN n ELSE Huge

(* json::get<T>.  Integer types take a flag for a number and drop what is  *)
(* behind the point.                                                       *)
Get(json, T) ==
  CASE T = "string" /\ json.kind = "text" -> json
    [] T = "double" /\ json.kind = "number" -> json
    [] T \notin {"string", "double"} /\ json.kind = "number"
         -> Number(Narrowed(json.whole, T), FALSE)
    [] T \notin {"string", "double"} /\ json.kind = "flag"
         -> Number(IF json.b THEN 1 ELSE 0, FALSE)
    [] OTHER -> TypeError

GetValue(json, path, T) == Get(SubJson(json, path), T)
=============================================================================
