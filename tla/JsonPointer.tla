---------------------------- MODULE JsonPointer -----------------------------
(***************************************************************************)
(* getJSONPointer and joinPointer of src/internal/resolver/jsonpointer.go. *)
(*                                                                         *)
(* The characters are what escaping is about, so a pointer, a token and a  *)
(* key are sequences of one-character strings.  A decoded value is a       *)
(* string, an object (a function of its keys) or an array.                 *)
(***************************************************************************)
EXTENDS Integers, Sequences, SequencesExt

CONSTANTS
  NotFound,     \* no value at the pointer; also Atoi's error
  Char          \* the characters of keys and pointers

Digits == <<"0", "1", "2", "3", "4", "5", "6", "7", "8", "9">>
Text == Seq(Char)

ASSUME CharAssumption == {"~", "/"} \cup ToSet(Digits) \subseteq Char
ASSUME NumberAssumption == NotFound \notin Int

IsString(v) == v # NotFound /\ v.kind = "string"
IsObject(v) == v # NotFound /\ v.kind = "object"
IsArray(v) == v # NotFound /\ v.kind = "array"

(* strings.ReplaceAll of a pair of two different characters, so that no    *)
(* two occurrences overlap.                                                *)
ReplacePair(s, x, y, by) ==
  LET Begins(i) == i + 1 \in DOMAIN s /\ s[i] = x /\ s[i + 1] = y
      Ends(i) == i - 1 \in DOMAIN s /\ Begins(i - 1)
      Piece(i) == IF Begins(i) THEN <<by>>
                  ELSE IF Ends(i) THEN <<>> ELSE <<s[i]>>
  IN  FlattenSeq([i \in DOMAIN s |-> Piece(i)])

(* strings.ReplaceAll of one character. *)
ReplaceChar(s, x, by) ==
  FlattenSeq([i \in DOMAIN s |-> IF s[i] = x THEN by ELSE <<s[i]>>])

(* Wrong on purpose: "~01" is read as "/". *)
UnescapeTildeFirst(tok) ==
  ReplacePair(ReplacePair(tok, "~", "0", "~"), "~", "1", "/")

Unescape(tok) ==
  ReplacePair(ReplacePair(tok, "~", "1", "/"), "~", "0", "~")

Escape(token) ==
  ReplaceChar(ReplaceChar(token, "~", <<"~", "0">>), "/", <<"~", "1">>)

(* What a character adds to the tokens split so far. *)
Put(tokens, c) ==
  IF c = "/" THEN Append(tokens, <<>>)
  ELSE [tokens EXCEPT ![Len(tokens)] = Append(@, c)]

(* strings.Split at "/": at least one token, perhaps an empty one. *)
Split(s) ==
  LET tokens[n \in 0 .. Len(s)] ==
        IF n = 0 THEN <<<<>>>> ELSE Put(tokens[n - 1], s[n])
  IN  tokens[Len(s)]

DigitValue(c) == CHOOSE d \in 0 .. 9 : Digits[d + 1] = c

(* The number a sequence of digits stands for. *)
Decimal(digits) ==
  LET value[n \in 0 .. Len(digits)] ==
        IF n = 0 THEN 0 ELSE 10 * value[n - 1] + DigitValue(digits[n])
  IN  value[Len(digits)]

(* strconv.Atoi: a sign and leading zeros are accepted.  (A number that    *)
(* does not fit an int is an error to Go and no index of an array here.)   *)
Atoi(tok) ==
  LET signed == tok # <<>> /\ Head(tok) \in {"+", "-"}
      number == IF signed THEN Tail(tok) ELSE tok
  IN  IF number = <<>> \/ ~(ToSet(number) \subseteq ToSet(Digits))
        THEN NotFound
      ELSE IF signed /\ Head(tok) = "-" THEN -Decimal(number)
      ELSE Decimal(number)

(* strconv.Itoa, of the index of an item. *)
Itoa(i) ==
  LET numeral[n \in 0 .. i] ==
        IF n < 10 THEN <<Digits[n + 1]>>
        ELSE Append(numeral[n \div 10], Digits[(n % 10) + 1])
  IN  numeral[i]

(* One step into a value, by a key of it. *)
Child(node, key) ==
  IF IsObject(node) /\ key \in DOMAIN node.members THEN node.members[key]
  ELSE IF IsArray(node) /\ Atoi(key) # NotFound
          /\ Atoi(key) \in 0 .. Len(node.elements) - 1
    THEN node.elements[Atoi(key) + 1]
  ELSE NotFound

(* One key after the other. *)
Follow(doc, keys) ==
  LET cur[n \in 0 .. Len(keys)] ==
        IF n = 0 THEN doc ELSE Child(cur[n - 1], keys[n])
  IN  cur[Len(keys)]

GetJSONPointer(doc, pointer) ==
  IF pointer = <<>> THEN doc
  ELSE IF Head(pointer) # "/" THEN NotFound
  ELSE LET tokens == Split(Tail(pointer))
       IN  Follow(doc, [i \in DOMAIN tokens |-> Unescape(tokens[i])])

JoinPointer(base, token) == base \o <<"/">> \o Escape(token)

(* pointerString, which is used only with an empty string refused. *)
PointerString(item, pointer) ==
  LET v == GetJSONPointer(item, pointer)
  IN  IF IsString(v) /\ v.text # <<>> THEN v.text ELSE NotFound
=============================================================================
