--------------------------- MODULE ArgumentsProofs ---------------------------
(***************************************************************************)
(* Proofs about Arguments, whatever else a game passes: the bytes a load   *)
(* reads are the right ones and cannot be collected, and the Lua stack is  *)
(* what every function expects.                                            *)
(***************************************************************************)
EXTENDS Arguments, SequenceTheorems, TLAPS

Slots == Values \cup {"self", "name", "fadeIn", "fadeOut", "number", "list", "file data",
                      "moc data", "message", "newMesh", "object", "eye"}

\* The arguments are in place, with n more values above them.
Above(n) ==
    /\ Len(stack) = Len(call.args) + n
    /\ \A i \in 1 .. Len(call.args) : stack[i] = call.args[i]

\* loadModel has parsed its JSON; then its FileData is still on the stack.
Second == call.function = "loadModel" /\ parsed = <<"file data">>
Json == Append(call.args, "file data")

\* What a call that has loaded its data leaves on the stack
Finished ==
    /\ parsed = Wanted
    /\ call.function \in Constructors => Top = "object" /\ \E n \in 1 .. 5 : Above(n)
    /\ call.function = "loadMotion" => stack = call.args
    /\ call.function \notin Constructors \cup {"loadMotion"} => stack = Append(call.args, buffer)

\* What is on the stack of a call, step by step, and what it has parsed
StackInv ==
    /\ stack \in Seq(Slots) /\ call.args \in Seq(Slots) /\ call.list \in Nat
    /\ stage \in {"argument", "size", "pointer", "load", "moc", "return", "list", "idle"}
    /\ stage \in {"argument", "size", "pointer", "load", "moc"} => Held(stack) \subseteq alive
    /\ stage \in {"argument", "size", "pointer", "load", "moc", "return"} =>
            call.function \in Functions
    /\ At("argument") => /\ stack = call.args /\ parsed = <<>>
                         /\ Index \in DOMAIN stack /\ Argument = call.value
    /\ stage \in {"size", "pointer"} =>
            \/ parsed = <<>> /\ stack = Json /\ Data = "file data"
            \/ Second /\ stack = Append(Json, "moc data") /\ Data = "file data"
    /\ At("load") =>
            /\ buffer \in Slots
            /\ call.function = "loadModel" => Data = "file data"
            /\ \/ parsed = <<>> /\ stack = Append(call.args, buffer) /\ buffer = Data
               \/ Second /\ stack = Append(Json, buffer) /\ buffer = "moc data"
    /\ At("moc") => Second /\ stack = Json /\ Data = "file data"
    /\ At("return") => buffer \in Slots /\ Finished
    /\ At("list") => \E n \in 0 .. call.list : Above(n)
    /\ At("idle") => stack = <<>>
    /\ \/ parsed = <<>> \/ parsed = <<Data>>
       \/ call.function = "loadModel" /\ parsed = <<Data, "moc data">>

-----------------------------------------------------------------------------

\* Sequences: the last element, what is below it, and what a value more adds
LEMMA Appending ==
    ASSUME NEW S, NEW s \in Seq(S), NEW a \in S
    PROVE  /\ Append(s, a) \in Seq(S) /\ Len(Append(s, a)) = Len(s) + 1
           /\ Append(s, a)[Len(Append(s, a))] = a
           /\ \A i \in 1 .. Len(s) : Append(s, a)[i] = s[i]
           /\ Held(Append(s, a)) = Held(s) \cup {a}
<1>1. /\ Append(s, a) \in Seq(S) /\ Len(Append(s, a)) = Len(s) + 1
      /\ \A i \in 1 .. Len(s) : Append(s, a)[i] = s[i]
      /\ Append(s, a)[Len(s) + 1] = a
  BY AppendProperties
<1>2. Len(s) \in Nat /\ DOMAIN s = 1 .. Len(s) /\ DOMAIN Append(s, a) = 1 .. Len(s) + 1
  BY <1>1
<1>3. \A i \in 1 .. Len(s) + 1 : i \in 1 .. Len(s) \/ i = Len(s) + 1
  BY <1>2
<1>4. Len(s) + 1 \in 1 .. Len(s) + 1 /\ \A i \in 1 .. Len(s) : i \in 1 .. Len(s) + 1
  BY <1>2
<1>5. Held(Append(s, a)) = Held(s) \cup {a}
  BY <1>1, <1>2, <1>3, <1>4 DEF Held
<1> QED
  BY <1>1, <1>5

\* The prefix of a sequence that starts with another is that other.
LEMMA Prefix ==
    ASSUME NEW S, NEW s \in Seq(S), NEW t \in Seq(S), Len(s) <= Len(t),
           \A i \in 1 .. Len(s) : t[i] = s[i]
    PROVE  SubSeq(t, 1, Len(s)) = s
  OBVIOUS

\* The sequence of one element
LEMMA One ==
    ASSUME NEW S, NEW a \in S
    PROVE  <<a>> \in Seq(S) /\ Len(<<a>>) = 1 /\ <<a>>[1] = a
  OBVIOUS

\* The empty stack
LEMMA EmptyStack == <<>> \in Seq(Slots) /\ Len(<<>>) = 0
  OBVIOUS

\* Nothing is on the stack before the first call.
LEMMA StackInit == ASSUME Init PROVE StackInv
<1>1. call = Idle /\ call.args = <<>> /\ call.list = 0 /\ stage = "idle" /\ stack = <<>>
      /\ parsed = <<>>
  BY DEF Init, Idle
<1>2. stack \in Seq(Slots) /\ call.args \in Seq(Slots)
  BY <1>1, EmptyStack, Zenon
<1> QED
  BY <1>1, <1>2 DEF StackInv, At

\* A call that ends leaves nothing on the stack and may have parsed its data.
LEMMA EndKeeps ==
    ASSUME StackInv, NEW how, End(how),
           \/ parsed' = parsed \/ parsed' = <<Data>>
           \/ call.function = "loadModel" /\ parsed' = <<Data, "moc data">>
    PROVE  StackInv'
<1>1. stage' = "idle" /\ stack' = <<>> /\ call' = call
  BY DEF End
<1>2. stack' \in Seq(Slots)
  BY <1>1, EmptyStack, Zenon
<1>3. Data' = Data
  BY <1>1 DEF Data, IsPath
<1> QED
  BY <1>1, <1>2, <1>3 DEF StackInv, At

\* A step that leaves the stack as it is
LEMMA SameCall ==
    ASSUME call' = call
    PROVE  Data' = Data /\ Wanted' = Wanted
  BY DEF Data, Wanted, IsPath

\* The arguments in place, the data among them
LEMMA LeadSlots ==
    ASSUME NEW f \in Functions, NEW v \in Values, NEW extra \in Extras
    PROVE  /\ Lead[f] \o <<v>> \o extra \in Seq(Slots)
           /\ (Lead[f] \o <<v>> \o extra)[Len(Lead[f]) + 1] = v
           /\ Len(Lead[f]) + 1 \in DOMAIN (Lead[f] \o <<v>> \o extra)
<1>1. Lead[f] \in Seq(Slots) /\ extra \in Seq(Slots)
  <2>1. extra \in Seq(Values \cup {"number"})
    BY ExtrasAssumption
  <2>2. Values \cup {"number"} \subseteq Slots
    BY DEF Slots
  <2>3. extra \in Seq(Slots)
    BY <2>1, <2>2, SeqMonotonic
  <2>4. /\ <<>> \in Seq(Slots) /\ <<"self">> \in Seq(Slots)
        /\ <<"self", "name">> \in Seq(Slots)
        /\ <<"self", "name", "fadeIn", "fadeOut">> \in Seq(Slots)
    <3>1. {"self", "name", "fadeIn", "fadeOut"} \subseteq Slots
      BY DEF Slots
    <3> QED
      BY <3>1
  <2>5. f \in {"loadMocFile", "loadModel", "loadPhysics", "loadPose", "loadExpression",
               "loadMotion"}
    BY DEF Functions, Lead
  <2>6. \/ Lead[f] = <<>> \/ Lead[f] = <<"self">> \/ Lead[f] = <<"self", "name">>
        \/ Lead[f] = <<"self", "name", "fadeIn", "fadeOut">>
    <3>1. CASE f \in {"loadMocFile", "loadModel"}
      BY <3>1 DEF Lead
    <3>2. CASE f \in {"loadPhysics", "loadPose"}
      BY <3>2 DEF Lead
    <3>3. CASE f = "loadExpression"
      BY <3>3 DEF Lead
    <3>4. CASE f = "loadMotion"
      BY <3>4 DEF Lead
    <3> QED
      BY <2>5, <3>1, <3>2, <3>3, <3>4
  <2> QED
    BY <2>3, <2>4, <2>6
<1>2. v \in Slots /\ <<v>> \in Seq(Slots) /\ Len(<<v>>) = 1 /\ <<v>>[1] = v
  <2>1. v \in Slots
    BY DEF Slots
  <2> QED
    BY <2>1, One
<1> DEFINE lead == Lead[f]
<1> HIDE DEF lead
<1>3. lead \o <<v>> \in Seq(Slots) /\ Len(lead \o <<v>>) = Len(lead) + 1
      /\ (lead \o <<v>>)[Len(lead) + 1] = v
  <2>1. lead \in Seq(Slots) /\ Len(lead) \in Nat
    BY <1>1 DEF lead
  <2> QED
    BY <1>2, <2>1, ConcatProperties
<1>4. /\ (lead \o <<v>>) \o extra \in Seq(Slots)
      /\ ((lead \o <<v>>) \o extra)[Len(lead) + 1] = v
      /\ Len(lead) + 1 \in DOMAIN ((lead \o <<v>>) \o extra)
  <2>1. lead \in Seq(Slots) /\ Len(lead) \in Nat /\ Len(lead) + 1 \in 1 .. Len(lead \o <<v>>)
    BY <1>1, <1>3 DEF lead
  <2> QED
    BY <1>1, <1>3, <2>1, ConcatProperties
<1> QED
  BY <1>4 DEF lead

\* A call starts with its arguments.
LEMMA BeginKeeps ==
    ASSUME StackInv, NEW f \in Functions, NEW v \in Values, NEW extra \in Extras,
           Begin(f, v, extra)
    PROVE  StackInv'
<1> DEFINE s == Lead[f] \o <<v>> \o extra
<1>1. /\ stack' = s /\ stage' = "argument" /\ alive' = Held(stack') /\ parsed' = <<>>
      /\ call' = [function |-> f, value |-> v, args |-> stack', list |-> 0]
  BY DEF Begin
<1>2. s \in Seq(Slots) /\ s[Len(Lead[f]) + 1] = v /\ Len(Lead[f]) + 1 \in DOMAIN s
  BY LeadSlots
<1> HIDE DEF s
<1>3. call'.args = s /\ call'.value = v /\ call'.function = f /\ call'.list = 0
  BY <1>1
<1>4. Argument' = v /\ (Index \in DOMAIN stack)'
  BY <1>1, <1>2, <1>3 DEF Argument, Index
<1> QED
  BY <1>1, <1>2, <1>3, <1>4 DEF StackInv, At

\* So does initializeEyeBlink.
LEMMA BeginListKeeps ==
    ASSUME StackInv, NEW n \in Nat, BeginList(n) PROVE StackInv'
<1> DEFINE s == <<"self", "list">>
<1>1. /\ stack' = s /\ stage' = "list" /\ alive' = Held(stack') /\ parsed' = <<>>
      /\ call' = [function |-> None, value |-> None, args |-> stack', list |-> n]
  BY DEF BeginList
<1>2. s \in Seq(Slots)
  <2>1. {"self", "list"} \subseteq Slots
    BY DEF Slots
  <2> QED
    BY <2>1
<1> HIDE DEF s
<1>3. call'.args = s /\ call'.list = n /\ 0 \in 0 .. n /\ Len(s) = Len(s) + 0
  BY <1>1, <1>2
<1>4. \E k \in 0 .. call'.list : Above(k)'
  BY <1>1, <1>3 DEF Above
<1> QED
  BY <1>1, <1>2, <1>3, <1>4 DEF StackInv, At

\* Pushing the data, and going to the step they are for
LEMMA Pushing ==
    ASSUME NEW a \in Slots, stack \in Seq(Slots)
    PROVE  Append(stack, a) \in Seq(Slots) /\ Held(Append(stack, a)) = Held(stack) \cup {a}
<1>1. Append(stack, a) \in Seq(Slots)
  BY Appending
<1>2. Held(Append(stack, a)) = Held(stack) \cup {a}
  BY Appending
<1> QED
  BY <1>1, <1>2

\* The data, pushed above the arguments, or above the JSON of loadModel
LEMMA DataPushed ==
    ASSUME StackInv, NEW a \in Slots, stack' = Append(stack, a),
           call' = call, alive' = alive \cup {a}, parsed' = parsed,
           \/ /\ At("argument") /\ Data = a
              /\ \/ stage' = "load" /\ buffer' = a /\ call.function # "loadModel"
                 \/ stage' = "size" /\ a = "file data"
           \/ At("moc") /\ stage' = "size" /\ a = "moc data"
    PROVE  StackInv'
<1>1. /\ stack \in Seq(Slots) /\ Held(stack) \subseteq alive
      /\ At("argument") => stack = call.args /\ parsed = <<>>
      /\ At("moc") => Second /\ stack = Json /\ Data = "file data"
  BY DEF StackInv, At
<1>2. Append(stack, a) \in Seq(Slots) /\ Held(Append(stack, a)) = Held(stack) \cup {a}
  BY <1>1, Pushing
<1>3. stack' \in Seq(Slots) /\ Held(stack') = Held(stack) \cup {a}
  BY <1>2, Zenon
<1>4. Data' = Data /\ (Second' <=> Second) /\ Json' = Json
  BY SameCall DEF Second, Json
<1>5. /\ call.args \in Seq(Slots) /\ call.list \in Nat /\ call.function \in Functions
      /\ \/ parsed = <<>> \/ parsed = <<Data>>
         \/ call.function = "loadModel" /\ parsed = <<Data, "moc data">>
  BY DEF StackInv, At
<1>6. CASE At("argument")
  BY <1>1, <1>3, <1>4, <1>5, <1>6 DEF StackInv, At, Json
<1>7. CASE At("moc")
  BY <1>1, <1>3, <1>4, <1>5, <1>7 DEF StackInv, At
<1> QED
  BY <1>6, <1>7

\* The numbers of values that a push and a constructor add
LEMMA Counts ==
    /\ \A l \in Nat, n \in Nat : (l + n) + 1 = l + (n + 1)
    /\ \A l \in Nat, n \in {1, 2}, m \in {0, 1} :
        \E k \in 1 .. 5 : ((l + n) + m) + 2 = l + k
  OBVIOUS

\* A sequence that starts with r, and one that starts with it
LEMMA Starting ==
    ASSUME NEW r, NEW s, NEW t, NEW l \in Nat, NEW n \in Nat, NEW m \in Nat,
           m = l + n, \A i \in 1 .. l : s[i] = r[i], \A i \in 1 .. m : t[i] = s[i]
    PROVE  \A i \in 1 .. l : t[i] = r[i]
  OBVIOUS

\* How a value more, and a sequence of values, change what is above the arguments
LEMMA OneMore ==
    ASSUME stack \in Seq(Slots), call.args \in Seq(Slots), NEW n \in Nat, Above(n),
           NEW a \in Slots
    PROVE  /\ Len(Append(stack, a)) = Len(call.args) + (n + 1)
           /\ \A i \in 1 .. Len(call.args) : Append(stack, a)[i] = call.args[i]
<1> DEFINE t == Append(stack, a)
<1>1. Len(stack) \in Nat /\ Len(call.args) \in Nat
  OBVIOUS
<1>2. Len(t) = Len(stack) + 1 /\ \A i \in 1 .. Len(stack) : t[i] = stack[i]
  BY Appending
<1>3. Len(stack) = Len(call.args) + n /\ \A i \in 1 .. Len(call.args) : stack[i] = call.args[i]
  BY DEF Above
<1> HIDE DEF t
<1>4. Len(t) = Len(call.args) + (n + 1)
  BY <1>1, <1>2, <1>3, Counts, Zenon
<1>5. \A i \in 1 .. Len(call.args) : t[i] = call.args[i]
  BY <1>1, <1>2, <1>3, Starting
<1> QED
  BY <1>4, <1>5 DEF t

\* The arguments and one value, or two
LEMMA OneAbove ==
    ASSUME call.args \in Seq(Slots), NEW a \in Slots, stack = Append(call.args, a)
    PROVE  Above(1) /\ Top = a
<1>1. /\ Len(Append(call.args, a)) = Len(call.args) + 1
      /\ Append(call.args, a)[Len(Append(call.args, a))] = a
      /\ \A i \in 1 .. Len(call.args) : Append(call.args, a)[i] = call.args[i]
  BY Appending
<1> QED
  BY <1>1 DEF Above, Top

\* Two: the JSON of loadModel and its moc
LEMMA TwoAbove ==
    ASSUME call.args \in Seq(Slots), NEW a \in Slots, stack = Append(Json, a)
    PROVE  Above(2) /\ Top = a
<1> DEFINE json == "file data"
           t == Append(call.args, json)
<1>1. json \in Slots /\ stack = Append(t, a)
  BY DEF Slots, Json
<1> HIDE DEF json
<1>2. /\ t \in Seq(Slots) /\ Len(t) = Len(call.args) + 1
      /\ \A i \in 1 .. Len(call.args) : t[i] = call.args[i]
  BY <1>1, Appending
<1> HIDE DEF t
<1>3. /\ Len(Append(t, a)) = Len(t) + 1 /\ Append(t, a)[Len(Append(t, a))] = a
      /\ \A i \in 1 .. Len(t) : Append(t, a)[i] = t[i]
  BY <1>2, Appending
<1>4. Len(t) \in Nat /\ Len(call.args) \in Nat
  BY <1>2
<1> QED
  BY <1>1, <1>2, <1>3, <1>4 DEF Above, Top

\* A value more after none, and after one
LEMMA AfterOne ==
    ASSUME NEW S, NEW s \in Seq(S), Len(s) = 1, NEW b \in S
    PROVE  Append(s, b) = <<s[1], b>>
<1> DEFINE t == Append(s, b)
<1>1. t \in Seq(S) /\ Len(t) = Len(s) + 1 /\ t[Len(s) + 1] = b
  BY AppendProperties
<1>2. \A i \in 1 .. Len(s) : t[i] = s[i]
  BY Appending
<1> HIDE DEF t
<1>3. Len(t) = 2 /\ t[1] = s[1] /\ t[2] = b
  BY <1>1, <1>2
<1>4. t = <<s[1], b>>
  BY <1>1, <1>3
<1> QED
  BY <1>4 DEF t

LEMMA Appended ==
    ASSUME NEW a, NEW b
    PROVE  Append(<<>>, a) = <<a>> /\ Append(<<a>>, b) = <<a, b>>
<1> DEFINE S == {a, b}
           none == <<>>
           one == <<a>>
           r == Append(none, a)
<1>1. none \in Seq(S) /\ Len(none) = 0 /\ one \in Seq(S) /\ Len(one) = 1 /\ one[1] = a
  OBVIOUS
<1>2. a \in S /\ b \in S
  OBVIOUS
<1> HIDE DEF S, none, one
<1>3. r \in Seq(S) /\ Len(r) = Len(none) + 1 /\ r[Len(none) + 1] = a
  BY <1>1, <1>2, AppendProperties
<1> HIDE DEF r
<1>4. r = <<a>>
  BY <1>1, <1>3
<1>5. Append(one, b) = <<one[1], b>>
  BY <1>1, <1>2, AfterOne, Zenon
<1> QED
  BY <1>1, <1>4, <1>5 DEF r, none, one

\* and their lengths
LEMMA Lengths ==
    ASSUME NEW a, NEW b
    PROVE  /\ Len(<<a>>) = 1 /\ DOMAIN <<a>> = {1} /\ <<a>>[1] = a
           /\ Len(<<a, b>>) = 2 /\ <<a, b>>[1] = a
<1>1. Len(<<a>>) = 1 /\ <<a>>[1] = a
  OBVIOUS
<1>2. DOMAIN <<a>> = {1}
  OBVIOUS
<1>3. Len(<<a, b>>) = 2 /\ <<a, b>>[1] = a
  OBVIOUS
<1> QED
  BY <1>1, <1>2, <1>3

\* What a constructor leaves, over n values above the arguments
LEMMA ConstructorLeaves ==
    ASSUME stack \in Seq(Slots), call.args \in Seq(Slots), NEW n \in {1, 2}, Above(n),
           NEW s \in Constructed
    PROVE  /\ s \in Seq(Slots) /\ s[Len(s)] = "object"
           /\ \E k \in 1 .. 5 : Len(s) = Len(call.args) + k
           /\ \A i \in 1 .. Len(call.args) : s[i] = call.args[i]
<1>1. PICK message \in FFIMessages : s = stack \o message \o <<"newMesh", "object">>
  BY DEF Constructed
<1>2. message \in Seq(Slots) /\ (Len(message) = 0 \/ Len(message) = 1)
  <2>1. message = <<>> \/ message = <<"message">>
    BY <1>1 DEF FFIMessages
  <2>2. CASE message = <<>>
    BY <2>2, EmptyStack, Zenon
  <2>3. CASE message = <<"message">>
    <3>1. "message" \in Slots
      BY DEF Slots
    <3>2. <<"message">> \in Seq(Slots) /\ Len(<<"message">>) = 1
      BY <3>1, One, Zenon
    <3> QED
      BY <2>3, <3>2, Zenon
  <2> QED
    BY <2>1, <2>2, <2>3
<1> DEFINE t == stack \o message
           result == <<"newMesh", "object">>
<1>3. /\ t \in Seq(Slots) /\ Len(t) = Len(stack) + Len(message)
      /\ \A i \in 1 .. Len(stack) : t[i] = stack[i]
  BY <1>2, ConcatProperties
<1>4. result \in Seq(Slots) /\ Len(result) = 2 /\ result[2] = "object"
  <2>1. {"newMesh", "object"} \subseteq Slots
    BY DEF Slots
  <2> QED
    BY <2>1
<1>5. s = t \o result
  BY <1>1
<1> HIDE DEF t, result
<1>6. /\ s \in Seq(Slots) /\ Len(s) = Len(t) + 2
      /\ \A i \in 1 .. Len(t) : s[i] = t[i]
      /\ s[Len(s)] = "object"
  <2>1. /\ t \o result \in Seq(Slots) /\ Len(t \o result) = Len(t) + Len(result)
        /\ \A i \in 1 .. Len(t) : (t \o result)[i] = t[i]
        /\ (t \o result)[Len(t) + 2] = result[2]
    <3>1. t \in Seq(Slots) /\ Len(t) \in Nat
      BY <1>3
    <3>2. /\ t \o result \in Seq(Slots) /\ Len(t \o result) = Len(t) + Len(result)
          /\ \A i \in 1 .. Len(t) + Len(result) :
                (t \o result)[i] = IF i <= Len(t) THEN t[i] ELSE result[i - Len(t)]
      BY <1>4, <3>1, ConcatProperties
    <3>3. /\ Len(t) + 2 \in 1 .. Len(t) + Len(result) /\ ~(Len(t) + 2 <= Len(t))
          /\ (Len(t) + 2) - Len(t) = 2
          /\ \A i \in 1 .. Len(t) : i \in 1 .. Len(t) + Len(result) /\ i <= Len(t)
      BY <1>4, <3>1
    <3>4. (t \o result)[Len(t) + 2] = result[2]
      BY <3>2, <3>3, Zenon
    <3>5. \A i \in 1 .. Len(t) : (t \o result)[i] = t[i]
      BY <3>2, <3>3, Zenon
    <3> QED
      BY <3>2, <3>4, <3>5, Zenon
  <2> QED
    BY <1>4, <1>5, <2>1, Zenon
<1>7. Len(stack) \in Nat /\ Len(call.args) \in Nat /\ Len(t) \in Nat /\ Len(message) \in Nat
  BY <1>2, <1>3
<1>8. Len(stack) = Len(call.args) + n /\ \A i \in 1 .. Len(call.args) : stack[i] = call.args[i]
  BY DEF Above
<1>9. \E k \in 1 .. 5 : Len(s) = Len(call.args) + k
  <2>1. Len(s) = ((Len(call.args) + n) + Len(message)) + 2
    BY <1>3, <1>6, <1>8, Zenon
  <2>2. \E k \in 1 .. 5 : ((Len(call.args) + n) + Len(message)) + 2 = Len(call.args) + k
    <3>1. Len(call.args) \in Nat /\ Len(message) \in {0, 1} /\ n \in {1, 2}
      BY <1>2, <1>7
    <3> QED
      BY <3>1, Counts, Zenon
  <2> QED
    BY <2>1, <2>2, Zenon
<1>10. ASSUME NEW i \in 1 .. Len(call.args) PROVE s[i] = call.args[i]
  <2>1. i \in 1 .. Len(stack) /\ i \in 1 .. Len(t)
    <3>1. n \in Nat
      OBVIOUS
    <3> QED
      BY <1>3, <1>7, <1>8, <3>1
  <2> QED
    BY <1>3, <1>6, <1>8, <2>1, Zenon
<1> QED
  BY <1>6, <1>9, <1>10

\* Where a load is: what is on the stack, and what will be parsed after it
LEMMA AtLoad ==
    ASSUME StackInv, At("load")
    PROVE  /\ stack \in Seq(Slots) /\ call.args \in Seq(Slots) /\ buffer \in Slots
           /\ Held(stack) \subseteq alive /\ call.function \in Functions
           /\ \E n \in {1, 2} : Above(n)
           /\ call.function # "loadModel" =>
                parsed = <<>> /\ stack = Append(call.args, buffer) /\ buffer = Data
           /\ call.function = "loadModel" =>
                /\ Data = "file data"
                /\ IsJson => stack = Json /\ buffer = "file data" /\ parsed = <<>>
                /\ ~IsJson => parsed = <<"file data">> /\ buffer = "moc data"
<1>1. /\ stack \in Seq(Slots) /\ call.args \in Seq(Slots) /\ buffer \in Slots
      /\ Held(stack) \subseteq alive /\ call.function \in Functions
      /\ call.function = "loadModel" => Data = "file data"
      /\ \/ parsed = <<>> /\ stack = Append(call.args, buffer) /\ buffer = Data
         \/ Second /\ stack = Append(Json, buffer) /\ buffer = "moc data"
  BY DEF StackInv, At
<1>2. CASE parsed = <<>> /\ stack = Append(call.args, buffer) /\ buffer = Data
  <2>1. Above(1)
    BY <1>1, <1>2, OneAbove
  <2> QED
    BY <1>1, <1>2, <2>1 DEF IsJson, Json
<1>3. CASE Second /\ stack = Append(Json, buffer) /\ buffer = "moc data"
  <2>1. Above(2)
    BY <1>1, <1>3, TwoAbove
  <2>2. call.function = "loadModel" /\ parsed = <<"file data">> /\ parsed # <<>>
    BY <1>3 DEF Second
  <2> QED
    BY <1>1, <1>3, <2>1, <2>2 DEF IsJson
<1> QED
  BY <1>1, <1>2, <1>3

\* The load keeps the arguments and adds what its function returns.
LEMMA LoadKeeps == ASSUME StackInv, Load PROVE StackInv'
<1>1. At("load") /\ parsed' = Append(parsed, buffer)
  BY DEF Load
<1>2. /\ call.function # "loadModel" => parsed' = <<Data>>
      /\ call.function = "loadModel" /\ IsJson => parsed' = <<Data>>
      /\ call.function = "loadModel" /\ ~IsJson => parsed' = <<Data, "moc data">>
  <2>1. CASE call.function # "loadModel"
    <3>1. parsed = <<>> /\ buffer = Data
      BY <1>1, <2>1, AtLoad
    <3> QED
      BY <1>1, <2>1, <3>1, Appended, Zenon
  <2>2. CASE call.function = "loadModel" /\ IsJson
    <3>1. parsed = <<>> /\ buffer = Data
      BY <1>1, <2>2, AtLoad
    <3> QED
      BY <1>1, <2>2, <3>1, Appended, Zenon
  <2>3. CASE call.function = "loadModel" /\ ~IsJson
    <3>1. parsed = <<Data>> /\ buffer = "moc data"
      BY <1>1, <2>3, AtLoad
    <3> QED
      BY <1>1, <2>3, <3>1, Appended, Zenon
  <2> QED
    BY <2>1, <2>2, <2>3
<1>3. CASE End("failed")
  BY <1>2, <1>3, EndKeeps
<1>4. CASE IsJson /\ Go("moc") /\ UNCHANGED <<stack, alive, buffer>>
  <2>1. call.function = "loadModel" /\ call' = call /\ stage' = "moc"
    BY <1>4 DEF IsJson, Go
  <2>2. stack = Json /\ Data = "file data" /\ parsed' = <<"file data">>
    BY <1>1, <1>2, <1>4, <2>1, AtLoad
  <2>3. Data' = Data /\ Json' = Json /\ Second'
    BY <2>1, <2>2, SameCall DEF Json, Second
  <2>4. Held(stack') = Held(stack)
    BY <1>4
  <2> QED
    BY <1>1, <1>4, <2>1, <2>2, <2>3, <2>4, AtLoad DEF StackInv, At
<1>5. CASE ~IsJson /\ stack' \in Left /\ Go("return") /\ UNCHANGED <<alive, buffer>>
  <2>1. call' = call /\ stage' = "return" /\ buffer' = buffer
    BY <1>5 DEF Go
  <2>2. Data' = Data /\ Wanted' = Wanted
    BY <2>1, SameCall
  <2>3. parsed' = Wanted
    BY <1>2, <1>5 DEF Wanted
  <2>4. PICK n \in {1, 2} : Above(n)
    BY <1>1, AtLoad
  <2>5. ASSUME Finished', stack' \in Seq(Slots) PROVE StackInv'
    BY <1>1, <1>2, <2>1, <2>2, <2>5, AtLoad DEF StackInv, At
  <2>6. CASE call.function \in Constructors
    <3>1. stack' \in Constructed
      BY <1>5, <2>6 DEF Left, Constructors
    <3>2. stack \in Seq(Slots) /\ call.args \in Seq(Slots)
      BY <1>1, AtLoad
    <3>3. /\ stack' \in Seq(Slots) /\ Top' = "object"
          /\ \E k \in 1 .. 5 : Len(stack') = Len(call.args) + k
          /\ \A i \in 1 .. Len(call.args) : stack'[i] = call.args[i]
      BY <2>4, <3>1, <3>2, ConstructorLeaves DEF Top
    <3>4. PICK k \in 1 .. 5 : Len(stack') = Len(call.args) + k
      BY <3>3
    <3>5. Above(k)'
      BY <2>1, <3>3, <3>4 DEF Above
    <3>6. call.function # "loadMotion"
      BY <2>6 DEF Constructors
    <3> QED
      BY <2>1, <2>2, <2>3, <2>5, <2>6, <3>3, <3>5, <3>6 DEF Finished
  <2>7. CASE call.function = "loadMotion"
    <3>1. stack = Append(call.args, buffer) /\ call.args \in Seq(Slots) /\ buffer \in Slots
      BY <1>1, <2>7, AtLoad
    <3>2. stack' = Pop(1)
      BY <1>5, <2>7 DEF Left, Constructors
    <3>3. /\ stack \in Seq(Slots) /\ Len(stack) = Len(call.args) + 1
          /\ \A i \in 1 .. Len(call.args) : stack[i] = call.args[i]
      BY <1>1, <3>1, OneAbove, AtLoad DEF Above
    <3>4. Pop(1) = call.args
      <4>1. Len(stack) - 1 = Len(call.args) /\ Len(call.args) <= Len(stack)
        BY <3>1, <3>3
      <4> QED
        BY <3>1, <3>3, <4>1, Prefix DEF Pop
    <3>5. stack' \in Seq(Slots) /\ stack' = call'.args
      BY <2>1, <3>1, <3>2, <3>4
    <3>6. call.function \notin Constructors
      BY <2>7 DEF Constructors
    <3> QED
      BY <2>1, <2>2, <2>3, <2>5, <2>7, <3>5, <3>6 DEF Finished
  <2>8. CASE call.function \notin Constructors \cup {"loadMotion"}
    <3>1. stack' = stack /\ call.function # "loadModel"
      BY <1>5, <2>8 DEF Left, Constructors
    <3>2. stack = Append(call.args, buffer) /\ stack \in Seq(Slots)
      BY <1>1, <3>1, AtLoad
    <3>3. stack' = Append(call'.args, buffer') /\ stack' \in Seq(Slots)
      BY <2>1, <3>1, <3>2, Zenon
    <3> QED
      BY <2>1, <2>2, <2>3, <2>5, <2>8, <3>3 DEF Finished
  <2> QED
    BY <2>6, <2>7, <2>8
<1> QED
  BY <1>3, <1>4, <1>5 DEF Load

\* Steps that put the data on the stack
LEMMA ContentsKeeps == ASSUME StackInv, Contents PROVE StackInv'
<1>1. Argument = call.value /\ At("argument") /\ Argument \in Strings /\ ~IsPath(Argument)
  BY DEF StackInv, Contents
<1>2. Data = Argument /\ Argument \in Slots /\ call.function # "loadModel"
  BY <1>1 DEF Data, Slots, Values, IsPath
<1>3. Argument \in alive
  <2>1. stack = call.args /\ stack \in Seq(Slots) /\ Held(stack) \subseteq alive
    BY <1>1 DEF StackInv, At
  <2>2. Index \in DOMAIN stack
    BY <1>1 DEF StackInv
  <2> QED
    BY <2>1, <2>2 DEF Held, Argument
<1> QED
  BY <1>1, <1>2, <1>3, DataPushed DEF Contents, Go

\* A path leaves the FileData on top, or an error.
LEMMA OpenKeeps == ASSUME StackInv, Open \/ OpenMoc PROVE StackInv'
<1>1. CASE Fail
  BY <1>1, EndKeeps DEF Fail
<1>2. CASE Open /\ ~Fail
  <2>1. Argument = call.value /\ At("argument") /\ IsPath(Argument)
    BY <1>2 DEF StackInv, Open
  <2>2. Data = "file data" /\ "file data" \in Slots
    BY <2>1 DEF Data, Slots
  <2> QED
    BY <1>2, <2>1, <2>2, DataPushed DEF Open, OpenFile, Go
<1>3. CASE OpenMoc /\ ~Fail
  <2>1. "moc data" \in Slots
    BY DEF Slots
  <2> QED
    BY <1>3, <2>1, DataPushed DEF OpenMoc, OpenFile, Go
<1> QED
  BY <1>1, <1>2, <1>3

\* The pointer is that of the FileData on top.
LEMMA PointerKeeps == ASSUME StackInv, Pointer PROVE StackInv'
<1>1. /\ call.args \in Seq(Slots) /\ call.list \in Nat /\ call.function \in Functions
      /\ stack \in Seq(Slots) /\ Held(stack) \subseteq alive /\ Data = "file data"
      /\ \/ parsed = <<>> /\ stack = Json
         \/ Second /\ stack = Append(Json, "moc data")
      /\ \/ parsed = <<>> \/ parsed = <<Data>>
         \/ call.function = "loadModel" /\ parsed = <<Data, "moc data">>
  BY DEF StackInv, Pointer, At
<1>2. /\ stage' = "load" /\ buffer' = Top /\ UNCHANGED <<call, stack, alive, parsed>>
  BY DEF Pointer, Go
<1>3. Data' = Data /\ (Second' <=> Second) /\ Json' = Json /\ Held(stack)' = Held(stack)
  BY <1>2, SameCall DEF Second, Json
<1>4. CASE parsed = <<>> /\ stack = Json
  <2>1. "file data" \in Slots
    BY DEF Slots
  <2>2. Top = "file data"
    BY <1>1, <1>4, <2>1, OneAbove DEF Json
  <2>3. stack' = Append(call'.args, buffer')
    BY <1>2, <1>4, <2>2 DEF Json
  <2> QED
    BY <1>1, <1>2, <1>3, <1>4, <2>1, <2>2, <2>3 DEF StackInv, At
<1>5. CASE Second /\ stack = Append(Json, "moc data")
  <2>1. "moc data" \in Slots
    BY DEF Slots
  <2>2. Top = "moc data"
    BY <1>1, <1>5, <2>1, TwoAbove
  <2> QED
    BY <1>1, <1>2, <1>3, <1>5, <2>1, <2>2 DEF StackInv, At
<1> QED
  BY <1>1, <1>4, <1>5

\* A name of the list takes one value more.
LEMMA ListNameKeeps == ASSUME StackInv, ListName PROVE StackInv'
<1>1. /\ stack \in Seq(Slots) /\ "eye" \in Slots /\ call.args \in Seq(Slots) /\ call.list \in Nat
      /\ Len(stack) - Len(call.args) < call.list
  BY DEF StackInv, ListName, At, Slots, Names
<1>2. PICK n \in 0 .. call.list : Above(n)
  BY DEF StackInv, ListName, At
<1>3. n < call.list /\ n \in Nat
  BY <1>1, <1>2 DEF Above
<1>4. Append(stack, "eye") \in Seq(Slots)
  BY <1>1, Appending
<1>5. /\ Len(Append(stack, "eye")) = Len(call.args) + (n + 1)
      /\ \A i \in 1 .. Len(call.args) : Append(stack, "eye")[i] = call.args[i]
  BY <1>1, <1>2, <1>3, OneMore
<1>6. stack' = Append(stack, "eye") /\ call' = call /\ stage' = "list" /\ parsed' = parsed
  BY DEF ListName, At
<1>7. Above(n + 1)' /\ n + 1 \in 0 .. call'.list
  <2>1. n + 1 \in 0 .. call'.list
    BY <1>1, <1>3, <1>6
  <2>2. /\ Len(stack') = Len(call'.args) + (n + 1)
        /\ \A i \in 1 .. Len(call'.args) : stack'[i] = call'.args[i]
    BY <1>5, <1>6, Zenon
  <2> QED
    BY <2>1, <2>2 DEF Above
<1>8. Data' = Data /\ stack' \in Seq(Slots)
  BY <1>4, <1>6, SameCall, Zenon
<1> QED
  BY <1>1, <1>6, <1>7, <1>8 DEF StackInv, At

\* Lua does not collect what the stack holds.
LEMMA CollectKeeps == ASSUME StackInv, Collect PROVE StackInv'
<1>1. Held(stack) \subseteq alive => Held(stack) \subseteq alive'
  BY DEF Collect
<1>2. Data' = Data /\ Wanted' = Wanted /\ Held(stack)' = Held(stack)
      /\ UNCHANGED <<call, stage, stack, buffer, parsed>>
  BY SameCall DEF Collect
<1> QED
  BY <1>1, <1>2 DEF StackInv, At, Finished, Above, Second, Json, Top, Argument, Index

\* Every step keeps the invariant.
LEMMA NextKeeps == ASSUME StackInv, [Next]_vars PROVE StackInv'
<1>1. ASSUME NEW f \in Functions, NEW v \in Values, NEW extra \in Extras, Begin(f, v, extra)
      PROVE  StackInv'
  BY <1>1, BeginKeeps
<1>2. CASE Contents
  BY <1>2, ContentsKeeps
<1>3. CASE Open \/ OpenMoc
  BY <1>3, OpenKeeps
<1>4. CASE LoveObject \/ PlainUserdata \/ WrongType \/ Return \/ EndList
  BY <1>4, EndKeeps DEF LoveObject, PlainUserdata, WrongType, Return, EndList, Fail
<1>5. CASE Size
  <2>1. Data' = Data
    BY <1>5, SameCall DEF Size, Go
  <2> QED
    BY <1>5, <2>1 DEF StackInv, Size, Go, At, Held, Second, Json
<1>6. CASE Pointer
  BY <1>6, PointerKeeps
<1>7. CASE Load
  BY <1>7, LoadKeeps
<1>8. ASSUME NEW n \in 0 .. MaxList, BeginList(n) PROVE StackInv'
  <2>1. n \in Nat
    BY ListAssumption
  <2> QED
    BY <1>8, <2>1, BeginListKeeps
<1>9. CASE ListName
  BY <1>9, ListNameKeeps
<1>10. CASE Collect
  BY <1>10, CollectKeeps
<1>11. CASE UNCHANGED vars
  <2>1. Data' = Data /\ Wanted' = Wanted /\ UNCHANGED <<call, stage, stack, alive, buffer, parsed>>
    BY <1>11, SameCall DEF vars
  <2> QED
    BY <2>1 DEF StackInv, At, Held, Finished, Above, Second, Json, Top, Argument, Index
<1> QED
  BY <1>1, <1>2, <1>3, <1>4, <1>5, <1>6, <1>7, <1>8, <1>9, <1>10, <1>11 DEF Next

\* The invariant holds always.
LEMMA StackAlways == Spec => []StackInv
<1>1. Init => StackInv
  BY StackInit
<1>2. StackInv /\ [Next]_vars => StackInv'
  BY NextKeeps
<1> QED
  BY <1>1, <1>2, PTL DEF Spec

-----------------------------------------------------------------------------

\* What the load of a moc, a motion, an expression, physics or a pose reads is
\* on the Lua stack and is not collected, whatever the game passes.
THEOREM DataAreAnchored == Spec => []Anchored
<1>1. StackInv => Anchored
  <2> SUFFICES ASSUME StackInv, At("load") PROVE buffer \in alive \cap Held(stack)
    BY DEF Anchored
  <2>1. /\ call.args \in Seq(Slots) /\ buffer \in Slots /\ Held(stack) \subseteq alive
        /\ stack = Append(call.args, buffer) \/ stack = Append(Json, buffer)
    BY DEF StackInv, At
  <2>2. Json \in Seq(Slots)
    <3>1. "file data" \in Slots
      BY DEF Slots
    <3> QED
      BY <2>1, <3>1, Appending DEF Json
  <2>3. /\ Held(Append(call.args, buffer)) = Held(call.args) \cup {buffer}
        /\ Held(Append(Json, buffer)) = Held(Json) \cup {buffer}
    BY <2>1, <2>2, Appending
  <2>4. buffer \in Held(stack)
    BY <2>1, <2>3, Zenon
  <2> QED
    BY <2>1, <2>4
<1> QED
  BY <1>1, StackAlways, PTL

\* The bytes that are parsed are those of the file or of the string that was
\* passed, for loadModel of the JSON and then of the moc, whatever a game passes
\* after them; and nothing returns before all of them are parsed.
THEOREM DataAreRight == Spec => []RightData
<1>1. ASSUME StackInv PROVE RightData
  <2>1. \/ parsed = <<>> \/ parsed = <<Data>>
        \/ call.function = "loadModel" /\ parsed = <<Data, "moc data">>
    BY <1>1 DEF StackInv
  <2>2. Len(parsed) <= Len(Wanted) /\ \A i \in DOMAIN parsed : parsed[i] = Wanted[i]
    <3>a. Wanted = <<Data>> \/ Wanted = <<Data, "moc data">>
      BY DEF Wanted
    <3>b. (Len(Wanted) = 1 \/ Len(Wanted) = 2) /\ Wanted[1] = Data
      <4>1. CASE Wanted = <<Data>>
        BY <4>1, Lengths, Zenon
      <4>2. CASE Wanted = <<Data, "moc data">>
        BY <4>2, Lengths, Zenon
      <4> QED
        BY <3>a, <4>1, <4>2
    <3>1. CASE parsed = <<>>
      BY <3>1, <3>b
    <3>2. CASE parsed = <<Data>>
      <4>1. Len(parsed) = 1 /\ DOMAIN parsed = {1} /\ parsed[1] = Data
        BY <3>2, Lengths, Zenon
      <4> QED
        BY <3>b, <4>1
    <3>3. CASE call.function = "loadModel" /\ parsed = <<Data, "moc data">>
      <4>1. parsed = Wanted /\ Len(Wanted) <= Len(Wanted)
        <5>1. parsed = Wanted
          BY <3>3 DEF Wanted
        <5>2. Len(Wanted) <= Len(Wanted)
          BY <3>b
        <5> QED
          BY <5>1, <5>2
      <4> QED
        BY <4>1, Zenon
    <3> QED
      BY <2>1, <3>1, <3>2, <3>3
  <2>3. At("return") => parsed = Wanted
    BY <1>1 DEF StackInv, Finished
  <2> QED
    BY <2>2, <2>3 DEF RightData
<1> QED
  BY <1>1, StackAlways, PTL

\* The stack of every call keeps its arguments, and ends with what the function
\* returns, a constructor's object at most five values above the arguments.
THEOREM CallsAreBalanced == Spec => []Balanced
<1>1. ASSUME StackInv PROVE Balanced
  <2>1. stack \in Seq(Slots) /\ call.args \in Seq(Slots) /\ call.list \in Nat
    BY <1>1 DEF StackInv
  <2>2. Len(call.args) \in Nat /\ Len(stack) \in Nat
    BY <2>1
  <2>3. ASSUME ~At("idle") PROVE \E n \in Nat : Above(n)
    <3> DEFINE Placed == \E n \in Nat : Above(n)
    <3>a. "file data" \in Slots /\ "moc data" \in Slots
      BY DEF Slots
    <3>0. (stack = call.args => Placed) /\ (stack = Json => Placed)
      <4>1. stack = call.args => Above(0)
        BY <2>2 DEF Above
      <4>2. stack = Json => Above(1)
        BY <2>1, <3>a, OneAbove DEF Json
      <4> QED
        BY <4>1, <4>2
    <3>1. CASE At("argument") \/ At("moc")
      BY <1>1, <3>0, <3>1 DEF StackInv
    <3>2. CASE stage \in {"size", "pointer"}
      <4>1. stack = Json \/ stack = Append(Json, "moc data")
        BY <1>1, <3>2 DEF StackInv
      <4>2. stack = Append(Json, "moc data") => Above(2)
        BY <2>1, <3>a, TwoAbove
      <4> QED
        BY <3>0, <4>1, <4>2
    <3>3. CASE At("load")
      BY <1>1, <3>3, AtLoad
    <3>4. CASE At("return")
      <4>1. buffer \in Slots /\ Finished
        BY <1>1, <3>4 DEF StackInv
      <4>2. stack = Append(call.args, buffer) => Above(1)
        BY <2>1, <4>1, OneAbove
      <4> QED
        <5>1. CASE call.function \in Constructors
          <6>1. PICK n \in 1 .. 5 : Above(n)
            BY <4>1, <5>1 DEF Finished
          <6> QED
            BY <6>1
        <5>2. CASE call.function \notin Constructors
          <6>1. stack = call.args \/ stack = Append(call.args, buffer)
            BY <4>1, <5>2 DEF Finished
          <6> QED
            BY <3>0, <4>2, <6>1
        <5> QED
          BY <5>1, <5>2
    <3>5. CASE At("list")
      <4>1. PICK n \in 0 .. call.list : Above(n)
        BY <1>1, <3>5 DEF StackInv
      <4> QED
        BY <2>1, <4>1
    <3>6. \/ At("argument") \/ At("moc") \/ stage \in {"size", "pointer"} \/ At("load")
          \/ At("return") \/ At("list") \/ At("idle")
      BY <1>1 DEF StackInv, At
    <3> QED
      BY <2>3, <3>1, <3>2, <3>3, <3>4, <3>5, <3>6
  <2>4. ASSUME ~At("idle")
        PROVE  Len(stack) >= Len(call.args) /\ SubSeq(stack, 1, Len(call.args)) = call.args
    <3>1. PICK n \in Nat : Above(n)
      BY <2>3, <2>4
    <3>2. Len(call.args) <= Len(stack) /\ \A i \in 1 .. Len(call.args) : stack[i] = call.args[i]
      BY <2>2, <3>1 DEF Above
    <3> QED
      BY <2>1, <2>2, <3>2, Prefix
  <2>5. ASSUME At("return")
        PROVE  CASE call.function \in Constructors ->
                        Top = "object" /\ Len(stack) <= Len(call.args) + 5
                 [] call.function = "loadMotion" -> stack = call.args
                 [] OTHER -> stack = Append(call.args, buffer)
    <3>1. Finished
      BY <1>1, <2>5 DEF StackInv
    <3>2. call.function \in Constructors => Len(stack) <= Len(call.args) + 5
      BY <2>2, <3>1 DEF Finished, Above
    <3>3. "loadMotion" \notin Constructors
      BY DEF Constructors
    <3> QED
      BY <3>1, <3>2, <3>3 DEF Finished
  <2> QED
    BY <2>4, <2>5 DEF Balanced
<1> QED
  BY <1>1, StackAlways, PTL

=============================================================================
