--------------------------- MODULE ContentsProofs ---------------------------
(***************************************************************************)
(* What becomes of the contents of a request, for texts, files, replies    *)
(* and reports of every size and for every value of the limits.            *)
(***************************************************************************)
EXTENDS Contents, FiniteSetTheorems, SequenceTheorems, TLAPS

-----------------------------------------------------------------------------
(* Messages and forms.                                                     *)

\* Stripping leaves a text a text, and takes nothing from one without padding.
LEMMA StrippedText ==
    ASSUME NEW text \in Text
    PROVE  /\ StripField(text) \in Text
           /\ LengthOf(StripField(text)) = text.core
           /\ Strip(StripField(text)) = StripField(text)
           /\ text.padding = 0 => StripField(text) = text
<1> DEFINE Of(n) == [kind |-> "text", core |-> text.core, padding |-> n]
<1>1. text.core \in Nat /\ text.padding \in Nat /\ text = Of(text.padding)
  BY DEF Text
<1>2. \A n : Strip(Of(n)) = Of(0)
  BY DEF Strip
<1>3. StripField(text) = Of(0)
  BY <1>1, <1>2 DEF StripField
<1>4. Of(0) \in Text
  BY <1>1 DEF Text
<1>5. LengthOf(Of(0)) = text.core
  BY <1>1 DEF LengthOf
<1>6. QED
  BY <1>1, <1>2, <1>3, <1>4, <1>5

\* What the schema accepts can be decoded and addressed.
LEMMA EveryMessageUsable == ASSUME NEW m \in Message PROVE AcceptedIsUsable(m)
<1>1. QueueVerdict(m) # "decodeError"
  BY DEF QueueVerdict, SchemaAccepts
<1>2. ASSUME QueueVerdict(m) = "accepted"
      PROVE  /\ NonEmpty(QueueAddress(Kept(m).analysisId))
             /\ QueueAddress(Kept(m).analysisId) = Kept(m).analysisId
  <2>1. NonEmpty(Kept(m).analysisId)
    BY <1>2 DEF QueueVerdict, SchemaAccepts
  <2>2. m.analysisId \in Text
    BY <2>1 DEF Message, Kept, NonEmpty, StripField, Absent, Mistyped
  <2>3. Strip(Kept(m).analysisId) = Kept(m).analysisId
    BY <2>2, StrippedText DEF Kept
  <2>4. QED
    BY <2>1, <2>3 DEF QueueAddress
<1>3. QED
  BY <1>1, <1>2 DEF AcceptedIsUsable

\* A field without the whitespace around it is to both flows the same, although HTTP
\* takes an empty one for absent.
LEMMA FlowsOnFields ==
    ASSUME NEW field \in {Absent, Mistyped} \cup Text
    PROVE  /\ StripField(field) \in {Absent, Mistyped} \cup Text
           /\ StripField(field).kind = field.kind
           /\ NonEmpty(field) <=> FormField(field).kind = "text"
           /\ \A n \in Nat : ContextAllowed(field, n) <=> ContextAllowed(FormField(field), n)
           /\ ContextLength(field) = ContextLength(FormField(field))
<1>1. CASE field \in {Absent, Mistyped}
  <2>1. field.kind \in {"absent", "mistyped"}
    BY <1>1 DEF Absent, Mistyped
  <2>2. StripField(field) = field /\ FormField(field) = field
    BY <2>1 DEF StripField, FormField
  <2>3. QED
    BY <2>1, <2>2 DEF NonEmpty
<1>2. CASE field \in Text
  <2>1. field.kind = "text" /\ LengthOf(field) \in Nat
    BY <1>2 DEF Text, LengthOf
  <2>2. StripField(field) \in Text /\ StripField(field).kind = "text"
    <3>1. StripField(field) \in Text
      BY <1>2, StrippedText
    <3>2. QED
      BY <3>1 DEF Text
  <2>3. CASE LengthOf(field) = 0
    <3>1. FormField(field) = Absent
      BY <2>1, <2>3 DEF FormField
    <3>2. Absent.kind = "absent"
      BY DEF Absent
    <3>3. QED
      BY <2>1, <2>2, <2>3, <3>1, <3>2 DEF NonEmpty, ContextAllowed, ContextLength
  <2>4. CASE LengthOf(field) # 0
    <3>1. FormField(field) = field
      BY <2>1, <2>4 DEF FormField
    <3>2. LengthOf(field) > 0
      BY <2>1, <2>4
    <3>3. QED
      BY <2>1, <2>2, <3>1, <3>2 DEF NonEmpty
  <2>5. QED
    BY <2>3, <2>4
<1>3. QED
  BY <1>1, <1>2

\* On every message the two flows differ as told, and not otherwise.
LEMMA FlowsOnMessages == ASSUME NEW m \in Message PROVE DifferAsKnown(m)
<1> SUFFICES ASSUME IsForm(m), QueueContextMax = FormContextMax
             PROVE  /\ QueueVerdict(m) = "accepted"
                          <=> FormAccepts(Trimmed(m)) /\ ~RefusedByQueueOnly(m)
                    /\ ContextLength(Kept(m).context)
                          = ContextLength(FormField(Trimmed(m).context))
  BY Zenon DEF DifferAsKnown
<1> DEFINE id == StripField(m.analysisId)
           name == StripField(m.fileName)
           context == StripField(m.context)
           Fields == {Absent, Mistyped} \cup Text
<1>1. id \in Fields /\ name \in Fields /\ context \in Fields
  <2>1. m.analysisId \in Fields /\ m.fileName \in Fields /\ m.context \in Fields
    BY DEF Message
  <2>2. QED
    BY <2>1, FlowsOnFields
<1>2. /\ Kept(m).analysisId = id /\ Kept(m).fileName = name
      /\ Kept(m).context = context /\ Kept(m).file = StripEncoding(m.file)
  BY DEF Kept
<1>3. /\ Trimmed(m).analysisId = id /\ Trimmed(m).context = context
      /\ Trimmed(m).file = m.file
  BY DEF Trimmed, Message
<1> HIDE DEF id, name, context
<1>4. /\ NonEmpty(id) <=> FormField(id).kind = "text"
      /\ ContextAllowed(context, QueueContextMax)
           <=> ContextAllowed(FormField(context), FormContextMax)
      /\ ContextLength(context) = ContextLength(FormField(context))
  BY <1>1, FlowsOnFields, LimitsAssumption
<1>5. Decodes(StripEncoding(m.file))
        <=> m.file \notin {"absent", "notAString"} /\ m.file # "broken"
  BY DEF Message, Encodings, Decodes, StripEncoding
<1>6. QueueVerdict(m) = "accepted" <=>
        /\ ~m.extra /\ NonEmpty(id) /\ NonEmpty(name)
        /\ Decodes(StripEncoding(m.file))
        /\ ContextAllowed(context, QueueContextMax)
  BY <1>2 DEF QueueVerdict, SchemaAccepts, IsForm
<1>7. FormAccepts(Trimmed(m)) <=>
        /\ FormField(id).kind = "text"
        /\ m.file \notin {"absent", "notAString"}
        /\ ContextAllowed(FormField(context), FormContextMax)
  BY <1>3 DEF FormAccepts
<1>8. RefusedByQueueOnly(m) <=> m.extra \/ ~NonEmpty(name) \/ m.file = "broken"
  BY DEF RefusedByQueueOnly, name
<1>9. QED
  BY <1>2, <1>3, <1>4, <1>5, <1>6, <1>7, <1>8

-----------------------------------------------------------------------------
(* Induction.  The library's theorems of induction take an operator, these *)
(* take a set; they rest on the well-foundedness of finite sets.           *)

\* A set of natural numbers has a least element: the initial segments up to its
\* elements are finite sets, and one of them has no other within it.
LEMMA LeastElement ==
    ASSUME NEW T, T \subseteq Nat, T # {}
    PROVE  \E m \in T : \A n \in T : m <= n
<1> DEFINE Segments == {0 .. n : n \in T}
<1>1. Segments \subseteq FiniteSubsetsOf(Nat) /\ Segments # {}
  <2>1. \A n \in T : IsFiniteSet(0 .. n) /\ 0 .. n \subseteq Nat
    BY FS_Interval
  <2>2. QED
    BY <2>1 DEF FiniteSubsetsOf
<1> HIDE DEF Segments
<1>2. \E s \in Segments : \A t \in Segments : ~(<<t, s>> \in StrictSubsetOrdering(Nat))
  BY <1>1, FS_StrictSubsetOrderingWellFounded, WFMin
<1>3. PICK m \in T : \A t \in Segments : ~(<<t, 0 .. m>> \in StrictSubsetOrdering(Nat))
  BY <1>2 DEF Segments
<1>4. ASSUME NEW n \in T, n < m PROVE FALSE
  <2>1. n \in Nat /\ m \in Nat /\ n < m
    BY <1>4
  <2>2. 0 .. n \subseteq 0 .. m /\ m \in 0 .. m /\ m \notin 0 .. n
    BY <2>1
  <2>3. 0 .. n \in SUBSET Nat /\ 0 .. m \in SUBSET Nat /\ 0 .. n # 0 .. m
    BY <2>1, <2>2
  <2>4. <<0 .. n, 0 .. m>> \in StrictSubsetOrdering(Nat)
    BY <2>2, <2>3, Zenon DEF StrictSubsetOrdering
  <2>5. QED
    BY <1>3, <2>4 DEF Segments
<1>5. QED
  BY <1>4

\* A set that has 0, and with a number the next one, has all of them: otherwise one
\* would be the first that is missing.
LEMMA Induction ==
    ASSUME NEW S, 0 \in S, \A n \in Nat : n \in S => n + 1 \in S
    PROVE  Nat \subseteq S
<1> SUFFICES ASSUME Nat \ S # {} PROVE FALSE
  OBVIOUS
<1>1. PICK m \in Nat \ S : \A n \in Nat \ S : m <= n
  BY LeastElement
<1>2. m # 0 /\ m - 1 \in Nat /\ m - 1 \in S
  BY <1>1
<1>3. QED
  BY <1>2

\* Among finitely many numbers one is the largest.
LEMMA Largest ==
    ASSUME NEW N \in Nat \ {0}, NEW f, \A i \in 1 .. N : f[i] \in Nat
    PROVE  \E k \in 1 .. N : \A i \in 1 .. N : f[i] <= f[k]
<1> DEFINE S == {n \in Nat : n + 1 <= N =>
                    \E k \in 1 .. n + 1 : \A i \in 1 .. n + 1 : f[i] <= f[k]}
<1>1. 0 \in S
  OBVIOUS
<1>2. ASSUME NEW n \in Nat, n \in S PROVE n + 1 \in S
  <2> SUFFICES ASSUME n + 2 <= N
               PROVE  \E k \in 1 .. n + 2 : \A i \in 1 .. n + 2 : f[i] <= f[k]
    OBVIOUS
  <2>1. PICK k \in 1 .. n + 1 : \A i \in 1 .. n + 1 : f[i] <= f[k]
    BY <1>2
  <2>2. f[k] \in Nat /\ f[n + 2] \in Nat /\ \A i \in 1 .. n + 1 : f[i] \in Nat
    OBVIOUS
  <2>3. CASE f[k] <= f[n + 2]
    <3>1. \A i \in 1 .. n + 2 : f[i] <= f[n + 2]
      BY <2>1, <2>2, <2>3
    <3>2. QED
      BY <3>1
  <2>4. CASE f[n + 2] <= f[k]
    BY <2>1, <2>2, <2>4
  <2>5. QED
    BY <2>2, <2>3, <2>4
<1>3. N - 1 \in S
  <2> HIDE DEF S
  <2>1. QED
    BY <1>1, <1>2, Induction
<1>4. QED
  BY <1>3

-----------------------------------------------------------------------------
(* Files.                                                                  *)

\* The sides of a picture that is pasted.
Size == [width : Nat \ {0}, height : Nat \ {0}]

\* A stitched picture is as wide as its widest page.
LEMMA WidestPage ==
    ASSUME NEW sizes \in Seq(Size), sizes # <<>>
    PROVE  /\ \E i \in DOMAIN sizes : sizes[i].width = Stitch(sizes).width
           /\ \A i \in DOMAIN sizes : sizes[i].width <= Stitch(sizes).width
<1> DEFINE f == [i \in 1 .. Len(sizes) |-> sizes[i].width]
<1>1. Len(sizes) \in Nat \ {0} /\ DOMAIN sizes = 1 .. Len(sizes)
  OBVIOUS
<1>2. \A i \in 1 .. Len(sizes) : f[i] \in Nat /\ f[i] = sizes[i].width
  <2>1. \A i \in 1 .. Len(sizes) : sizes[i] \in Size
    OBVIOUS
  <2>2. \A i \in 1 .. Len(sizes) : sizes[i].width \in Nat
    BY <2>1 DEF Size
  <2>3. QED
    BY <2>2
<1>3. PICK k \in 1 .. Len(sizes) : \A i \in 1 .. Len(sizes) : f[i] <= f[k]
  <2> HIDE DEF f
  <2>1. QED
    BY <1>1, <1>2, Largest
<1> DEFINE widths == {sizes[i].width : i \in DOMAIN sizes}
<1>4. \E w \in widths : \A v \in widths : w >= v
  BY <1>1, <1>2, <1>3
<1>5. Stitch(sizes).width = (CHOOSE w \in widths : \A v \in widths : w >= v)
  BY DEF Stitch, Sets!Max
<1>6. Stitch(sizes).width \in widths /\ \A v \in widths : v <= Stitch(sizes).width
  <2> HIDE DEF widths
  <2>1. QED
    BY <1>4, <1>5
<1>7. QED
  BY <1>6

\* The offsets are defined: the recursion ends at the first picture.
LEMMA OffsetsUnfold ==
    ASSUME NEW sizes \in Seq(Size)
    PROVE  Offsets(sizes) =
              [i \in 1 .. Len(sizes) + 1 |->
                  IF i = 1 THEN 0 ELSE Offsets(sizes)[i - 1] + sizes[i - 1].height]
<1> DEFINE Value(t, i) == IF i = 1 THEN 0 ELSE t[i - 1] + sizes[i - 1].height
           Defined(n) == \E t : t = [i \in 1 .. n + 1 |-> Value(t, i)]
           S == {n \in Nat : Defined(n)}
<1>1. Defined(0)
  <2>1. [i \in 1 .. 1 |-> 0] =
          [i \in 1 .. 0 + 1 |-> Value([j \in 1 .. 1 |-> 0], i)]
    OBVIOUS
  <2>2. QED
    BY <2>1
<1>2. ASSUME NEW n \in Nat, Defined(n) PROVE Defined(n + 1)
  <2>1. PICK t : t = [i \in 1 .. n + 1 |-> Value(t, i)]
    BY <1>2
  <2> DEFINE u == [i \in 1 .. (n + 1) + 1 |->
                      IF i = n + 2 THEN t[n + 1] + sizes[n + 1].height ELSE t[i]]
  <2>2. \A i \in 1 .. n + 1 : t[i] = Value(t, i)
    BY <2>1
  <2>3. ASSUME NEW i \in 1 .. (n + 1) + 1 PROVE u[i] = Value(u, i)
    <3>1. CASE i = n + 2
      <4>1. u[i] = t[n + 1] + sizes[n + 1].height /\ i # 1 /\ i - 1 = n + 1
        BY <3>1
      <4>2. u[n + 1] = t[n + 1]
        OBVIOUS
      <4>3. QED
        BY <4>1, <4>2
    <3>2. CASE i # n + 2
      <4>1. i \in 1 .. n + 1 /\ u[i] = t[i]
        BY <3>2
      <4>2. i # 1 => u[i - 1] = t[i - 1]
        BY <3>2
      <4>3. QED
        BY <2>2, <4>1, <4>2
    <3>3. QED
      BY <3>1, <3>2
  <2>4. u = [i \in 1 .. (n + 1) + 1 |-> Value(u, i)]
    <3>1. u = [i \in 1 .. (n + 1) + 1 |-> u[i]]
      OBVIOUS
    <3> HIDE DEF u, Value
    <3>2. QED
      BY <2>3, <3>1
  <2>5. QED
    BY <2>4
<1>3. Defined(Len(sizes))
  <2> HIDE DEF Defined
  <2>1. 0 \in S /\ \A n \in Nat : n \in S => n + 1 \in S
    BY <1>1, <1>2
  <2>2. Nat \subseteq S
    <3> HIDE DEF S
    <3>1. QED
      BY <2>1, Induction
  <2>3. QED
    BY <2>2
<1>4. Offsets(sizes) = CHOOSE t : t = [i \in 1 .. Len(sizes) + 1 |-> Value(t, i)]
  BY DEF Offsets
<1>5. QED
  BY <1>3, <1>4

\* Each picture begins where the one before it ends, the first at the top, and
\* the last one ends below the top.
LEMMA PastedInOrder ==
    ASSUME NEW sizes \in Seq(Size), sizes # <<>>
    PROVE  /\ Offsets(sizes)[1] = 0
           /\ \A i \in 1 .. Len(sizes) : /\ Offsets(sizes)[i] \in Nat
                                         /\ Offsets(sizes)[i + 1]
                                              = Offsets(sizes)[i] + sizes[i].height
           /\ Offsets(sizes)[Len(sizes) + 1] \in Nat \ {0}
<1> DEFINE top == Offsets(sizes)
           S == {n \in Nat : n + 1 <= Len(sizes) => top[n + 1] \in Nat}
<1> HIDE DEF top
<1>0. Len(sizes) \in Nat \ {0} /\ \A i \in 1 .. Len(sizes) : sizes[i].height \in Nat \ {0}
  <2>1. \A i \in 1 .. Len(sizes) : sizes[i] \in Size
    OBVIOUS
  <2>2. QED
    BY <2>1 DEF Size
<1>1. top = [i \in 1 .. Len(sizes) + 1 |->
                IF i = 1 THEN 0 ELSE top[i - 1] + sizes[i - 1].height]
  BY OffsetsUnfold DEF top
<1>2. top[1] = 0 /\ \A i \in 1 .. Len(sizes) : top[i + 1] = top[i] + sizes[i].height
  <2>1. \A i \in 1 .. Len(sizes) + 1 :
            top[i] = IF i = 1 THEN 0 ELSE top[i - 1] + sizes[i - 1].height
    BY <1>1
  <2>2. QED
    BY <1>0, <2>1
<1>3. 0 \in S
  BY <1>2
<1>4. ASSUME NEW n \in Nat, n \in S PROVE n + 1 \in S
  <2> SUFFICES ASSUME n + 2 <= Len(sizes) PROVE top[n + 2] \in Nat
    OBVIOUS
  <2>1. top[n + 1] \in Nat /\ n + 1 \in 1 .. Len(sizes)
    BY <1>0, <1>4
  <2>2. top[(n + 1) + 1] = top[n + 1] + sizes[n + 1].height
    BY <1>2, <2>1
  <2>3. QED
    BY <1>0, <2>1, <2>2
<1>5. Nat \subseteq S
  <2> HIDE DEF S
  <2>1. QED
    BY <1>3, <1>4, Induction
<1>6. \A i \in 1 .. Len(sizes) : top[i] \in Nat
  <2>1. ASSUME NEW i \in 1 .. Len(sizes) PROVE top[i] \in Nat
    <3>1. i - 1 \in Nat /\ (i - 1) + 1 = i /\ i <= Len(sizes)
      BY <1>0
    <3>2. i - 1 \in S
      BY <1>5, <3>1
    <3>3. top[(i - 1) + 1] \in Nat
      BY <3>1, <3>2
    <3>4. QED
      BY <3>1, <3>3
  <2>2. QED
    BY <2>1
<1>7. top[Len(sizes) + 1] \in Nat \ {0}
  <2>1. Len(sizes) \in 1 .. Len(sizes)
    BY <1>0
  <2>2. QED
    BY <1>0, <1>2, <1>6, <2>1
<1>8. QED
  BY <1>2, <1>6, <1>7 DEF top

\* What is no document has one picture at most.
Uploadable == {file \in FileType : file.magic # "pdf" => Len(file.leaves) <= 1}

\* The pages of a file, one by one.
LEMMA LeavesOf ==
    ASSUME NEW file \in FileType
    PROVE  /\ file.leaves \in Seq(Leaf) /\ Len(file.leaves) \in Nat
           /\ file.leaves = <<>> <=> Len(file.leaves) = 0
           /\ \A i \in 1 .. Len(file.leaves) :
                 /\ file.leaves[i] \in Leaf
                 /\ file.leaves[i].width \in Nat \ {0}
                 /\ file.leaves[i].height \in Nat \ {0}
<1>1. file.leaves \in Seq(Leaf)
  BY DEF FileType
<1>2. \A i \in 1 .. Len(file.leaves) : file.leaves[i] \in Leaf
  BY <1>1
<1>3. \A leaf \in Leaf : leaf.width \in Nat \ {0} /\ leaf.height \in Nat \ {0}
  BY SizesAssumption DEF Leaf
<1>4. QED
  BY <1>1, <1>2, <1>3

\* Something is shown of a file that has pages, and it can be pasted.
LEMMA ShownSizes ==
    ASSUME NEW file \in FileType, file.leaves # <<>>
    PROVE  /\ Shown(file) \in Seq(Size) /\ Shown(file) # <<>>
           /\ Len(Shown(file)) = LesserOf(Len(file.leaves), MaxPages)
           /\ LesserOf(Len(file.leaves), MaxPages) \in 1 .. Len(file.leaves)
<1> DEFINE n == LesserOf(Len(file.leaves), MaxPages)
<1>1. n \in 1 .. Len(file.leaves)
  BY LeavesOf, PagesAssumption DEF LesserOf
<1> HIDE DEF n
<1>2. Scale(file) \in 1 .. 2
  BY DEF Scale
<1>3. \A k \in 1 .. 2, s \in Nat \ {0} : k * s \in Nat \ {0}
  OBVIOUS
<1>4. \A i \in 1 .. n : [ width  |-> Scale(file) * file.leaves[i].width,
                          height |-> Scale(file) * file.leaves[i].height ] \in Size
  <2>1. \A i \in 1 .. n : /\ Scale(file) * file.leaves[i].width \in Nat \ {0}
                          /\ Scale(file) * file.leaves[i].height \in Nat \ {0}
    BY <1>1, <1>2, <1>3, LeavesOf
  <2>2. QED
    BY <2>1 DEF Size
<1>5. Shown(file) \in [1 .. n -> Size]
  BY <1>4 DEF Shown, n
<1>6. n \in Nat \ {0}
  BY <1>1, LeavesOf
<1>7. QED
  BY <1>1, <1>5, <1>6 DEF n

\* An image is pasted as it is.
LEMMA ImageShown ==
    ASSUME NEW file \in FileType, file.magic # "pdf", Len(file.leaves) = 1
    PROVE  Shown(file) = <<[width |-> file.leaves[1].width,
                            height |-> file.leaves[1].height]>>
<1>1. LesserOf(Len(file.leaves), MaxPages) = 1
  BY PagesAssumption DEF LesserOf
<1>2. \A i \in 1 .. 1 : i = 1 /\ Scale(file) * file.leaves[i].width = file.leaves[1].width
                              /\ Scale(file) * file.leaves[i].height = file.leaves[1].height
  BY LeavesOf DEF Scale
<1>3. Shown(file) = [i \in 1 .. 1 |-> [width |-> file.leaves[1].width,
                                       height |-> file.leaves[1].height]]
  BY <1>1, <1>2 DEF Shown
<1>4. QED
  BY <1>3

\* Each picture that is pasted has no more pixels than all of them together.
LEMMA PastedIsSmaller ==
    ASSUME NEW sizes \in Seq(Size), sizes # <<>>, Opens(Stitch(sizes))
    PROVE  \A i \in 1 .. Len(sizes) : Opens(sizes[i])
<1> DEFINE top == Offsets(sizes)
           S == {n \in Nat : n + 1 <= Len(sizes) + 1 =>
                                \A i \in 1 .. n + 1 : top[i] <= top[n + 1]}
<1>1. /\ Len(sizes) \in Nat \ {0}
      /\ \A i \in 1 .. Len(sizes) : /\ sizes[i].width \in Nat /\ sizes[i].height \in Nat
                                    /\ top[i + 1] = top[i] + sizes[i].height
      /\ \A i \in 1 .. Len(sizes) + 1 : top[i] \in Nat
  <2>1. \A i \in 1 .. Len(sizes) : sizes[i] \in Size
    OBVIOUS
  <2>2. \A i \in 1 .. Len(sizes) : top[i] \in Nat /\ top[i + 1] = top[i] + sizes[i].height
    BY PastedInOrder
  <2>3. top[Len(sizes) + 1] \in Nat
    BY PastedInOrder
  <2>4. Len(sizes) \in Nat \ {0}
    OBVIOUS
  <2> HIDE DEF top
  <2>5. QED
    BY <2>1, <2>2, <2>3, <2>4 DEF Size
<1> HIDE DEF top
<1>2. 0 \in S
  BY <1>1
<1>3. ASSUME NEW n \in Nat, n \in S PROVE n + 1 \in S
  <2> SUFFICES ASSUME n + 2 <= Len(sizes) + 1, NEW i \in 1 .. n + 2
               PROVE  top[i] <= top[n + 2]
    OBVIOUS
  <2>1. n + 1 \in 1 .. Len(sizes) /\ (n + 1) + 1 = n + 2
    BY <1>1
  <2>2. /\ top[n + 2] = top[n + 1] + sizes[n + 1].height
        /\ sizes[n + 1].height \in Nat /\ top[n + 1] \in Nat /\ top[n + 2] \in Nat
    BY <1>1, <2>1
  <2>3. CASE i = n + 2
    BY <2>2, <2>3
  <2>4. CASE i # n + 2
    <3>1. i \in 1 .. n + 1 /\ top[i] \in Nat
      BY <1>1, <2>1, <2>4
    <3>2. top[i] <= top[n + 1]
      BY <1>1, <1>3, <2>1, <3>1
    <3>3. QED
      BY <2>2, <3>1, <3>2
  <2>5. QED
    BY <2>3, <2>4
<1>4. \A i \in 1 .. Len(sizes) + 1 : top[i] <= top[Len(sizes) + 1]
  <2> HIDE DEF S
  <2>1. Nat \subseteq S
    BY <1>2, <1>3, Induction
  <2>2. Len(sizes) \in S
    BY <1>1, <2>1
  <2> USE DEF S
  <2>3. QED
    BY <1>1, <2>2
<1>5. ASSUME NEW i \in 1 .. Len(sizes) PROVE Opens(sizes[i])
  <2> DEFINE w == sizes[i].width
             h == sizes[i].height
             W == Stitch(sizes).width
             H == Stitch(sizes).height
  <2>1. H = top[Len(sizes) + 1]
    BY DEF Stitch, top
  <2>2. i + 1 \in 1 .. Len(sizes) + 1 /\ i \in 1 .. Len(sizes) + 1
    BY <1>1
  <2>3. /\ w \in Nat /\ h \in Nat /\ H \in Nat /\ h <= H
    BY <1>1, <1>4, <2>1, <2>2
  <2>4. W \in Nat /\ w <= W
    <3>1. PICK k \in 1 .. Len(sizes) : sizes[k].width = W
      BY WidestPage
    <3>2. QED
      BY <1>1, <3>1, WidestPage
  <2> HIDE DEF w, h, W, H
  <2>5. w * h <= W * H
    <3>1. \A u, v, x \in Nat : v <= x => u * v <= u * x /\ v * u <= x * u
      OBVIOUS
    <3>2. w * h <= w * H /\ w * H <= W * H
      BY <2>3, <2>4, <3>1
    <3>3. \A u, v \in Nat : u * v \in Nat
      OBVIOUS
    <3>4. w * h \in Nat /\ w * H \in Nat /\ W * H \in Nat
      BY <2>3, <2>4, <3>3
    <3>5. QED
      BY <3>2, <3>4
  <2>6. W * H <= MaxPixels
    BY DEF Opens, W, H
  <2>7. w * h \in Nat /\ W * H \in Nat
    <3>1. \A u, v \in Nat : u * v \in Nat
      OBVIOUS
    <3>2. QED
      BY <2>3, <2>4, <3>1
  <2>8. w * h <= MaxPixels
    BY <2>5, <2>6, <2>7, PixelsAssumption
  <2>9. QED
    BY <2>8 DEF Opens, w, h
<1>6. QED
  BY <1>5

\* Three facts about a file decide which exception it raises, if any; if none, what
\* it shows is stitched, opened and normalised.
LEMMA FileDecided ==
    ASSUME NEW file \in Uploadable
    PROVE  /\ PreprocessFile(file).error = P!Preprocess(FactsOf(file))
           /\ PreprocessFile(file).error = "none" =>
                 /\ file.leaves # <<>>
                 /\ Opens(Stitch(Shown(file)))
                 /\ PreprocessFile(file) = NormalizeImage(Stitch(Shown(file)))
<1> DEFINE n == LesserOf(Len(file.leaves), MaxPages)
           opened == IF file.magic = "pdf" THEN PdfToImage(file) ELSE ImageOf(file)
           sound == /\ file.opens
                    /\ file.leaves # <<>>
                    /\ \A i \in 1 .. n : file.leaves[i].sound
           whole == Stitch(Shown(file))
           readable == FactsOf(file).readable
<1>0. file \in FileType
  BY DEF Uploadable
<1>1. readable <=> sound /\ Opens(whole)
  BY DEF FactsOf, Shown
<1>2. /\ sound /\ Opens(whole) => opened.error = "none"
      /\ opened.error = "none" => sound /\ opened.picture = whole
      /\ opened.error # "none" => opened = Refuse("InvalidInputError")
  <2>1. CASE file.magic = "pdf"
    <3> DEFINE pages == [i \in 1 .. n |-> Rendered(file.leaves[i])]
               small == \A i \in 1 .. n : Opens(Rendered(file.leaves[i]))
    <3>1. Shown(file) = pages
      BY <2>1 DEF Shown, Scale, Rendered
    <3>2. PdfToImage(file) = IF sound /\ small
                             THEN [error |-> "none", picture |-> Stitch(pages)]
                             ELSE Refuse("InvalidInputError")
      BY DEF PdfToImage, PagesToRender
    <3>3. opened = PdfToImage(file)
      BY <2>1
    <3>4. sound /\ Opens(whole) => small
      <4>1. ASSUME sound, Opens(whole) PROVE small
        <5>1. /\ Shown(file) \in Seq(Size) /\ Shown(file) # <<>>
              /\ Len(Shown(file)) = n
          BY <1>0, <4>1, ShownSizes
        <5>2. \A i \in 1 .. n : Opens(Shown(file)[i])
          BY <4>1, <5>1, PastedIsSmaller
        <5>3. \A i \in 1 .. n : Shown(file)[i] = Rendered(file.leaves[i])
          BY <3>1
        <5>4. QED
          BY <5>2, <5>3
      <4>2. QED
        BY <4>1
    <3>5. Refuse("InvalidInputError").error = "InvalidInputError"
      BY DEF Refuse
    <3> HIDE DEF pages, opened, sound, small, whole
    <3>6. whole = Stitch(pages)
      BY <3>1 DEF whole
    <3>7. QED
      BY <3>2, <3>3, <3>4, <3>5, <3>6
  <2>2. CASE file.magic # "pdf"
    <3>1. file.leaves # <<>> => Len(file.leaves) = 1 /\ n = 1
      <4>1. Len(file.leaves) <= 1
        BY <2>2 DEF Uploadable
      <4>2. Len(file.leaves) \in Nat /\ (file.leaves # <<>> => Len(file.leaves) # 0)
        BY <1>0, LeavesOf
      <4>3. \A k \in Nat : k <= 1 /\ k # 0 => k = 1 /\ LesserOf(k, MaxPages) = 1
        BY PagesAssumption DEF LesserOf
      <4>4. QED
        BY <4>1, <4>2, <4>3
    <3>2. sound <=> file.opens /\ file.leaves # <<>> /\ file.leaves[1].sound
      BY <3>1
    <3>3. Refuse("InvalidInputError").error = "InvalidInputError"
      BY DEF Refuse
    <3>4. opened = ImageOf(file)
      BY <2>2
    <3>5. ImageOf(file) = IF sound THEN [error |-> "none", picture |-> whole]
                                   ELSE Refuse("InvalidInputError")
      BY <1>0, <2>2, <3>1, <3>2, ImageShown DEF ImageOf
    <3> HIDE DEF opened, sound, whole
    <3>6. QED
      BY <3>3, <3>4, <3>5
  <2>3. QED
    BY <2>1, <2>2
<1>3. PreprocessFile(file) =
        IF file.size > MaxFileSize THEN Refuse("InvalidInputError")
        ELSE IF file.magic = "other" THEN Refuse("UnsupportedFormatError")
        ELSE IF opened.error # "none" THEN opened
        ELSE NormalizeImage(opened.picture)
  <2>1. ValidateSize(file) <=> ~(file.size > MaxFileSize)
    BY <1>0, SizesAssumption DEF ValidateSize, FileType
  <2>2. QED
    BY <2>1 DEF PreprocessFile
<1>4. P!Preprocess(FactsOf(file)) =
        IF file.size > MaxFileSize THEN "InvalidInputError"
        ELSE IF file.magic = "other" THEN "UnsupportedFormatError"
        ELSE IF ~readable THEN "InvalidInputError"
        ELSE "none"
  BY DEF P!Preprocess, FactsOf
<1>5. /\ \A exception : Refuse(exception).error = exception
      /\ \A picture : /\ Opens(picture) => NormalizeImage(picture).error = "none"
                      /\ ~Opens(picture) =>
                            NormalizeImage(picture) = Refuse("InvalidInputError")
  BY DEF Refuse, NormalizeImage
<1>6. sound => file.leaves # <<>>
  OBVIOUS
<1> HIDE DEF opened, readable, sound, whole
<1>7. CASE file.size > MaxFileSize \/ file.magic = "other"
  BY <1>3, <1>4, <1>5, <1>7
<1>8. CASE ~(file.size > MaxFileSize \/ file.magic = "other")
  <2>1. PreprocessFile(file) = IF opened.error # "none" THEN opened
                               ELSE NormalizeImage(opened.picture)
    BY <1>3, <1>8
  <2>2. P!Preprocess(FactsOf(file)) = IF ~readable THEN "InvalidInputError" ELSE "none"
    BY <1>4, <1>8
  <2>3. CASE readable
    <3>1. opened.error = "none" /\ opened.picture = whole /\ Opens(whole) /\ sound
      BY <1>1, <1>2, <2>3
    <3>2. PreprocessFile(file) = NormalizeImage(whole)
      BY <2>1, <3>1
    <3>3. PreprocessFile(file).error = "none"
      BY <1>5, <3>1, <3>2
    <3>4. QED
      BY <1>6, <2>2, <2>3, <3>1, <3>2, <3>3 DEF whole
  <2>4. CASE ~readable
    <3>1. PreprocessFile(file) = Refuse("InvalidInputError")
      <4>1. CASE opened.error # "none"
        BY <1>2, <2>1, <4>1
      <4>2. CASE opened.error = "none"
        <5>1. ~Opens(whole) /\ opened.picture = whole
          BY <1>1, <1>2, <2>4, <4>2
        <5>2. QED
          BY <1>5, <2>1, <4>2, <5>1
      <4>3. QED
        BY <4>1, <4>2
    <3>2. QED
      BY <1>5, <2>2, <2>4, <3>1
  <2>5. QED
    BY <2>3, <2>4
<1>9. QED
  BY <1>7, <1>8

\* The picture of a file shows its pages.
LEMMA EveryPageShown ==
    ASSUME NEW file \in Uploadable, PreprocessFile(file).error = "none"
    PROVE  ShowsThePages(file, PreprocessFile(file))
<1> DEFINE sizes == Shown(file)
           p == Stitch(sizes)
           n == LesserOf(Len(file.leaves), MaxPages)
           height(i) == Scale(file) * file.leaves[i].height
           width(i) == Scale(file) * file.leaves[i].width
<1>0. file \in FileType /\ file.leaves # <<>>
  BY FileDecided DEF Uploadable
<1>1. PreprocessFile(file).picture = p
  <2>1. PreprocessFile(file) = NormalizeImage(p) /\ Opens(p)
    BY FileDecided
  <2>2. \A q : Opens(q) => NormalizeImage(q).picture = q
    BY DEF NormalizeImage
  <2>3. QED
    BY <2>1, <2>2
<1>2. /\ sizes \in Seq(Size) /\ sizes # <<>>
      /\ Len(sizes) = n /\ DOMAIN sizes = 1 .. n
      /\ n \in Nat \ {0}
  <2>1. sizes \in Seq(Size) /\ sizes # <<>> /\ Len(sizes) = n
    BY <1>0, ShownSizes
  <2>2. QED
    BY <2>1
<1>3. \A i \in 1 .. n : sizes[i].width = width(i) /\ sizes[i].height = height(i)
  BY DEF Shown
<1>4. /\ p.height = Offsets(sizes)[Len(sizes) + 1]
      /\ p.pasted = [i \in 1 .. n |-> [page |-> i, top |-> Offsets(sizes)[i]]]
  BY <1>2 DEF Stitch
<1>5. Len(p.pasted) = n
  BY <1>2, <1>4
<1>6. \A i \in 1 .. n : p.pasted[i].page = i /\ p.pasted[i].top = Offsets(sizes)[i]
  BY <1>4
<1>7. /\ Offsets(sizes)[1] = 0
      /\ \A i \in 1 .. n : Offsets(sizes)[i + 1] = Offsets(sizes)[i] + height(i)
  <2>1. /\ Offsets(sizes)[1] = 0
        /\ \A i \in 1 .. n : Offsets(sizes)[i + 1] = Offsets(sizes)[i] + sizes[i].height
    BY <1>2, PastedInOrder
  <2>2. QED
    BY <1>3, <2>1
<1>8. /\ \A i \in 1 .. n : width(i) <= p.width
      /\ \E i \in 1 .. n : width(i) = p.width
  <2>1. /\ \E i \in 1 .. n : sizes[i].width = p.width
        /\ \A i \in 1 .. n : sizes[i].width <= p.width
    <3> HIDE DEF sizes
    <3>1. QED
      BY <1>2, WidestPage
  <2>2. QED
    BY <1>3, <2>1
<1>9. n = IF Len(file.leaves) < MaxPages THEN Len(file.leaves) ELSE MaxPages
  BY DEF LesserOf
<1> HIDE DEF p, n, sizes
<1>10. /\ p.pasted[1].top = 0
       /\ \A i \in 1 .. n - 1 : p.pasted[i + 1].top = p.pasted[i].top + height(i)
       /\ p.pasted[n].top + height(n) = p.height
  <2>1. 1 \in 1 .. n /\ n \in 1 .. n
        /\ \A i \in 1 .. n - 1 : i \in 1 .. n /\ i + 1 \in 1 .. n
    BY <1>2
  <2>2. p.height = Offsets(sizes)[n + 1]
    BY <1>2, <1>4
  <2>3. QED
    BY <1>6, <1>7, <2>1, <2>2
<1>11. QED
  BY <1>1, <1>5, <1>6, <1>8, <1>9, <1>10 DEF ShowsThePages

-----------------------------------------------------------------------------
(* Downsampling.                                                           *)

\* The shorter side is less than one pixel off what the aspect would make it.
LEMMA ShorterSideFits ==
    ASSUME NEW a \in Nat \ {0}, NEW b \in Nat \ {0}, b <= a, NEW isHeight \in BOOLEAN
    PROVE  LET s == ShorterSide(a, b, isHeight)
           IN  /\ s \in 1 .. MaxSide
               /\ Distance(MaxSide * b, s * a) < a
<1> DEFINE x == MaxSide * b
           low == x \div a
           high == IF low * a = x THEN low ELSE low + 1
           s == ShorterSide(a, b, isHeight)
<1>0. x \in Nat \ {0} /\ MaxSide \in Nat \ {0} /\ x <= MaxSide * a /\ MaxSide * a \in Nat
  <2>1. \A u, v \in Nat : u * v \in Nat
    OBVIOUS
  <2>2. \A u, v, w \in Nat : v <= w => u * v <= u * w
    OBVIOUS
  <2>3. \A u, v \in Nat \ {0} : u * v # 0
    OBVIOUS
  <2>4. QED
    BY <2>1, <2>2, <2>3, SideAssumption
<1>1. /\ s \in {low, high} \/ (low = 0 /\ s = 1)
      /\ low = 0 => s = 1
  BY DEF ShorterSide
<1>2. low \in Nat /\ low * a \in Nat /\ low * a <= x /\ x < low * a + a
  <2> HIDE DEF x
  <2>1. \A k \in Nat : LET q == k \div a IN q \in Nat /\ q * a <= k /\ k < q * a + a
    OBVIOUS
  <2>2. \A q \in Nat : q * a \in Nat
    OBVIOUS
  <2>3. QED
    BY <1>0, <2>1, <2>2
<1> HIDE DEF low
<1>3. (low + 1) * a = low * a + a
  BY <1>2
<1>4. \A u, v \in Nat : u * a <= v * a => u <= v
  <2>1. SUFFICES ASSUME NEW u \in Nat, NEW v \in Nat, v < u PROVE v * a < u * a
    <3>1. \A u, v \in Nat : u * a \in Nat /\ v * a \in Nat
      OBVIOUS
    <3>2. QED
      BY <2>1, <3>1
  <2>2. (v + 1) * a = v * a + a /\ v * a \in Nat /\ u * a \in Nat
    OBVIOUS
  <2>3. (v + 1) * a <= u * a
    <3>1. \A k, d \in Nat : (k + d) * a = k * a + d * a /\ d * a \in Nat /\ k * a \in Nat
      OBVIOUS
    <3>2. u - (v + 1) \in Nat /\ v + 1 \in Nat /\ (v + 1) + (u - (v + 1)) = u
      BY <2>1
    <3>3. u * a = (v + 1) * a + (u - (v + 1)) * a
      BY <3>1, <3>2
    <3>4. QED
      BY <3>1, <3>2, <3>3
  <2>4. QED
    BY <2>2, <2>3
<1>5. low <= MaxSide /\ (low * a # x => low + 1 <= MaxSide)
  <2>1. low <= MaxSide
    BY <1>0, <1>2, <1>4
  <2>2. ASSUME low * a # x PROVE low # MaxSide
    BY <1>0, <1>2, <2>2
  <2>3. QED
    BY <1>0, <1>2, <2>1, <2>2
<1>6. high \in Nat /\ high <= MaxSide /\ high * a \in Nat
      /\ Distance(x, low * a) < a /\ Distance(x, high * a) < a
  <2>1. CASE low * a = x
    BY <1>0, <1>2, <1>5, <2>1 DEF Distance
  <2>2. CASE low * a # x
    BY <1>0, <1>2, <1>3, <1>5, <2>2 DEF Distance
  <2>3. QED
    BY <2>1, <2>2
<1>7. s \in 1 .. MaxSide
  BY <1>0, <1>1, <1>2, <1>5, <1>6
<1>8. Distance(x, s * a) < a
  <2>1. CASE s \in {low, high}
    BY <1>6, <2>1
  <2>2. CASE low = 0 /\ s = 1
    <3>1. x < a /\ 1 * a = a
      BY <1>2, <2>2
    <3>2. Distance(x, a) < a
      BY <1>0, <3>1 DEF Distance
    <3>3. QED
      BY <2>2, <3>1, <3>2
  <2>3. QED
    BY <1>1, <2>1, <2>2
<1>9. QED
  BY <1>7, <1>8

\* What Image.thumbnail() makes of the sides.
LEMMA Thumbnails ==
    ASSUME NEW w \in Nat \ {0}, NEW h \in Nat \ {0}, NEW p, p.width = w, p.height = h
    PROVE  /\ w <= MaxSide /\ h <= MaxSide => Thumbnail(p) = [width |-> w, height |-> h]
           /\ (w > MaxSide \/ h > MaxSide) /\ w <= h =>
                 Thumbnail(p) = [width |-> ShorterSide(h, w, FALSE), height |-> MaxSide]
           /\ (w > MaxSide \/ h > MaxSide) /\ h < w =>
                 Thumbnail(p) = [width |-> MaxSide, height |-> ShorterSide(w, h, TRUE)]
<1>1. /\ w > MaxSide => ~(w <= MaxSide)
      /\ h > MaxSide => ~(h <= MaxSide)
      /\ h < w => ~(w <= h)
  BY SideAssumption
<1>2. QED
  BY <1>1, Zenon DEF Thumbnail

\* A distance has no direction.
LEMMA DistanceSymmetric ==
    ASSUME NEW a \in Nat, NEW b \in Nat, NEW c \in Nat, NEW d \in Nat
    PROVE  Distance(a * b, c * d) = Distance(c * d, a * b)
<1>1. \A u, v \in Nat : u * v \in Nat
  OBVIOUS
<1>2. \A u, v \in Nat : Distance(u, v) = Distance(v, u)
  BY DEF Distance
<1>3. QED
  BY <1>1, <1>2

\* Every picture fits after downsampling, and the flag says whether it was reduced.
LEMMA EveryPictureFits ==
    ASSUME NEW w \in Nat \ {0}, NEW h \in Nat \ {0}, NEW p, p.width = w, p.height = h,
           Opens(p)
    PROVE  FitsAndTells(NormalizeImage(p))
<1> DEFINE t == Thumbnail(p)
           result == NormalizeImage(p)
           reduced == w > MaxSide \/ h > MaxSide
           longer == IF w < h THEN h ELSE w
<1>1. /\ result.picture = p /\ result.size = t
      /\ result.downsampled <=> t.width # w \/ t.height # h
  BY DEF NormalizeImage
<1>2. ASSUME /\ t.width \in 1 .. MaxSide /\ t.height \in 1 .. MaxSide
             /\ ~reduced => t.width = w /\ t.height = h
             /\ reduced => /\ t.width = MaxSide \/ t.height = MaxSide
                           /\ Distance(t.width * h, t.height * w) < longer
      PROVE  FitsAndTells(result)
  <2>1. reduced => t.width # w \/ t.height # h
    BY <1>2, SideAssumption
  <2> HIDE DEF t, result
  <2>2. result.downsampled <=> reduced
    BY <1>1, <1>2, <2>1
  <2>3. QED
    BY <1>1, <1>2, <2>1, <2>2 DEF FitsAndTells
<1>3. CASE ~reduced
  <2>1. w <= MaxSide /\ h <= MaxSide
    BY <1>3, SideAssumption
  <2>2. w \in 1 .. MaxSide /\ h \in 1 .. MaxSide
    BY <2>1, SideAssumption
  <2>3. t.width = w /\ t.height = h
    <3>1. t = [width |-> w, height |-> h]
      BY <2>1, Thumbnails, Zenon
    <3> HIDE DEF t
    <3>2. QED
      BY <3>1
  <2>4. QED
    BY <1>2, <1>3, <2>2, <2>3
<1>4. CASE reduced /\ w <= h
  <2> DEFINE s == ShorterSide(h, w, FALSE)
  <2>1. t.width = s /\ t.height = MaxSide
    <3>1. t = [width |-> s, height |-> MaxSide]
      <4>1. (w > MaxSide \/ h > MaxSide) /\ w <= h
        BY <1>4
      <4>2. ~(w <= MaxSide /\ h <= MaxSide)
        BY <4>1, SideAssumption
      <4>3. QED
        BY <4>1, <4>2, Zenon DEF Thumbnail
    <3> HIDE DEF t
    <3>2. QED
      BY <3>1
  <2>2. s \in 1 .. MaxSide /\ Distance(MaxSide * w, s * h) < h
    BY <1>4, ShorterSideFits
  <2>3. Distance(s * h, MaxSide * w) = Distance(MaxSide * w, s * h)
    <3> HIDE DEF s
    <3>1. s \in Nat /\ h \in Nat /\ w \in Nat /\ MaxSide \in Nat
      BY <2>2, SideAssumption
    <3>2. QED
      BY <3>1, DistanceSymmetric
  <2>4. longer = h /\ MaxSide \in 1 .. MaxSide
    BY <1>4, SideAssumption
  <2> HIDE DEF t, s, longer, reduced
  <2>5. QED
    BY <1>2, <1>4, <2>1, <2>2, <2>3, <2>4
<1>5. CASE reduced /\ h < w
  <2> DEFINE s == ShorterSide(w, h, TRUE)
  <2>1. t.width = MaxSide /\ t.height = s
    <3>1. t = [width |-> MaxSide, height |-> s]
      BY <1>5, Thumbnails, Zenon
    <3> HIDE DEF t
    <3>2. QED
      BY <3>1
  <2>2. s \in 1 .. MaxSide /\ Distance(MaxSide * h, s * w) < w
    <3>1. h <= w
      BY <1>5
    <3>2. QED
      BY <3>1, ShorterSideFits
  <2>3. longer = w /\ MaxSide \in 1 .. MaxSide
    BY <1>5, SideAssumption
  <2> HIDE DEF t, s, longer, reduced
  <2>4. QED
    BY <1>2, <1>5, <2>1, <2>2, <2>3
<1>6. QED
  BY <1>3, <1>4, <1>5

\* The picture of a file has sides.
LEMMA PictureHasSides ==
    ASSUME NEW file \in Uploadable, PreprocessFile(file).error = "none"
    PROVE  /\ Stitch(Shown(file)).width \in Nat \ {0}
           /\ Stitch(Shown(file)).height \in Nat \ {0}
<1>1. file \in FileType /\ file.leaves # <<>>
  BY FileDecided DEF Uploadable
<1>2. Shown(file) \in Seq(Size) /\ Shown(file) # <<>>
  BY <1>1, ShownSizes
<1>3. PICK i \in DOMAIN Shown(file) : Shown(file)[i].width = Stitch(Shown(file)).width
  BY <1>2, WidestPage
<1>4. Shown(file)[i] \in Size
  BY <1>2, <1>3
<1>5. Stitch(Shown(file)).height = Offsets(Shown(file))[Len(Shown(file)) + 1]
  BY DEF Stitch
<1>6. QED
  BY <1>2, <1>3, <1>4, <1>5, PastedInOrder DEF Size

-----------------------------------------------------------------------------
(* The lines of a reply.                                                   *)

\* A reply that is the document and nothing else.
LEMMA OneLine ==
    ASSUME NEW s \in Seq(Lines)
    PROVE  s = <<"json">> <=> Len(s) = 1 /\ s[1] = "json"
<1>1. ASSUME Len(s) = 1, s[1] = "json" PROVE s = <<"json">>
  <2>1. s = [i \in 1 .. 1 |-> s[i]]
    BY <1>1
  <2>2. QED
    BY <1>1, <2>1
<1>2. QED
  BY <1>1

\* The replies in which a document is found: bare, or in a fence that may lack its
\* end.
LEMMA FencesStripped ==
    ASSUME NEW text \in Seq(Lines)
    PROVE  Parses(text) <=>
              \/ Len(text) = 1 /\ text[1] = "json"
              \/ /\ Len(text) = 2
                 /\ text[1] \in {"fence", "taggedFence"} /\ text[2] = "json"
              \/ /\ Len(text) = 3
                 /\ text[1] \in {"fence", "taggedFence"} /\ text[2] = "json"
                 /\ text[3] = "fence"
<1> DEFINE rest == StripMarkdownFences(text)
           fenced == text # <<>> /\ text[1] \in {"fence", "taggedFence"}
<1>0. Len(text) \in Nat /\ (text = <<>> <=> Len(text) = 0)
  OBVIOUS
<1>1. StartsWithFence(text) <=> fenced
  BY DEF StartsWithFence
<1>2. CASE ~fenced
  <2>1. rest = text
    BY <1>1, <1>2 DEF StripMarkdownFences
  <2>2. QED
    BY <1>0, <1>2, <2>1, OneLine DEF Parses
<1>3. CASE fenced /\ text[Len(text)] = "fence"
  <2>1. rest = SubSeq(text, 2, Len(text) - 1)
    BY <1>1, <1>3 DEF StripMarkdownFences
  <2>2. Len(text) >= 1
    BY <1>0, <1>3
  <2>3. /\ SubSeq(text, 2, Len(text) - 1) \in Seq(Lines)
        /\ Len(SubSeq(text, 2, Len(text) - 1)) = 1 <=> Len(text) = 3
        /\ Len(text) = 3 => SubSeq(text, 2, Len(text) - 1)[1] = text[2]
    <3>1. \A i \in 2 .. Len(text) - 1 : text[i] \in Lines
      BY <1>0
    <3>2. /\ SubSeq(text, 2, Len(text) - 1) \in Seq(Lines)
          /\ Len(SubSeq(text, 2, Len(text) - 1))
               = IF 2 <= Len(text) - 1 THEN (Len(text) - 1) - 2 + 1 ELSE 0
          /\ \A i \in 1 .. (Len(text) - 1) - 2 + 1 :
                SubSeq(text, 2, Len(text) - 1)[i] = text[2 + i - 1]
      BY <1>0, <3>1, SubSeqProperties
    <3> DEFINE inner == SubSeq(text, 2, Len(text) - 1)
    <3> HIDE DEF inner
    <3>3. /\ inner \in Seq(Lines)
          /\ Len(inner) = IF 2 <= Len(text) - 1 THEN (Len(text) - 1) - 2 + 1 ELSE 0
          /\ \A i \in 1 .. (Len(text) - 1) - 2 + 1 : inner[i] = text[2 + i - 1]
      BY <3>2 DEF inner
    <3>4. Len(inner) = 1 <=> Len(text) = 3
      <4>1. \A n \in Nat :
               (IF 2 <= n - 1 THEN (n - 1) - 2 + 1 ELSE 0) = 1 <=> n = 3
        OBVIOUS
      <4>2. Len(inner) = IF 2 <= Len(text) - 1 THEN (Len(text) - 1) - 2 + 1 ELSE 0
        BY <3>3
      <4>3. QED
        BY <1>0, <4>1, <4>2, Zenon
    <3>5. ASSUME Len(text) = 3 PROVE inner[1] = text[2]
      <4>1. 1 \in 1 .. (Len(text) - 1) - 2 + 1 /\ 2 + 1 - 1 = 2
        BY <3>5
      <4>2. inner[1] = text[2 + 1 - 1]
        BY <3>3, <4>1
      <4>3. QED
        BY <4>2
    <3>6. QED
      BY <3>3, <3>4, <3>5 DEF inner
  <2>4. Parses(text) <=> Len(text) = 3 /\ text[2] = "json"
    BY <2>1, <2>3, OneLine DEF Parses
  <2>5. QED
    BY <1>3, <2>4
<1>4. CASE fenced /\ text[Len(text)] # "fence"
  <2>1. rest = Tail(text)
    BY <1>1, <1>4 DEF StripMarkdownFences
  <2>2. /\ Tail(text) \in Seq(Lines)
        /\ Len(Tail(text)) = 1 <=> Len(text) = 2
        /\ Len(text) = 2 => Tail(text)[1] = text[2]
    BY <1>0, <1>4
  <2>3. Parses(text) <=> Len(text) = 2 /\ text[2] = "json"
    BY <2>1, <2>2, OneLine DEF Parses
  <2>4. QED
    BY <1>4, <2>3
<1>5. QED
  BY <1>2, <1>3, <1>4

\* These are the texts that a reply may be repaired from.
LEMMA ParsesIffRepairable ==
    ASSUME NEW text \in Seq(Lines)
    PROVE  Parses(text) <=> text \in OneDocument
<1>1. ASSUME NEW open \in {"fence", "taggedFence"}
      PROVE  /\ <<open, "json">> \o <<>> = <<open, "json">>
             /\ <<open, "json">> \o <<"fence">> = <<open, "json", "fence">>
  <2>1. <<open, "json">> \in Seq(Lines) /\ <<"fence">> \in Seq(Lines)
        /\ <<open, "json", "fence">> \in Seq(Lines)
    BY DEF Lines
  <2>2. <<open, "json">> \o <<>> = <<open, "json">>
    BY <2>1, ConcatEmptySeq
  <2>3. /\ <<open, "json">> \o <<"fence">> \in Seq(Lines)
        /\ Len(<<open, "json">> \o <<"fence">>) = 3
        /\ \A i \in 1 .. 3 : (<<open, "json">> \o <<"fence">>)[i]
                             = IF i <= 2 THEN <<open, "json">>[i] ELSE <<"fence">>[i - 2]
    <3>1. Len(<<open, "json">>) = 2 /\ Len(<<"fence">>) = 1
      OBVIOUS
    <3>2. QED
      BY <2>1, <3>1, ConcatProperties
  <2>4. \A i \in 1 .. 3 : (IF i <= 2 THEN <<open, "json">>[i] ELSE <<"fence">>[i - 2])
                          = <<open, "json", "fence">>[i]
    OBVIOUS
  <2>5. Len(<<open, "json", "fence">>) = 3
    OBVIOUS
  <2>6. <<open, "json">> \o <<"fence">> = <<open, "json", "fence">>
    <3> DEFINE long == <<open, "json", "fence">>
               joined == <<open, "json">> \o <<"fence">>
    <3>1. long \in Seq(Lines) /\ joined \in Seq(Lines) /\ Len(joined) = Len(long)
      BY <2>1, <2>3, <2>5
    <3>2. \A i \in 1 .. Len(joined) : joined[i] = long[i]
      BY <2>3, <2>4
    <3> HIDE DEF long, joined
    <3>3. joined = long
      BY <3>1, <3>2, SeqEqual
    <3>4. QED
      BY <3>3 DEF long, joined
  <2>7. QED
    BY <2>2, <2>6
<1>2. ASSUME Len(text) = 2 PROVE text = <<text[1], text[2]>>
  BY <1>2
<1>3. ASSUME Len(text) = 3 PROVE text = <<text[1], text[2], text[3]>>
  BY <1>3
<1>4. text \in OneDocument
        <=> \/ text = <<"json">>
            \/ \E open \in {"fence", "taggedFence"} :
                  text = <<open, "json">> \/ text = <<open, "json", "fence">>
  <2>1. text \in OneDocument
          <=> \/ text = <<"json">>
              \/ \E open \in {"fence", "taggedFence"}, close \in {<<>>, <<"fence">>} :
                    text = <<open, "json">> \o close
    BY DEF OneDocument
  <2>2. QED
    BY <1>1, <2>1
<1>5. QED
  BY <1>2, <1>3, <1>4, FencesStripped, OneLine

-----------------------------------------------------------------------------
(* The references of a risk.                                               *)

\* The entries of a list that belong to a set, counted one by one.
LEMMA Counting ==
    ASSUME NEW list, NEW names
    PROVE  /\ CountOf(list, names, 0) = 0
           /\ \A n \in Nat :
                 /\ CountOf(list, names, n) \in Nat
                 /\ list[n + 1] \in names
                      => CountOf(list, names, n + 1) = CountOf(list, names, n) + 1
                 /\ list[n + 1] \notin names
                      => CountOf(list, names, n + 1) = CountOf(list, names, n)
<1> DEFINE Known(n) == {j \in 1 .. n : list[j] \in names}
<1>1. \A n : CountOf(list, names, n) = Cardinality(Known(n))
  BY DEF CountOf
<1>2. Known(0) = {}
  OBVIOUS
<1>3. ASSUME NEW n \in Nat PROVE IsFiniteSet(Known(n)) /\ Cardinality(Known(n)) \in Nat
  <2>1. IsFiniteSet(1 .. n)
    BY FS_Interval
  <2>2. Known(n) \subseteq 1 .. n
    OBVIOUS
  <2>3. IsFiniteSet(Known(n))
    BY <2>1, <2>2, FS_Subset
  <2>4. QED
    BY <2>3, FS_CardinalityType
<1>4. ASSUME NEW n \in Nat
      PROVE  /\ list[n + 1] \in names => Known(n + 1) = Known(n) \cup {n + 1}
             /\ list[n + 1] \notin names => Known(n + 1) = Known(n)
             /\ n + 1 \notin Known(n)
  <2>1. 1 .. n + 1 = (1 .. n) \cup {n + 1} /\ n + 1 \notin 1 .. n
    OBVIOUS
  <2>2. QED
    BY <2>1
<1> HIDE DEF Known
<1>5. ASSUME NEW n \in Nat
      PROVE  /\ list[n + 1] \in names
                  => Cardinality(Known(n + 1)) = Cardinality(Known(n)) + 1
             /\ list[n + 1] \notin names
                  => Cardinality(Known(n + 1)) = Cardinality(Known(n))
  <2>1. IsFiniteSet(Known(n)) /\ n + 1 \notin Known(n)
    BY <1>3, <1>4
  <2>2. Cardinality(Known(n) \cup {n + 1}) = Cardinality(Known(n)) + 1
    BY <2>1, FS_AddElement
  <2>3. QED
    BY <1>4, <2>2, Zenon
<1>6. Cardinality(Known(0)) = 0
  BY <1>2, FS_EmptySet
<1>7. \A n \in Nat :
         /\ Cardinality(Known(n)) \in Nat
         /\ list[n + 1] \in names => Cardinality(Known(n + 1)) = Cardinality(Known(n)) + 1
         /\ list[n + 1] \notin names => Cardinality(Known(n + 1)) = Cardinality(Known(n))
  BY <1>3, <1>5
<1>8. QED
  BY <1>1, <1>6, <1>7, Zenon

\* What KeepOnly returns: names of the set only, each of those in the list, in their
\* order; and all of the list if they all belong to the set.
LEMMA OnlyKept ==
    ASSUME NEW S, NEW list \in Seq(S), NEW names
    PROVE  /\ KeepOnly(list, names) \in Seq(S)
           /\ \A k \in 1 .. Len(KeepOnly(list, names)) : KeepOnly(list, names)[k] \in names
           /\ Remaining(KeepOnly(list, names), list, names)
           /\ (\A k \in 1 .. Len(list) : list[k] \in names) => KeepOnly(list, names) = list
<1> DEFINE Value(t, i) == IF i = 0 THEN <<>>
                         ELSE IF list[i] \in names THEN Append(t[i - 1], list[i])
                         ELSE t[i - 1]
           Defined(n) == \E t : t = [i \in 0 .. n |-> Value(t, i)]
           S1 == {n \in Nat : Defined(n)}
<1>1. Defined(0)
  <2>1. [i \in 0 .. 0 |-> <<>>] = [i \in 0 .. 0 |-> Value([j \in 0 .. 0 |-> <<>>], i)]
    OBVIOUS
  <2>2. QED
    BY <2>1
<1>2. ASSUME NEW n \in Nat, Defined(n) PROVE Defined(n + 1)
  <2>1. PICK t : t = [i \in 0 .. n |-> Value(t, i)]
    BY <1>2
  <2> DEFINE u == [i \in 0 .. n + 1 |->
                      IF i = n + 1
                      THEN IF list[n + 1] \in names THEN Append(t[n], list[n + 1]) ELSE t[n]
                      ELSE t[i]]
  <2>2. \A i \in 0 .. n : t[i] = Value(t, i)
    BY <2>1
  <2>3. ASSUME NEW i \in 0 .. n + 1 PROVE u[i] = Value(u, i)
    <3>1. CASE i = n + 1
      <4>1. i # 0 /\ i - 1 = n /\ u[n] = t[n]
        BY <3>1
      <4>2. QED
        BY <3>1, <4>1
    <3>2. CASE i # n + 1
      <4>1. i \in 0 .. n /\ u[i] = t[i]
        BY <3>2
      <4>2. i # 0 => u[i - 1] = t[i - 1]
        BY <3>2
      <4>3. QED
        BY <2>2, <4>1, <4>2
    <3>3. QED
      BY <3>1, <3>2
  <2>4. u = [i \in 0 .. n + 1 |-> Value(u, i)]
    <3>1. u = [i \in 0 .. n + 1 |-> u[i]]
      OBVIOUS
    <3> HIDE DEF u, Value
    <3>2. QED
      BY <2>3, <3>1
  <2>5. QED
    BY <2>4
<1>3. Defined(Len(list))
  <2> HIDE DEF Defined
  <2>1. 0 \in S1 /\ \A n \in Nat : n \in S1 => n + 1 \in S1
    BY <1>1, <1>2
  <2>2. Nat \subseteq S1
    <3> HIDE DEF S1
    <3>1. QED
      BY <2>1, Induction
  <2>3. Len(list) \in Nat
    OBVIOUS
  <2>4. QED
    BY <2>2, <2>3
<1> DEFINE kept == CHOOSE t : t = [i \in 0 .. Len(list) |-> Value(t, i)]
<1>4. kept = [i \in 0 .. Len(list) |-> Value(kept, i)]
  BY <1>3
<1>5. KeepOnly(list, names) = kept[Len(list)]
  BY DEF KeepOnly
<1> HIDE DEF kept
<1> DEFINE count(n) == CountOf(list, names, n)
           Good(n) == /\ kept[n] \in Seq(S)
                      /\ \A k \in 1 .. Len(kept[n]) : kept[n][k] \in names
                      /\ (\A k \in 1 .. n : list[k] \in names) => kept[n] = SubSeq(list, 1, n)
                      /\ Len(kept[n]) = count(n)
                      /\ \A j \in 1 .. n : list[j] \in names =>
                            /\ count(j) \in 1 .. Len(kept[n])
                            /\ kept[n][count(j)] = list[j]
           S2 == {n \in Nat : n <= Len(list) => Good(n)}
<1>6. \A i \in 0 .. Len(list) : kept[i] = Value(kept, i)
  BY <1>4
<1>7. /\ count(0) = 0
      /\ \A n \in Nat :
            /\ count(n) \in Nat
            /\ list[n + 1] \in names => count(n + 1) = count(n) + 1
            /\ list[n + 1] \notin names => count(n + 1) = count(n)
  BY Counting
<1>8. Good(0)
  <2>1. kept[0] = <<>> /\ SubSeq(list, 1, 0) = <<>>
    BY <1>6
  <2>2. count(0) = 0
    BY <1>7
  <2>3. QED
    BY <2>1, <2>2
<1>9. ASSUME NEW n \in Nat, n + 1 <= Len(list), Good(n) PROVE Good(n + 1)
  <2>1. n + 1 \in 1 .. Len(list) /\ n + 1 # 0 /\ (n + 1) - 1 = n
    BY <1>9
  <2>2. kept[n + 1] = IF list[n + 1] \in names THEN Append(kept[n], list[n + 1]) ELSE kept[n]
    BY <1>6, <2>1
  <2>3. list[n + 1] \in S
    BY <2>1
  <2>4. /\ count(n) \in Nat
        /\ list[n + 1] \in names => count(n + 1) = count(n) + 1
        /\ list[n + 1] \notin names => count(n + 1) = count(n)
    BY <1>7
  <2>5. \A j \in 1 .. n + 1 : j # n + 1 => j \in 1 .. n
    OBVIOUS
  <2> HIDE DEF count
  <2>6. CASE list[n + 1] \in names
    <3>1. kept[n + 1] = Append(kept[n], list[n + 1])
      BY <2>2, <2>6
    <3>2. /\ kept[n + 1] \in Seq(S)
          /\ \A k \in 1 .. Len(kept[n + 1]) : kept[n + 1][k] \in names
      BY <1>9, <2>3, <2>6, <3>1
    <3>3. SubSeq(list, 1, n + 1) = Append(SubSeq(list, 1, n), list[n + 1])
      BY <2>1
    <3>4. ASSUME \A k \in 1 .. n + 1 : list[k] \in names
          PROVE  kept[n + 1] = SubSeq(list, 1, n + 1)
      <4>1. kept[n] = SubSeq(list, 1, n)
        BY <1>9, <3>4
      <4>2. QED
        BY <3>1, <3>3, <4>1
    <3>5. Len(kept[n + 1]) = count(n + 1) /\ count(n + 1) = Len(kept[n]) + 1
      BY <1>9, <2>3, <2>6, <2>4, <3>1
    <3>6. ASSUME NEW j \in 1 .. n + 1, list[j] \in names
          PROVE  count(j) \in 1 .. Len(kept[n + 1]) /\ kept[n + 1][count(j)] = list[j]
      <4>1. CASE j = n + 1
        BY <1>9, <2>3, <2>4, <3>1, <3>5, <4>1
      <4>2. CASE j # n + 1
        <5>1. count(j) \in 1 .. Len(kept[n]) /\ kept[n][count(j)] = list[j]
          BY <1>9, <2>5, <3>6, <4>2
        <5>2. QED
          BY <1>9, <2>3, <2>4, <3>1, <3>5, <5>1
      <4>3. QED
        BY <4>1, <4>2
    <3>7. QED
      BY <3>2, <3>4, <3>5, <3>6
  <2>7. CASE list[n + 1] \notin names
    <3>1. kept[n + 1] = kept[n] /\ count(n + 1) = count(n)
      BY <2>2, <2>7, <2>4
    <3>2. \A j \in 1 .. n + 1 : list[j] \in names => j \in 1 .. n
      BY <2>7, <2>5
    <3>3. ~(\A k \in 1 .. n + 1 : list[k] \in names)
      BY <1>9, <2>7
    <3>4. QED
      BY <1>9, <3>1, <3>2, <3>3
  <2>8. QED
    BY <2>6, <2>7
<1>10. Good(Len(list))
  <2> HIDE DEF Good
  <2>1. 0 \in S2 /\ \A n \in Nat : n \in S2 => n + 1 \in S2
    BY <1>8, <1>9
  <2>2. Nat \subseteq S2
    <3> HIDE DEF S2
    <3>1. QED
      BY <2>1, Induction
  <2>3. Len(list) \in Nat
    OBVIOUS
  <2>4. QED
    BY <2>2, <2>3
<1>11. SubSeq(list, 1, Len(list)) = list
  OBVIOUS
<1>12. Remaining(kept[Len(list)], list, names)
  BY <1>10 DEF Remaining
<1>13. QED
  BY <1>5, <1>10, <1>11, <1>12

-----------------------------------------------------------------------------
(* Normalisation and schema.                                               *)

\* An element as it is after normalisation.
Normal(item, listed, fallback) ==
    IF item.object THEN [item EXCEPT !.enum = NormalizeEnum(@, listed, fallback)] ELSE item

\* What the schema accepts: an element, a section.
Clean(item, listed) == item.object /\ item.enum \in listed /\ item.rest = "complete"

CleanSection(s, listed) ==
    \/ s.kind = "absent"
    \/ s.kind = "list" /\ \A i \in DOMAIN s.items : Clean(s.items[i], listed)

\* The values of an enumeration, and the one that stands for others.
Enumeration(listed, fallback) ==
    /\ listed \subseteq Types \cup Levels
    /\ fallback \in listed

\* What normalisation falls back to is a value of the enumeration.
LEMMA Enumerations ==
    Enumeration(Types, "unknown") /\ Enumeration(Levels, "medium")
BY DEF Enumeration, Types, Levels

\* An item is the record of its fields.
LEMMA ItemFields ==
    ASSUME NEW item \in Item
    PROVE  /\ item.object \in BOOLEAN /\ item.name \in Names /\ item.refs \in Seq(Names)
           /\ item.enum \in Types \cup Levels \cup NotListed
           /\ item.rest \in {"complete", "incomplete", "badRefs"}
           /\ \A e \in Types \cup Levels \cup NotListed : [item EXCEPT !.enum = e] \in Item
           /\ \A r \in Seq(Names) : [item EXCEPT !.refs = r] \in Item
           /\ [item EXCEPT !.enum = item.enum] = item
           /\ [item EXCEPT !.refs = item.refs] = item
           /\ \A e : /\ [item EXCEPT !.enum = e].object = item.object
                     /\ [item EXCEPT !.enum = e].name = item.name
                     /\ [item EXCEPT !.enum = e].enum = e
                     /\ [item EXCEPT !.enum = e].rest = item.rest
                     /\ [item EXCEPT !.enum = e].refs = item.refs
           /\ \A r : /\ [item EXCEPT !.refs = r].object = item.object
                     /\ [item EXCEPT !.refs = r].name = item.name
                     /\ [item EXCEPT !.refs = r].enum = item.enum
                     /\ [item EXCEPT !.refs = r].rest = item.rest
                     /\ [item EXCEPT !.refs = r].refs = r
BY DEF Item

\* Normalisation makes clean exactly what is usable, and leaves alone what is clean.
LEMMA NormalItem ==
    ASSUME NEW item \in Item, NEW listed, NEW fallback, Enumeration(listed, fallback)
    PROVE  /\ Normal(item, listed, fallback) \in Item
           /\ Clean(Normal(item, listed, fallback), listed) <=> Usable(item)
           /\ Clean(item, listed) => Normal(item, listed, fallback) = item
           /\ Usable(item) => SameElement(item, Normal(item, listed, fallback), listed)
<1> DEFINE e == NormalizeEnum(item.enum, listed, fallback)
           after == Normal(item, listed, fallback)
<1>1. /\ e \in Types \cup Levels \cup NotListed
      /\ e \in listed <=> item.enum # "nonText"
      /\ item.enum \in listed => e = item.enum
  <2>1. "nonText" \notin Types \cup Levels /\ "nonText" \in NotListed
    BY DEF Types, Levels, NotListed
  <2>2. item.enum \in Types \cup Levels \cup NotListed
    BY ItemFields
  <2>3. QED
    BY <2>1, <2>2 DEF NormalizeEnum, Enumeration
<1>2. after = IF item.object THEN [item EXCEPT !.enum = e] ELSE item
  BY DEF Normal
<1> HIDE DEF e, after
<1>3. CASE item.object
  <2>1. after = [item EXCEPT !.enum = e]
    BY <1>2, <1>3
  <2>2. after \in Item
    BY <1>1, <2>1, ItemFields
  <2>3. /\ after.object = item.object /\ after.enum = e /\ after.rest = item.rest
        /\ after.refs = item.refs
    BY <2>1, ItemFields
  <2>4. Clean(after, listed) <=> Usable(item)
    BY <1>1, <1>3, <2>3 DEF Clean, Usable
  <2>5. Clean(item, listed) => after = item
    BY <1>1, <2>1, ItemFields DEF Clean
  <2>6. after = [item EXCEPT !.enum = after.enum]
    BY <2>1, <2>3
  <2>7. SameElement(item, after, listed)
    BY <1>1, <2>3, <2>6 DEF SameElement
  <2>8. QED
    BY <2>2, <2>3, <2>4, <2>5, <2>7 DEF after
<1>4. CASE ~item.object
  BY <1>2, <1>4 DEF Clean, Usable, after
<1>5. QED
  BY <1>3, <1>4, ItemFields

\* The words of an element are none if it is clean.
LEMMA ItemWords ==
    ASSUME NEW item \in Item, NEW listed, NEW section, NEW field
    PROVE  ItemErrors(item, listed, section, field) = {} <=> Clean(item, listed)
<1>1. item.rest \in {"complete", "incomplete", "badRefs"}
  BY ItemFields
<1>2. QED
  BY <1>1 DEF ItemErrors, Clean

\* A section is the record of its fields, and its elements are items.
LEMMA SectionFields ==
    ASSUME NEW s \in Section
    PROVE  /\ s.kind \in {"absent", "null", "text", "list"}
           /\ s.items \in Seq(Item) /\ Len(s.items) \in Nat
           /\ DOMAIN s.items = 1 .. Len(s.items)
           /\ \A i \in DOMAIN s.items : s.items[i] \in Item
<1>1. s.kind \in {"absent", "null", "text", "list"} /\ s.items \in Seq(Item)
  BY DEF Section
<1>2. QED
  BY <1>1

\* The words of a section are none if it is clean.
LEMMA SectionWords ==
    ASSUME NEW s \in Section, NEW listed, NEW section, NEW field
    PROVE  SectionErrors(s, listed, section, field) = {} <=> CleanSection(s, listed)
<1>1. s.kind \in {"absent", "null", "text", "list"}
  BY SectionFields
<1>2. CASE s.kind = "list"
  <2>1. SectionErrors(s, listed, section, field)
          = UNION {ItemErrors(s.items[i], listed, section, field) : i \in DOMAIN s.items}
    BY <1>2 DEF SectionErrors
  <2>2. UNION {ItemErrors(s.items[i], listed, section, field) : i \in DOMAIN s.items} = {}
          <=> \A i \in DOMAIN s.items :
                  ItemErrors(s.items[i], listed, section, field) = {}
    OBVIOUS
  <2>3. \A i \in DOMAIN s.items :
            ItemErrors(s.items[i], listed, section, field) = {}
              <=> Clean(s.items[i], listed)
    BY SectionFields, ItemWords
  <2>4. QED
    BY <1>2, <2>1, <2>2, <2>3 DEF CleanSection
<1>3. CASE s.kind # "list"
  BY <1>1, <1>3 DEF SectionErrors, CleanSection
<1>4. QED
  BY <1>2, <1>3

\* Normalisation works element by element.
LEMMA NormalSection ==
    ASSUME NEW s \in Section, NEW listed, NEW fallback, Enumeration(listed, fallback)
    PROVE  LET t == NormalizeSection(s, listed, fallback)
           IN  /\ t \in Section /\ t.kind = s.kind
               /\ Len(t.items) = Len(s.items)
               /\ s.kind = "list" => \A i \in DOMAIN s.items :
                                        t.items[i] = Normal(s.items[i], listed, fallback)
               /\ CleanSection(t, listed) <=> UsableSection(s)
               /\ s.kind = "list" /\ CleanSection(s, listed) => t = s
<1> DEFINE t == NormalizeSection(s, listed, fallback)
           items == [i \in DOMAIN s.items |-> Normal(s.items[i], listed, fallback)]
<1>0. /\ s = [kind |-> s.kind, items |-> s.items]
      /\ \A q \in Seq(Item) : [s EXCEPT !.items = q] \in Section
      /\ \A q : [s EXCEPT !.items = q].items = q /\ [s EXCEPT !.items = q].kind = s.kind
      /\ [s EXCEPT !.items = s.items] = s
  BY DEF Section
<1>1. CASE s.kind = "list"
  <2>1. t = [s EXCEPT !.items = items]
    BY <1>1 DEF NormalizeSection, Normal
  <2>2. \A i \in DOMAIN s.items : items[i] = Normal(s.items[i], listed, fallback)
    OBVIOUS
  <2>3. \A i \in DOMAIN s.items : items[i] \in Item
    BY <2>2, SectionFields, NormalItem
  <2>4. items \in Seq(Item) /\ Len(items) = Len(s.items) /\ DOMAIN items = DOMAIN s.items
    <3>1. items \in [1 .. Len(s.items) -> Item]
      BY <2>3, SectionFields
    <3>2. QED
      BY <3>1, SectionFields
  <2> HIDE DEF items, t
  <2>5. t \in Section /\ t.kind = s.kind /\ t.items = items
    BY <1>0, <2>1, <2>4
  <2>6. \A i \in DOMAIN s.items : /\ Clean(items[i], listed) <=> Usable(s.items[i])
                                  /\ Clean(s.items[i], listed) => items[i] = s.items[i]
    BY <2>2, SectionFields, NormalItem
  <2>7. CleanSection(t, listed) <=> UsableSection(s)
    BY <1>1, <2>4, <2>5, <2>6 DEF CleanSection, UsableSection
  <2>8. ASSUME CleanSection(s, listed) PROVE t = s
    <3>1. \A i \in 1 .. Len(items) : items[i] = s.items[i]
      BY <1>1, <2>4, <2>6, <2>8, SectionFields DEF CleanSection
    <3>2. items = s.items
      BY <2>4, <3>1, SectionFields, SeqEqual
    <3>3. QED
      BY <1>0, <2>1, <3>2
  <2>9. QED
    BY <2>2, <2>4, <2>5, <2>7, <2>8 DEF t
<1>2. CASE s.kind # "list"
  <2>1. t = s
    BY <1>2 DEF NormalizeSection
  <2>2. QED
    BY <1>2, <2>1 DEF CleanSection, UsableSection
<1>3. QED
  BY <1>1, <1>2

\* A document is the record of its fields.
LEMMA DocumentFields ==
    ASSUME NEW doc \in Document
    PROVE  /\ doc.object \in BOOLEAN /\ doc.extra \in BOOLEAN
           /\ doc.summary \in [kind : {"absent", "text", "other"}, length : Nat]
           /\ doc.summary.length \in Nat
           /\ doc.components \in Section /\ doc.risks \in Section
           /\ doc.recommendations \in Section
BY DEF Document

\* What normalisation and truncation make of a document, part by part.
Repaired(doc) == TruncateSummary(NormalizeRaw(doc))

\* Repair works part by part.
LEMMA RepairedParts ==
    ASSUME NEW doc \in Document
    PROVE  /\ Repaired(doc).extra = doc.extra
           /\ Repaired(doc).components = NormalizeSection(doc.components, Types, "unknown")
           /\ Repaired(doc).risks = NormalizeSection(doc.risks, Levels, "medium")
           /\ Repaired(doc).recommendations
                = NormalizeSection(doc.recommendations, Levels, "medium")
           /\ Repaired(doc).summary.kind = doc.summary.kind
           /\ Repaired(doc).summary.length
                = IF TooLong(doc) THEN SummaryMax ELSE doc.summary.length
<1> DEFINE raw == NormalizeRaw(doc)
           all == DOMAIN doc
<1>1. /\ raw.extra = doc.extra /\ raw.summary = doc.summary
      /\ raw.components = NormalizeSection(doc.components, Types, "unknown")
      /\ raw.risks = NormalizeSection(doc.risks, Levels, "medium")
      /\ raw.recommendations = NormalizeSection(doc.recommendations, Levels, "medium")
      /\ "summary" \in DOMAIN raw
  BY DEF NormalizeRaw, Document
<1>2. TooLong(raw) <=> TooLong(doc)
  BY <1>1 DEF TooLong
<1>3. doc.summary = [kind |-> doc.summary.kind, length |-> doc.summary.length]
  BY DocumentFields
<1> HIDE DEF raw
<1>4. CASE ~TooLong(doc)
  <2>1. Repaired(doc) = raw
    BY <1>2, <1>4 DEF Repaired, TruncateSummary, raw
  <2>2. QED
    BY <1>1, <1>4, <2>1
<1>5. CASE TooLong(doc)
  <2>1. Repaired(doc) = [raw EXCEPT !.summary.length = SummaryMax]
    BY <1>2, <1>5 DEF Repaired, TruncateSummary, raw
  <2>2. /\ Repaired(doc).extra = raw.extra
        /\ Repaired(doc).components = raw.components
        /\ Repaired(doc).risks = raw.risks
        /\ Repaired(doc).recommendations = raw.recommendations
        /\ Repaired(doc).summary = [raw.summary EXCEPT !.length = SummaryMax]
    BY <1>1, <2>1
  <2>3. QED
    BY <1>1, <1>3, <1>5, <2>2
<1>6. QED
  BY <1>4, <1>5

\* A document has no errors if its summary fits, its sections are clean, there is a
\* component, and there is nothing else.
LEMMA SchemaWords ==
    ASSUME NEW doc, doc.components \in Section, doc.risks \in Section,
           doc.recommendations \in Section
    PROVE  SchemaErrors(doc) = {} <=>
              /\ SummaryErrors(doc.summary) = {}
              /\ CleanSection(doc.components, Types)
              /\ doc.components.kind # "absent" /\ doc.components.items # <<>>
              /\ CleanSection(doc.risks, Levels)
              /\ CleanSection(doc.recommendations, Levels)
              /\ ~doc.extra
<1> DEFINE a == SummaryErrors(doc.summary)
           b == SectionErrors(doc.components, Types, "components", "type")
           c == IF doc.components.kind = "absent" \/ doc.components.items = <<>>
                THEN {"components"} ELSE {}
           d == SectionErrors(doc.risks, Levels, "risks", "severity")
           e == SectionErrors(doc.recommendations, Levels, "recommendations", "priority")
           f == IF doc.extra THEN {"extra"} ELSE {}
<1>1. SchemaErrors(doc) = UNION {a, b, c, d, e, f}
  BY DEF SchemaErrors
<1>2. /\ b = {} <=> CleanSection(doc.components, Types)
      /\ d = {} <=> CleanSection(doc.risks, Levels)
      /\ e = {} <=> CleanSection(doc.recommendations, Levels)
  BY SectionWords
<1>3. /\ c = {} <=> doc.components.kind # "absent" /\ doc.components.items # <<>>
      /\ f = {} <=> ~doc.extra
  OBVIOUS
<1> HIDE DEF a, b, c, d, e, f
<1>4. UNION {a, b, c, d, e, f} = {} <=>
        a = {} /\ b = {} /\ c = {} /\ d = {} /\ e = {} /\ f = {}
  OBVIOUS
<1>5. a = SummaryErrors(doc.summary)
  BY DEF a
<1>6. QED
  BY <1>1, <1>2, <1>3, <1>4, <1>5

\* A repaired document has no errors if it could be repaired.
LEMMA RepairedWords ==
    ASSUME NEW doc \in Document
    PROVE  SchemaErrors(Repaired(doc)) = {} <=>
              /\ ~doc.extra
              /\ doc.summary.kind = "text" /\ doc.summary.length > 0
              /\ \A s \in Sections(doc) : UsableSection(s)
              /\ doc.components.kind \notin {"absent"} /\ doc.components.items # <<>>
<1> DEFINE d == Repaired(doc)
<1>1. /\ d.components \in Section /\ d.risks \in Section /\ d.recommendations \in Section
      /\ d.components.kind = doc.components.kind
      /\ d.components.items = <<>> <=> doc.components.items = <<>>
      /\ CleanSection(d.components, Types) <=> UsableSection(doc.components)
      /\ CleanSection(d.risks, Levels) <=> UsableSection(doc.risks)
      /\ CleanSection(d.recommendations, Levels) <=> UsableSection(doc.recommendations)
  <2>1. /\ d.components \in Section /\ d.components.kind = doc.components.kind
        /\ Len(d.components.items) = Len(doc.components.items)
        /\ CleanSection(d.components, Types) <=> UsableSection(doc.components)
    BY RepairedParts, DocumentFields, Enumerations, NormalSection
  <2>2. d.risks \in Section /\ (CleanSection(d.risks, Levels) <=> UsableSection(doc.risks))
    BY RepairedParts, DocumentFields, Enumerations, NormalSection
  <2>3. /\ d.recommendations \in Section
        /\ CleanSection(d.recommendations, Levels) <=> UsableSection(doc.recommendations)
    BY RepairedParts, DocumentFields, Enumerations, NormalSection
  <2>4. \A q \in Seq(Item) : q = <<>> <=> Len(q) = 0
    OBVIOUS
  <2>5. d.components.items = <<>> <=> doc.components.items = <<>>
    BY <2>1, <2>4, DocumentFields, SectionFields
  <2>6. QED
    BY <2>1, <2>2, <2>3, <2>5
<1>2. SummaryErrors(d.summary) = {} <=> doc.summary.kind = "text" /\ doc.summary.length > 0
  <2>1. d.summary.kind = doc.summary.kind /\ doc.summary.length \in Nat
    BY RepairedParts, DocumentFields
  <2>2. d.summary.length = IF TooLong(doc) THEN SummaryMax ELSE doc.summary.length
    BY RepairedParts
  <2> HIDE DEF d
  <2>3. QED
    BY <2>1, <2>2, LengthsAssumption DEF SummaryErrors, TooLong
<1>3. d.extra = doc.extra
  BY RepairedParts
<1>4. Sections(doc) = {doc.components, doc.risks, doc.recommendations}
  BY DEF Sections
<1> HIDE DEF d
<1>5. QED
  BY <1>1, <1>2, <1>3, <1>4, SchemaWords DEF d

\* The result of validate_and_normalize, case by case.
LEMMA ResultOf ==
    ASSUME NEW text, NEW doc
    PROVE  LET result == ValidateAndNormalize(text, doc)
           IN  /\ result.kind \in {"report", "invalid", "alien"}
               /\ result.kind = "report" <=>
                     Parses(text) /\ ~NormalizationRaises(doc) /\ SchemaErrors(Repaired(doc)) = {}
               /\ result.kind = "report" =>
                     /\ result.report = MakeReport(Repaired(doc))
                     /\ result.truncated = TooLong(doc)
<1> DEFINE result == ValidateAndNormalize(text, doc)
<1>1. CASE ~Parses(text)
  BY <1>1 DEF ValidateAndNormalize
<1>2. CASE Parses(text) /\ NormalizationRaises(doc)
  BY <1>2 DEF ValidateAndNormalize
<1>3. CASE Parses(text) /\ ~NormalizationRaises(doc) /\ SchemaErrors(Repaired(doc)) # {}
  BY <1>3 DEF ValidateAndNormalize, Repaired
<1>4. CASE Parses(text) /\ ~NormalizationRaises(doc) /\ SchemaErrors(Repaired(doc)) = {}
  <2>1. result = [ kind |-> "report", report |-> MakeReport(Repaired(doc)),
                   truncated |-> TooLong(doc) ]
    BY <1>4 DEF ValidateAndNormalize, Repaired
  <2> HIDE DEF result
  <2>2. QED
    BY <1>4, <2>1 DEF result
<1>5. QED
  BY <1>1, <1>2, <1>3, <1>4

\* A reply becomes a report exactly if it can be repaired.
LEMMA ReportIffRepairable ==
    ASSUME NEW text \in Seq(Lines), NEW doc \in Document
    PROVE  ValidateAndNormalize(text, doc).kind = "report" <=> Repairable(text, doc)
<1>1. UsableSection(doc.components) /\ doc.components.kind # "absent"
        => doc.components.kind = "list"
  BY DEF UsableSection
<1>2. (\A s \in Sections(doc) : UsableSection(s)) => \A s \in Sections(doc) : s.kind # "null"
  BY DEF UsableSection
<1>3. doc.components \in Sections(doc)
  BY DEF Sections
<1>4. NormalizationRaises(doc) <=> ~doc.object \/ \E s \in Sections(doc) : s.kind = "null"
  BY DEF NormalizationRaises
<1>5. Repairable(text, doc) <=>
        /\ Parses(text)
        /\ doc.object /\ ~doc.extra
        /\ doc.summary.kind = "text" /\ doc.summary.length > 0
        /\ \A s \in Sections(doc) : UsableSection(s)
        /\ doc.components.kind = "list" /\ doc.components.items # <<>>
  BY ParsesIffRepairable DEF Repairable
<1>6. QED
  BY <1>1, <1>2, <1>3, <1>4, <1>5, RepairedWords, ResultOf

-----------------------------------------------------------------------------
(* Reports.                                                                *)

Reports == [ summary : Nat, components : Seq(Item), risks : Seq(Item),
             recommendations : Seq(Item) ]

\* A report of which the schema has nothing to say.
CleanReport(report) ==
    /\ report \in Reports
    /\ report.summary \in 1 .. SummaryMax
    /\ report.components # <<>>
    /\ \A i \in DOMAIN report.components : Clean(report.components[i], Types)
    /\ \A i \in DOMAIN report.risks : Clean(report.risks[i], Levels)
    /\ \A i \in DOMAIN report.recommendations : Clean(report.recommendations[i], Levels)

\* A report is the record of its fields.
LEMMA ReportFields ==
    ASSUME NEW report \in Reports
    PROVE  /\ report.summary \in Nat
           /\ report.components \in Seq(Item)
           /\ report.risks \in Seq(Item)
           /\ report.recommendations \in Seq(Item)
           /\ report = [ summary |-> report.summary, components |-> report.components,
                         risks |-> report.risks,
                         recommendations |-> report.recommendations ]
           /\ \A q \in Seq(Item) :
                 /\ [report EXCEPT !.risks = q] \in Reports
                 /\ [report EXCEPT !.risks = q].summary = report.summary
                 /\ [report EXCEPT !.risks = q].components = report.components
                 /\ [report EXCEPT !.risks = q].recommendations = report.recommendations
                 /\ [report EXCEPT !.risks = q].risks = q
           /\ [report EXCEPT !.risks = report.risks] = report
BY DEF Reports

\* The elements of a section that was repaired are clean, and those that were sent.
LEMMA ItemsRepaired ==
    ASSUME NEW s \in Section, NEW listed, NEW fallback, Enumeration(listed, fallback),
           UsableSection(s)
    PROVE  LET items == ItemsOf(NormalizeSection(s, listed, fallback))
           IN  /\ items \in Seq(Item)
               /\ \A i \in DOMAIN items : Clean(items[i], listed)
               /\ SameElements(ItemsOf(s), items, listed)
<1> DEFINE t == NormalizeSection(s, listed, fallback)
<1>1. /\ t \in Section /\ t.kind = s.kind /\ Len(t.items) = Len(s.items)
      /\ s.kind = "list" => \A i \in DOMAIN s.items :
                               t.items[i] = Normal(s.items[i], listed, fallback)
      /\ CleanSection(t, listed)
  BY NormalSection
<1> HIDE DEF t
<1>2. CASE s.kind = "list"
  <2>1. ItemsOf(t) = t.items /\ ItemsOf(s) = s.items
    BY <1>1, <1>2 DEF ItemsOf
  <2>2. /\ t.items \in Seq(Item) /\ DOMAIN t.items = DOMAIN s.items
        /\ \A i \in DOMAIN t.items : Clean(t.items[i], listed)
    BY <1>1, <1>2, SectionFields DEF CleanSection
  <2>3. \A i \in DOMAIN s.items : SameElement(s.items[i], t.items[i], listed)
    BY <1>1, <1>2, SectionFields, NormalItem DEF UsableSection
  <2>4. SameElements(s.items, t.items, listed)
    BY <1>1, <2>2, <2>3 DEF SameElements
  <2>5. QED
    BY <2>1, <2>2, <2>4 DEF t
<1>3. CASE s.kind # "list"
  <2>1. ItemsOf(t) = <<>> /\ ItemsOf(s) = <<>>
    BY <1>1, <1>3 DEF ItemsOf
  <2>2. SameElements(<<>>, <<>>, listed)
    BY DEF SameElements
  <2>3. QED
    BY <2>1, <2>2 DEF t
<1>4. QED
  BY <1>2, <1>3

\* What becomes of a reply that can be repaired: a clean report with the elements that
\* were sent, and the summary up to its limit.
LEMMA ReportRepaired ==
    ASSUME NEW doc \in Document, SchemaErrors(Repaired(doc)) = {}
    PROVE  LET report == MakeReport(Repaired(doc))
           IN  /\ CleanReport(report)
               /\ SameElements(ItemsOf(doc.components), report.components, Types)
               /\ SameElements(ItemsOf(doc.risks), report.risks, Levels)
               /\ SameElements(ItemsOf(doc.recommendations), report.recommendations, Levels)
               /\ report.summary
                    = IF doc.summary.length > SummaryMax THEN SummaryMax
                      ELSE doc.summary.length
<1> DEFINE d == Repaired(doc)
           report == MakeReport(d)
<1>1. /\ doc.summary.kind = "text" /\ doc.summary.length > 0
      /\ \A s \in Sections(doc) : UsableSection(s)
      /\ doc.components.kind \notin {"absent"} /\ doc.components.items # <<>>
  BY RepairedWords
<1>2. /\ UsableSection(doc.components) /\ UsableSection(doc.risks)
      /\ UsableSection(doc.recommendations)
  BY <1>1 DEF Sections
<1>3. doc.components.kind = "list"
  BY <1>1, <1>2 DEF UsableSection
<1>4. /\ d.components = NormalizeSection(doc.components, Types, "unknown")
      /\ d.risks = NormalizeSection(doc.risks, Levels, "medium")
      /\ d.recommendations = NormalizeSection(doc.recommendations, Levels, "medium")
      /\ d.summary.length = IF TooLong(doc) THEN SummaryMax ELSE doc.summary.length
  BY RepairedParts
<1> HIDE DEF d
<1>5. /\ report.summary = d.summary.length
      /\ report.components = ItemsOf(d.components)
      /\ report.risks = ItemsOf(d.risks)
      /\ report.recommendations = ItemsOf(d.recommendations)
      /\ report = [ summary |-> d.summary.length, components |-> ItemsOf(d.components),
                    risks |-> ItemsOf(d.risks),
                    recommendations |-> ItemsOf(d.recommendations) ]
  BY DEF MakeReport
<1> HIDE DEF report
<1>6. /\ report.components \in Seq(Item)
      /\ \A i \in DOMAIN report.components : Clean(report.components[i], Types)
      /\ SameElements(ItemsOf(doc.components), report.components, Types)
  BY <1>2, <1>4, <1>5, DocumentFields, Enumerations, ItemsRepaired
<1>7. /\ report.risks \in Seq(Item)
      /\ \A i \in DOMAIN report.risks : Clean(report.risks[i], Levels)
      /\ SameElements(ItemsOf(doc.risks), report.risks, Levels)
  BY <1>2, <1>4, <1>5, DocumentFields, Enumerations, ItemsRepaired
<1>8. /\ report.recommendations \in Seq(Item)
      /\ \A i \in DOMAIN report.recommendations : Clean(report.recommendations[i], Levels)
      /\ SameElements(ItemsOf(doc.recommendations), report.recommendations, Levels)
  BY <1>2, <1>4, <1>5, DocumentFields, Enumerations, ItemsRepaired
<1>9. /\ report.summary \in 1 .. SummaryMax /\ report.summary \in Nat
      /\ report.summary = IF doc.summary.length > SummaryMax THEN SummaryMax
                          ELSE doc.summary.length
  BY <1>1, <1>4, <1>5, DocumentFields, LengthsAssumption DEF TooLong
<1>10. report.components # <<>>
  <2>1. Len(report.components) = Len(doc.components.items)
    BY <1>3, <1>6 DEF SameElements, ItemsOf
  <2>2. \A q \in Seq(Item) : q = <<>> <=> Len(q) = 0
    OBVIOUS
  <2>3. QED
    BY <1>1, <1>6, <2>1, <2>2, DocumentFields, SectionFields
<1>11. report \in Reports
  BY <1>5, <1>6, <1>7, <1>8, <1>9 DEF Reports
<1>12. QED
  BY <1>6, <1>7, <1>8, <1>9, <1>10, <1>11 DEF CleanReport, report, d

\* What the guardrails leave of a clean report: all of it, but for references of its
\* risks; those that are left are the ones to components of the report, each of them;
\* and what has no other references is left as it is.
LEMMA Guarded ==
    ASSUME NEW report, CleanReport(report)
    PROVE  LET g == ApplySemanticGuardrails(report)
           IN  /\ CleanReport(g)
               /\ g.summary = report.summary
               /\ g.components = report.components
               /\ g.recommendations = report.recommendations
               /\ Len(g.risks) = Len(report.risks)
               /\ \A i \in DOMAIN g.risks :
                     /\ g.risks[i] = [report.risks[i] EXCEPT !.refs = g.risks[i].refs]
                     /\ \A k \in DOMAIN g.risks[i].refs :
                           g.risks[i].refs[k] \in ComponentNames(g)
                     /\ Remaining(g.risks[i].refs, report.risks[i].refs, ComponentNames(g))
               /\ (\A i \in DOMAIN report.risks :
                      \A k \in DOMAIN report.risks[i].refs :
                          report.risks[i].refs[k] \in ComponentNames(report))
                    => g = report
<1> DEFINE g == ApplySemanticGuardrails(report)
           names == ComponentNames(report)
           kept(i) == KeepOnly(report.risks[i].refs, names)
           risks == [i \in DOMAIN report.risks |-> [report.risks[i] EXCEPT !.refs = kept(i)]]
<1>1. report \in Reports
  BY DEF CleanReport
<1>2. g = [report EXCEPT !.risks = risks]
  BY DEF ApplySemanticGuardrails, KeepKnown
<1>3. ASSUME NEW i \in DOMAIN report.risks
      PROVE  /\ report.risks[i] \in Item
             /\ kept(i) \in Seq(Names)
             /\ \A k \in DOMAIN kept(i) : kept(i)[k] \in names
             /\ Remaining(kept(i), report.risks[i].refs, names)
             /\ (\A k \in DOMAIN report.risks[i].refs : report.risks[i].refs[k] \in names)
                  => kept(i) = report.risks[i].refs
  <2> HIDE DEF names
  <2>1. report.risks[i] \in Item
    BY <1>1, ReportFields
  <2>2. report.risks[i].refs \in Seq(Names)
    BY <2>1, ItemFields
  <2>3. \A q \in Seq(Names) : DOMAIN q = 1 .. Len(q)
    OBVIOUS
  <2>4. QED
    BY <2>1, <2>2, <2>3, OnlyKept
<1> HIDE DEF names, kept
<1>4. \A i \in DOMAIN report.risks : risks[i] = [report.risks[i] EXCEPT !.refs = kept(i)]
  OBVIOUS
<1>5. \A i \in DOMAIN report.risks :
         /\ risks[i] \in Item
         /\ risks[i].refs = kept(i)
         /\ risks[i].object = report.risks[i].object
         /\ risks[i].enum = report.risks[i].enum
         /\ risks[i].rest = report.risks[i].rest
  BY <1>3, <1>4, ItemFields
<1>6. /\ risks \in Seq(Item) /\ Len(risks) = Len(report.risks)
      /\ DOMAIN risks = DOMAIN report.risks
  <2>1. report.risks \in Seq(Item)
    BY <1>1, ReportFields
  <2>2. Len(report.risks) \in Nat /\ DOMAIN report.risks = 1 .. Len(report.risks)
    BY <2>1
  <2>3. risks \in [1 .. Len(report.risks) -> Item]
    BY <1>5, <2>2
  <2>4. QED
    BY <2>2, <2>3
<1> HIDE DEF risks, g
<1>7. /\ g \in Reports /\ g.risks = risks
      /\ g.summary = report.summary /\ g.components = report.components
      /\ g.recommendations = report.recommendations
  BY <1>1, <1>2, <1>6, ReportFields
<1>8. ComponentNames(g) = names
  BY <1>7 DEF ComponentNames, names
<1>9. \A i \in DOMAIN g.risks : Clean(g.risks[i], Levels)
  BY <1>5, <1>6, <1>7 DEF CleanReport, Clean
<1>10. CleanReport(g)
  BY <1>7, <1>9 DEF CleanReport
<1>11. \A i \in DOMAIN g.risks :
          /\ g.risks[i] = [report.risks[i] EXCEPT !.refs = g.risks[i].refs]
          /\ \A k \in DOMAIN g.risks[i].refs : g.risks[i].refs[k] \in ComponentNames(g)
          /\ Remaining(g.risks[i].refs, report.risks[i].refs, ComponentNames(g))
  <2>1. ASSUME NEW i \in DOMAIN g.risks
        PROVE  /\ g.risks[i] = [report.risks[i] EXCEPT !.refs = g.risks[i].refs]
               /\ \A k \in DOMAIN g.risks[i].refs : g.risks[i].refs[k] \in ComponentNames(g)
               /\ Remaining(g.risks[i].refs, report.risks[i].refs, ComponentNames(g))
    <3>1. i \in DOMAIN report.risks /\ g.risks[i] = risks[i] /\ g.risks[i].refs = kept(i)
      BY <1>5, <1>6, <1>7, <2>1
    <3>2. QED
      BY <1>3, <1>4, <1>8, <3>1
  <2>2. QED
    BY <2>1
<1>12. ASSUME \A i \in DOMAIN report.risks :
                 \A k \in DOMAIN report.risks[i].refs : report.risks[i].refs[k] \in names
       PROVE  g = report
  <2>1. \A i \in DOMAIN report.risks : kept(i) = report.risks[i].refs
    BY <1>3, <1>12
  <2>2. \A i \in DOMAIN report.risks : risks[i] = report.risks[i]
    BY <1>3, <1>4, <2>1, ItemFields
  <2>3. risks = report.risks
    <3>1. report.risks \in Seq(Item)
      BY <1>1, ReportFields
    <3>2. \A i \in 1 .. Len(risks) : risks[i] = report.risks[i]
      BY <1>6, <2>2, <3>1
    <3>3. QED
      BY <1>6, <3>1, <3>2, SeqEqual
  <2>4. QED
    BY <1>1, <1>2, <2>3, ReportFields
<1>13. QED
  BY <1>6, <1>7, <1>10, <1>11, <1>12 DEF g, names

\* The report of a reply keeps its contract once the guardrails have been applied.
LEMMA GuardedMeetsContract ==
    ASSUME NEW report, CleanReport(report)
    PROVE  MeetsContract(ApplySemanticGuardrails(report))
<1> DEFINE g == ApplySemanticGuardrails(report)
<1>1. /\ CleanReport(g)
      /\ \A i \in DOMAIN g.risks : \A k \in DOMAIN g.risks[i].refs :
            g.risks[i].refs[k] \in ComponentNames(g)
  BY Guarded
<1> HIDE DEF g
<1>2. MeetsContract(g)
  BY <1>1 DEF MeetsContract, CleanReport, Clean, ComponentNames
<1>3. QED
  BY <1>2 DEF g

\* A clean report with no other references, sent as a reply, comes back as it is.
LEMMA RepairIsDone ==
    ASSUME NEW report, CleanReport(report),
           \A i \in DOMAIN report.risks : \A k \in DOMAIN report.risks[i].refs :
               report.risks[i].refs[k] \in ComponentNames(report)
    PROVE  LET again == ValidateAndNormalize(<<"json">>, Restated(report))
           IN  /\ again.kind = "report"
               /\ ~again.truncated
               /\ ApplySemanticGuardrails(again.report) = report
<1> DEFINE again == ValidateAndNormalize(<<"json">>, Restated(report))
           doc == Restated(report)
           list(items) == [kind |-> "list", items |-> items]
<1>1. /\ doc.object = TRUE /\ doc.extra = FALSE
      /\ doc.summary = [kind |-> "text", length |-> report.summary]
      /\ doc.components = list(report.components)
      /\ doc.risks = list(report.risks)
      /\ doc.recommendations = list(report.recommendations)
  BY DEF Restated
<1>2. report \in Reports /\ report.summary \in 1 .. SummaryMax /\ report.components # <<>>
  BY DEF CleanReport
<1>3. \A items \in Seq(Item) : list(items) \in Section
  BY DEF Section
<1>4. doc \in Document
  <2>1. [kind |-> "text", length |-> report.summary]
           \in [kind : {"absent", "text", "other"}, length : Nat]
    BY <1>2, ReportFields
  <2>2. /\ list(report.components) \in Section /\ list(report.risks) \in Section
        /\ list(report.recommendations) \in Section
    BY <1>2, <1>3, ReportFields
  <2> HIDE DEF list
  <2>3. QED
    BY <2>1, <2>2 DEF Restated, Document, list
<1>5. /\ CleanSection(doc.components, Types) /\ CleanSection(doc.risks, Levels)
      /\ CleanSection(doc.recommendations, Levels)
  BY <1>1 DEF CleanSection, CleanReport
<1> HIDE DEF doc, list
<1>6. /\ NormalizeSection(doc.components, Types, "unknown") = doc.components
      /\ NormalizeSection(doc.risks, Levels, "medium") = doc.risks
      /\ NormalizeSection(doc.recommendations, Levels, "medium") = doc.recommendations
  <2>1. /\ doc.components.kind = "list" /\ doc.risks.kind = "list"
        /\ doc.recommendations.kind = "list"
    BY <1>1 DEF list
  <2>2. QED
    BY <1>4, <1>5, <2>1, DocumentFields, Enumerations, NormalSection
<1>7. ~TooLong(doc)
  BY <1>1, <1>2, LengthsAssumption DEF TooLong
<1>8. /\ Repaired(doc).components = doc.components
      /\ Repaired(doc).risks = doc.risks
      /\ Repaired(doc).recommendations = doc.recommendations
      /\ Repaired(doc).summary.length = report.summary
  BY <1>1, <1>4, <1>6, <1>7, RepairedParts
<1>9. /\ ItemsOf(doc.components) = report.components
      /\ ItemsOf(doc.risks) = report.risks
      /\ ItemsOf(doc.recommendations) = report.recommendations
  BY <1>1 DEF ItemsOf, list
<1>10. MakeReport(Repaired(doc)) = report
  BY <1>2, <1>8, <1>9, ReportFields DEF MakeReport
<1>11. SchemaErrors(Repaired(doc)) = {}
  <2>1. \A item, listed : Clean(item, listed) /\ listed \subseteq Types \cup Levels => Usable(item)
    BY DEF Clean, Usable, Types, Levels
  <2>2. /\ UsableSection(doc.components) /\ UsableSection(doc.risks)
        /\ UsableSection(doc.recommendations)
    BY <1>5, <2>1 DEF CleanSection, UsableSection
  <2>3. \A s \in Sections(doc) : UsableSection(s)
    BY <2>2 DEF Sections
  <2>4. doc.summary.kind = "text" /\ doc.summary.length > 0
    BY <1>1, <1>2, LengthsAssumption
  <2>5. doc.components.kind = "list" /\ doc.components.items = report.components
    BY <1>1 DEF list
  <2>6. QED
    BY <1>1, <1>2, <1>4, <2>3, <2>4, <2>5, RepairedWords
<1>12. ~NormalizationRaises(doc)
  BY <1>1 DEF NormalizationRaises, Sections, list
<1>13. Parses(<<"json">>)
  <2>1. Head(<<"json">>) = "json" /\ "json" \notin {"fence", "taggedFence"}
    OBVIOUS
  <2>2. ~StartsWithFence(<<"json">>)
    BY <2>1 DEF StartsWithFence
  <2>3. QED
    BY <2>2 DEF Parses, StripMarkdownFences
<1>14. again.kind = "report" /\ again.report = report /\ ~again.truncated
  BY <1>7, <1>10, <1>11, <1>12, <1>13, ResultOf DEF doc
<1>15. ApplySemanticGuardrails(report) = report
  BY Guarded
<1>16. QED
  BY <1>14, <1>15

\* Repair, with the guardrails applied, is faithful to the reply.
LEMMA GuardedIsFaithful ==
    ASSUME NEW doc \in Document, SchemaErrors(Repaired(doc)) = {}
    PROVE  RepairIsFaithful(doc, ApplySemanticGuardrails(MakeReport(Repaired(doc))))
<1> DEFINE report == MakeReport(Repaired(doc))
           g == ApplySemanticGuardrails(report)
<1>1. /\ CleanReport(report)
      /\ SameElements(ItemsOf(doc.components), report.components, Types)
      /\ SameElements(ItemsOf(doc.risks), report.risks, Levels)
      /\ SameElements(ItemsOf(doc.recommendations), report.recommendations, Levels)
      /\ report.summary = IF doc.summary.length > SummaryMax THEN SummaryMax
                          ELSE doc.summary.length
  BY ReportRepaired
<1> HIDE DEF report
<1>2. /\ CleanReport(g)
      /\ g.summary = report.summary
      /\ g.components = report.components
      /\ g.recommendations = report.recommendations
      /\ Len(g.risks) = Len(report.risks)
      /\ \A i \in DOMAIN g.risks :
            /\ g.risks[i] = [report.risks[i] EXCEPT !.refs = g.risks[i].refs]
            /\ \A k \in DOMAIN g.risks[i].refs : g.risks[i].refs[k] \in ComponentNames(g)
            /\ Remaining(g.risks[i].refs, report.risks[i].refs, ComponentNames(g))
  BY <1>1, Guarded
<1> HIDE DEF g
<1>3. SameRisks(ItemsOf(doc.risks), g.risks, ComponentNames(g))
  <2> DEFINE sent == ItemsOf(doc.risks)
             whole == [i \in DOMAIN g.risks |-> [g.risks[i] EXCEPT !.refs = sent[i].refs]]
  <2>1. /\ sent \in Seq(Item) /\ report.risks \in Seq(Item) /\ g.risks \in Seq(Item)
        /\ Len(sent) = Len(report.risks) /\ Len(g.risks) = Len(report.risks)
    <3>1. sent \in Seq(Item)
      <4>1. doc.risks.items \in Seq(Item)
        BY DocumentFields, SectionFields
      <4>2. QED
        BY <4>1 DEF ItemsOf
    <3>2. QED
      BY <1>1, <1>2, <3>1, ReportFields DEF SameElements, CleanReport
  <2> HIDE DEF sent
  <2>2. DOMAIN g.risks = DOMAIN report.risks /\ DOMAIN g.risks = 1 .. Len(sent)
    BY <2>1
  <2>3. \A i \in DOMAIN g.risks : sent[i] \in Item /\ report.risks[i] \in Item
    BY <2>1, <2>2
  <2>4. \A i \in DOMAIN g.risks : SameElement(sent[i], report.risks[i], Levels)
    BY <1>1, <2>2 DEF SameElements, sent
  <2>5. \A i \in DOMAIN g.risks : report.risks[i].refs = sent[i].refs
    <3>1. ASSUME NEW i \in DOMAIN g.risks PROVE report.risks[i].refs = sent[i].refs
      <4>1. report.risks[i] = [sent[i] EXCEPT !.enum = report.risks[i].enum]
        BY <2>4 DEF SameElement
      <4>2. \A e : [sent[i] EXCEPT !.enum = e].refs = sent[i].refs
        BY <2>3, ItemFields
      <4>3. QED
        BY Zenon, <4>1, <4>2
    <3>2. QED
      BY <3>1
  <2>6. \A i \in DOMAIN g.risks : whole[i] = report.risks[i]
    <3>1. ASSUME NEW i \in DOMAIN g.risks PROVE whole[i] = report.risks[i]
      <4>1. g.risks[i] = [report.risks[i] EXCEPT !.refs = g.risks[i].refs]
        BY <1>2
      <4>2. \A r, q : [[report.risks[i] EXCEPT !.refs = r] EXCEPT !.refs = q]
                        = [report.risks[i] EXCEPT !.refs = q]
        BY <2>3 DEF Item
      <4>3. [g.risks[i] EXCEPT !.refs = sent[i].refs]
              = [report.risks[i] EXCEPT !.refs = sent[i].refs]
        BY Zenon, <4>1, <4>2
      <4>4. [report.risks[i] EXCEPT !.refs = report.risks[i].refs] = report.risks[i]
        BY <2>3, ItemFields
      <4>5. whole[i] = [g.risks[i] EXCEPT !.refs = sent[i].refs]
        OBVIOUS
      <4> HIDE DEF whole
      <4>6. QED
        BY <2>5, <4>3, <4>4, <4>5
    <3>2. QED
      BY <3>1
  <2>7. Len(whole) = Len(sent) /\ DOMAIN whole = DOMAIN g.risks
    BY <2>1, <2>2
  <2>8. SameElements(sent, whole, Levels)
    <3> HIDE DEF whole
    <3>1. QED
      BY <2>4, <2>6, <2>7 DEF SameElements
  <2>9. \A i \in DOMAIN g.risks : Remaining(g.risks[i].refs, sent[i].refs, ComponentNames(g))
    BY <1>2, <2>5
  <2>10. QED
    BY <2>8, <2>9 DEF SameRisks, sent
<1>4. LET again == ValidateAndNormalize(<<"json">>, Restated(g))
      IN  /\ again.kind = "report"
          /\ ~again.truncated
          /\ ApplySemanticGuardrails(again.report) = g
  BY <1>2, RepairIsDone
<1>5. doc.summary.length <= SummaryMax => g.summary = doc.summary.length
  BY <1>1, <1>2, DocumentFields, LengthsAssumption
<1>6. RepairIsFaithful(doc, g)
  BY <1>1, <1>2, <1>3, <1>4, <1>5 DEF RepairIsFaithful
<1>7. QED
  BY <1>6 DEF g, report

-----------------------------------------------------------------------------
(* The words of an error.                                                  *)

\* The words of an element, and of a section, are names of fields.
LEMMA ItemWordsAreFields ==
    ASSUME NEW item, NEW listed, NEW section, NEW field
    PROVE  ItemErrors(item, listed, section, field)
             \subseteq {section, field, "affected_components"}
BY DEF ItemErrors

LEMMA SectionWordsAreFields ==
    ASSUME NEW s \in Section, NEW listed, NEW section, NEW field
    PROVE  SectionErrors(s, listed, section, field)
             \subseteq {section, field, "affected_components"}
<1>1. s.kind \in {"absent", "null", "text", "list"}
  BY SectionFields
<1>2. CASE s.kind = "list"
  <2>1. SectionErrors(s, listed, section, field)
          = UNION {ItemErrors(s.items[i], listed, section, field) : i \in DOMAIN s.items}
    BY <1>2 DEF SectionErrors
  <2>2. \A i : ItemErrors(s.items[i], listed, section, field)
                 \subseteq {section, field, "affected_components"}
    BY ItemWordsAreFields
  <2>3. QED
    BY <2>1, <2>2
<1>3. CASE s.kind # "list"
  BY <1>1, <1>3 DEF SectionErrors
<1>4. QED
  BY <1>2, <1>3

\* Only an error of parsing has the word of one.
LEMMA SchemaHasNoParseError ==
    ASSUME NEW doc, doc.components \in Section, doc.risks \in Section,
           doc.recommendations \in Section
    PROVE  "JSON_PARSE_ERROR" \notin SchemaErrors(doc)
<1> DEFINE a == SummaryErrors(doc.summary)
           b == SectionErrors(doc.components, Types, "components", "type")
           c == IF doc.components.kind = "absent" \/ doc.components.items = <<>>
                THEN {"components"} ELSE {}
           d == SectionErrors(doc.risks, Levels, "risks", "severity")
           e == SectionErrors(doc.recommendations, Levels, "recommendations", "priority")
           f == IF doc.extra THEN {"extra"} ELSE {}
           fields == { "summary", "components", "type", "affected_components", "risks",
                       "severity", "recommendations", "priority", "extra" }
<1>1. SchemaErrors(doc) = UNION {a, b, c, d, e, f}
  BY DEF SchemaErrors
<1>2. /\ b \subseteq {"components", "type", "affected_components"}
      /\ d \subseteq {"risks", "severity", "affected_components"}
      /\ e \subseteq {"recommendations", "priority", "affected_components"}
  BY SectionWordsAreFields
<1>3. a \subseteq {"summary"} /\ c \subseteq {"components"} /\ f \subseteq {"extra"}
  BY DEF SummaryErrors
<1> HIDE DEF a, b, c, d, e, f
<1>4. UNION {a, b, c, d, e, f} \subseteq fields
  BY <1>2, <1>3
<1>5. "JSON_PARSE_ERROR" \notin fields
  OBVIOUS
<1>6. QED
  BY <1>1, <1>4, <1>5

\* Normalisation does not hide a value that is no text.
LEMMA NonTextIsTold ==
    ASSUME NEW s \in Section, NEW listed, NEW fallback, Enumeration(listed, fallback),
           NEW section, NEW field, HasNonText(s)
    PROVE  field \in SectionErrors(NormalizeSection(s, listed, fallback), listed,
                                   section, field)
<1> DEFINE t == NormalizeSection(s, listed, fallback)
<1>1. PICK i \in DOMAIN s.items : s.items[i].object /\ s.items[i].enum = "nonText"
  BY DEF HasNonText
<1>2. /\ t.kind = "list" /\ t.items \in Seq(Item) /\ Len(t.items) = Len(s.items)
      /\ t.items[i] = Normal(s.items[i], listed, fallback)
  <2>1. s.kind = "list"
    BY DEF HasNonText
  <2>2. t \in Section
    BY NormalSection
  <2>3. QED
    BY <2>1, <2>2, NormalSection, SectionFields
<1> HIDE DEF t
<1>3. i \in DOMAIN t.items
  BY <1>2, SectionFields
<1>4. t.items[i].object /\ t.items[i].enum = "nonText"
  <2>1. s.items[i] \in Item
    BY SectionFields
  <2>2. t.items[i] = [s.items[i] EXCEPT !.enum = "nonText"]
    BY <1>1, <1>2 DEF Normal, NormalizeEnum
  <2>3. QED
    BY <1>1, <2>1, <2>2, ItemFields
<1>5. "nonText" \notin listed
  BY DEF Enumeration, Types, Levels
<1>6. field \in ItemErrors(t.items[i], listed, section, field)
  BY <1>4, <1>5 DEF ItemErrors
<1>7. SectionErrors(t, listed, section, field)
        = UNION {ItemErrors(t.items[k], listed, section, field) : k \in DOMAIN t.items}
  BY <1>2 DEF SectionErrors
<1>8. field \in SectionErrors(t, listed, section, field)
  BY <1>3, <1>6, <1>7
<1>9. QED
  BY <1>8 DEF t

\* A defect of a part has the word of the part among the errors, whatever else there is.
LEMMA DefectsAreTold ==
    ASSUME NEW doc \in Document
    PROVE  LET errors == SchemaErrors(Repaired(doc))
           IN  /\ doc.components.kind = "absent" \/ doc.components.items = <<>>
                     => "components" \in errors
               /\ doc.summary.kind # "text" \/ doc.summary.length = 0 => "summary" \in errors
               /\ HasNonText(doc.risks) => "severity" \in errors
               /\ HasNonText(doc.recommendations) => "priority" \in errors
               /\ "JSON_PARSE_ERROR" \notin errors
<1> DEFINE d == Repaired(doc)
           a == SummaryErrors(d.summary)
           b == SectionErrors(d.components, Types, "components", "type")
           c == IF d.components.kind = "absent" \/ d.components.items = <<>>
                THEN {"components"} ELSE {}
           r == SectionErrors(d.risks, Levels, "risks", "severity")
           e == SectionErrors(d.recommendations, Levels, "recommendations", "priority")
           f == IF d.extra THEN {"extra"} ELSE {}
<1>1. SchemaErrors(d) = UNION {a, b, c, r, e, f}
  BY DEF SchemaErrors
<1>2. /\ d.components = NormalizeSection(doc.components, Types, "unknown")
      /\ d.risks = NormalizeSection(doc.risks, Levels, "medium")
      /\ d.recommendations = NormalizeSection(doc.recommendations, Levels, "medium")
      /\ d.summary.kind = doc.summary.kind
      /\ d.summary.length = IF TooLong(doc) THEN SummaryMax ELSE doc.summary.length
  BY RepairedParts
<1> HIDE DEF d
<1>3. /\ d.components \in Section /\ d.risks \in Section /\ d.recommendations \in Section
      /\ d.components.kind = doc.components.kind
      /\ Len(d.components.items) = Len(doc.components.items)
  BY <1>2, DocumentFields, Enumerations, NormalSection
<1>4. ASSUME doc.components.kind = "absent" \/ doc.components.items = <<>>
      PROVE  "components" \in c
  <2>1. \A q \in Seq(Item) : q = <<>> <=> Len(q) = 0
    OBVIOUS
  <2>2. d.components.items = <<>> <=> doc.components.items = <<>>
    BY <1>3, <2>1, DocumentFields, SectionFields
  <2>3. QED
    BY <1>3, <1>4, <2>2
<1>5. ASSUME doc.summary.kind # "text" \/ doc.summary.length = 0
      PROVE  "summary" \in a
  <2>1. ~(d.summary.kind = "text" /\ d.summary.length \in 1 .. SummaryMax)
    BY <1>2, <1>5, LengthsAssumption DEF TooLong
  <2>2. QED
    BY <2>1 DEF SummaryErrors
<1>6. HasNonText(doc.risks) => "severity" \in r
  BY <1>2, DocumentFields, Enumerations, NonTextIsTold
<1>7. HasNonText(doc.recommendations) => "priority" \in e
  BY <1>2, DocumentFields, Enumerations, NonTextIsTold
<1>8. "JSON_PARSE_ERROR" \notin SchemaErrors(d)
  BY <1>3, SchemaHasNoParseError
<1> HIDE DEF a, b, c, r, e, f
<1>9. a \cup c \cup r \cup e \subseteq SchemaErrors(d)
  BY <1>1
<1>10. QED
  BY <1>4, <1>5, <1>6, <1>7, <1>8, <1>9 DEF d

\* The words of an invalid reply, parsing or not.
LEMMA WordsOf ==
    ASSUME NEW text, NEW doc, ValidateAndNormalize(text, doc).kind = "invalid"
    PROVE  ValidateAndNormalize(text, doc).errors =
              IF Parses(text) THEN SchemaErrors(Repaired(doc)) \cup {"SCHEMA_ERROR"}
              ELSE {"JSON_PARSE_ERROR"}
<1> DEFINE result == ValidateAndNormalize(text, doc)
           errors == SchemaErrors(Repaired(doc))
<1>1. CASE ~Parses(text)
  BY <1>1 DEF ValidateAndNormalize
<1>2. CASE Parses(text)
  <2>1. result = IF NormalizationRaises(doc) THEN [kind |-> "alien"]
                 ELSE IF errors # {} THEN [kind |-> "invalid",
                                           errors |-> errors \cup {"SCHEMA_ERROR"}]
                 ELSE [ kind |-> "report", report |-> MakeReport(Repaired(doc)),
                        truncated |-> TooLong(doc) ]
    BY <1>2 DEF ValidateAndNormalize, Repaired
  <2>2. result.kind = "invalid"
    OBVIOUS
  <2> HIDE DEF result, errors
  <2>3. result = [kind |-> "invalid", errors |-> errors \cup {"SCHEMA_ERROR"}]
    BY <2>1, <2>2
  <2>4. result.errors = errors \cup {"SCHEMA_ERROR"}
    BY <2>3
  <2>5. QED
    BY <1>2, <2>4 DEF result, errors
<1>3. QED
  BY <1>1, <1>2

\* What is asked for when a reply is invalid, whatever its error quotes.
LEMMA InstructionOf ==
    ASSUME NEW text, NEW doc \in Document,
           ValidateAndNormalize(text, doc).kind = "invalid",
           NEW quoted \in SUBSET Quotable(text, doc)
    PROVE  LET instruction == ClassifyValidationError(
                                  ValidateAndNormalize(text, doc).errors \cup quoted)
               defects == {part \in Parts : Defective(part, text, doc)}
           IN  /\ instruction = "notJson" <=> "notJson" \in defects
               /\ "components" \in defects /\ "notJson" \notin defects
                     => instruction = "components"
               /\ defects # {} => instruction \in Parts
               /\ instruction # "fix"
<1> DEFINE errors == SchemaErrors(Repaired(doc))
           words == ValidateAndNormalize(text, doc).errors \cup quoted
           instruction == ClassifyValidationError(words)
           defects == {part \in Parts : Defective(part, text, doc)}
<1>1. /\ "notJson" \in defects <=> ~Parses(text)
      /\ "components" \in defects
            <=> doc.components.kind = "absent" \/ doc.components.items = <<>>
      /\ "summary" \in defects <=> doc.summary.kind # "text" \/ doc.summary.length = 0
      /\ "severity" \in defects <=> HasNonText(doc.risks)
      /\ "priority" \in defects <=> HasNonText(doc.recommendations)
      /\ defects \subseteq {"notJson", "components", "summary", "severity", "priority"}
  BY DEF Parts, Defective
<1>2. words = (IF Parses(text) THEN errors \cup {"SCHEMA_ERROR"} ELSE {"JSON_PARSE_ERROR"})
              \cup quoted
  BY WordsOf
<1>3. /\ "JSON_PARSE_ERROR" \notin Quotable(text, doc)
      /\ ~Parses(text) => Quotable(text, doc) = {}
  BY DEF Quotable
<1>4. /\ "components" \in defects => "components" \in errors
      /\ "summary" \in defects => "summary" \in errors
      /\ "severity" \in defects => "severity" \in errors
      /\ "priority" \in defects => "priority" \in errors
      /\ "JSON_PARSE_ERROR" \notin errors
  BY <1>1, DefectsAreTold
<1> HIDE DEF errors, words, defects
<1>5. CASE ~Parses(text)
  <2>1. words = {"JSON_PARSE_ERROR"}
    BY <1>2, <1>3, <1>5
  <2>2. instruction = "notJson"
    BY <2>1 DEF ClassifyValidationError
  <2> HIDE DEF instruction
  <2>3. /\ instruction = "notJson" <=> "notJson" \in defects
        /\ "components" \in defects /\ "notJson" \notin defects
              => instruction = "components"
        /\ defects # {} => instruction \in Parts
        /\ instruction # "fix"
    BY <1>1, <1>5, <2>2 DEF Parts
  <2>4. QED
    BY <2>3 DEF instruction, defects, words
<1>6. CASE Parses(text)
  <2>1. /\ "JSON_PARSE_ERROR" \notin words /\ "SCHEMA_ERROR" \in words
        /\ errors \subseteq words
    BY <1>2, <1>3, <1>4, <1>6
  <2>2. /\ instruction \in {"components", "summary", "severity", "priority", "schema"}
        /\ "components" \in words => instruction = "components"
        /\ {"components", "summary", "severity", "priority"} \cap words # {}
              => instruction \in Parts
    BY <2>1 DEF ClassifyValidationError, Parts
  <2> HIDE DEF instruction
  <2>3. "notJson" \notin defects
    BY <1>1, <1>6
  <2>4. defects # {} => {"components", "summary", "severity", "priority"} \cap words # {}
    BY <1>1, <1>4, <2>1, <2>3
  <2>5. /\ instruction = "notJson" <=> "notJson" \in defects
        /\ "components" \in defects /\ "notJson" \notin defects
              => instruction = "components"
        /\ defects # {} => instruction \in Parts
        /\ instruction # "fix"
    BY <1>4, <2>1, <2>2, <2>3, <2>4
  <2>6. QED
    BY <2>5 DEF instruction, defects, words
<1>7. QED
  BY <1>5, <1>6

-----------------------------------------------------------------------------
(* The request on its way: what was made is what the step makes of what it *)
(* was given, and that is something that may arrive.                       *)

RequestGiven == IsVerdict => given \in Arrivals

FileGiven ==
    stage \in {"opened", "unreadable"} =>
        /\ given \in Uploads
        /\ made = PreprocessFile(given)
        /\ stage = "opened" <=> made.error = "none"

ReplyGiven ==
    stage \in {"reported", "invalid", "failed"} =>
        LET result == ValidateAndNormalize(given.text, given.doc)
        IN  /\ given \in LLMReplies
            /\ stage = "reported" <=> result.kind = "report"
            /\ stage = "reported" => made = result
            /\ stage = "invalid" =>
                  /\ result.kind = "invalid"
                  /\ \E quoted \in SUBSET Quotable(given.text, given.doc) :
                        made.words = result.errors \cup quoted

AnswerMade ==
    stage = "answered" =>
        \E reply \in LLMReplies :
            LET result == ValidateAndNormalize(reply.text, reply.doc)
            IN  /\ result.kind = "report"
                /\ given.doc = reply.doc
                /\ made.report = ApplySemanticGuardrails(result.report)

ContentsInv == RequestGiven /\ FileGiven /\ ReplyGiven /\ AnswerMade

\* Every action leaves what it says of its stage.
LEMMA ContentsStep ==
    ASSUME ContentsInv, [Next]_vars
    PROVE  ContentsInv'
<1> USE DEF IsVerdict
<1>1. ASSUME NEW m \in Arrivals, NEW verdict, Judge(m, verdict)
      PROVE  ContentsInv'
  <2>1. stage' \in {"accepted", "refused"} /\ given' = m
    BY <1>1 DEF Judge
  <2>2. QED
    BY <2>1 DEF ContentsInv, RequestGiven, FileGiven, ReplyGiven, AnswerMade
<1>2. CASE ReceiveMessage
  BY <1>1, <1>2 DEF ReceiveMessage
<1>3. CASE ReceiveForm
  BY <1>1, <1>3 DEF ReceiveForm
<1>4. CASE Open
  <2>1. PICK file \in Uploads : given' = file /\ made' = PreprocessFile(file)
    BY <1>4 DEF Open
  <2>2. stage' = IF made'.error = "none" THEN "opened" ELSE "unreadable"
    BY <1>4 DEF Open
  <2>3. FileGiven'
    BY <2>1, <2>2 DEF FileGiven
  <2>4. QED
    BY <2>2, <2>3 DEF ContentsInv, RequestGiven, ReplyGiven, AnswerMade
<1>5. CASE BuildPrompt
  <2>1. stage' = "calling"
    BY <1>5 DEF BuildPrompt
  <2>2. QED
    BY <2>1 DEF ContentsInv, RequestGiven, FileGiven, ReplyGiven, AnswerMade
<1>6. CASE Reply
  <2>1. PICK reply \in LLMReplies :
           LET result == ValidateAndNormalize(reply.text, reply.doc)
           IN  /\ given' = reply
               /\ \/ result.kind = "report" /\ made' = result /\ stage' = "reported"
                  \/ result.kind = "alien" /\ stage' = "failed"
                  \/ /\ result.kind = "invalid" /\ stage' = "invalid"
                     /\ \E quoted \in SUBSET Quotable(reply.text, reply.doc) :
                           made'.words = result.errors \cup quoted
    <3>1. \A w : [kind |-> "invalid", words |-> w].words = w
      OBVIOUS
    <3>2. QED
      BY <1>6, <3>1 DEF Reply
  <2>2. ReplyGiven'
    BY <2>1 DEF ReplyGiven
  <2>3. stage' \in {"reported", "failed", "invalid"}
    BY <2>1
  <2>4. QED
    BY <2>2, <2>3 DEF ContentsInv, RequestGiven, FileGiven, AnswerMade
<1>7. CASE Complete
  <2>1. /\ stage = "reported" /\ stage' = "answered"
        /\ given'.doc = given.doc
        /\ made'.report = ApplySemanticGuardrails(made.report)
    BY <1>7 DEF Complete
  <2>2. /\ given \in LLMReplies
        /\ ValidateAndNormalize(given.text, given.doc).kind = "report"
        /\ made = ValidateAndNormalize(given.text, given.doc)
    BY <2>1 DEF ContentsInv, ReplyGiven
  <2>3. AnswerMade'
    BY <2>1, <2>2 DEF AnswerMade
  <2>4. QED
    BY <2>1, <2>3 DEF ContentsInv, RequestGiven, FileGiven, ReplyGiven
<1>8. CASE UNCHANGED vars
  BY <1>8 DEF vars, ContentsInv, RequestGiven, FileGiven, ReplyGiven, AnswerMade
<1>9. QED
  BY <1>2, <1>3, <1>4, <1>5, <1>6, <1>7, <1>8 DEF Next

\* At every stage, what was made is what the code of that stage makes of an input that
\* may arrive: the invariant from which the properties follow.
THEOREM StepsMakeWhatTheyShould == Spec => []ContentsInv
<1>1. Init => ContentsInv
  BY DEF Init, ContentsInv, IsVerdict, RequestGiven, FileGiven, ReplyGiven, AnswerMade
<1>2. ContentsInv /\ [Next]_vars => ContentsInv'
  BY ContentsStep
<1>3. QED
  BY <1>1, <1>2, PTL DEF Spec

\* The inputs belong to the types that the lemmas are about.
LEMMA InputsAreTyped ==
    /\ \A m \in Arrivals : m \in Message
    /\ \A file \in Uploads : file \in Uploadable
    /\ \A reply \in LLMReplies : reply.text \in Seq(Lines) /\ reply.doc \in Document
BY ArrivalsAssumption, UploadsAssumption, RepliesAssumption DEF Uploadable

\* A message that was accepted can be decoded, and answered under its own identifier.
THEOREM AcceptedUsable == Spec => []AcceptedRequestsAreUsable
<1>1. ContentsInv => AcceptedRequestsAreUsable
  BY InputsAreTyped, EveryMessageUsable
     DEF ContentsInv, RequestGiven, AcceptedRequestsAreUsable
<1>2. QED
  BY <1>1, StepsMakeWhatTheyShould, PTL

\* The two flows differ in whitespace, unknown fields, names and encodings of files,
\* and in nothing else.
THEOREM FlowsCompared == Spec => []FlowsDifferAsKnown
<1>1. ContentsInv => FlowsDifferAsKnown
  BY InputsAreTyped, FlowsOnMessages DEF ContentsInv, RequestGiven, FlowsDifferAsKnown
<1>2. QED
  BY <1>1, StepsMakeWhatTheyShould, PTL

\* The LLM sees the first pages of the document, all of each, in order.
THEOREM FirstPagesShown == Spec => []PagesAreShown
<1>1. ContentsInv => PagesAreShown
  BY InputsAreTyped, EveryPageShown DEF ContentsInv, FileGiven, PagesAreShown
<1>2. QED
  BY <1>1, StepsMakeWhatTheyShould, PTL

\* The picture that the LLM gets is as large as the limit allows, and undistorted.
THEOREM PictureWithinLimit == Spec => []PicturesFit
<1>1. ASSUME ContentsInv, stage = "opened" PROVE FitsAndTells(made)
  <2>1. /\ given \in Uploadable
        /\ made = PreprocessFile(given) /\ PreprocessFile(given).error = "none"
    BY <1>1, InputsAreTyped DEF ContentsInv, FileGiven
  <2>2. made = NormalizeImage(Stitch(Shown(given)))
    BY <2>1, FileDecided
  <2>3. QED
    BY <2>1, <2>2, FileDecided, PictureHasSides, EveryPictureFits
<1>2. ContentsInv => PicturesFit
  BY <1>1 DEF PicturesFit
<1>3. QED
  BY <1>2, StepsMakeWhatTheyShould, PTL

\* Three facts about a file decide which exception preprocess() raises, as Pipeline has it.
THEOREM FactsDecide == Spec => []PipelineAbstractsFiles
<1>1. ContentsInv => PipelineAbstractsFiles
  BY InputsAreTyped, FileDecided DEF ContentsInv, FileGiven, PipelineAbstractsFiles
<1>2. QED
  BY <1>1, StepsMakeWhatTheyShould, PTL

\* A reply becomes a report exactly if nothing in it is beyond repair.
THEOREM AcceptedIffRepairable == Spec => []RepairableIsAccepted
<1>1. ContentsInv => RepairableIsAccepted
  BY InputsAreTyped, ReportIffRepairable DEF ContentsInv, ReplyGiven, RepairableIsAccepted
<1>2. QED
  BY <1>1, StepsMakeWhatTheyShould, PTL

\* What an answer has is what repair and guardrails made of a reply.
LEMMA AnswerIsRepaired ==
    ASSUME ContentsInv, stage = "answered"
    PROVE  /\ given.doc \in Document
           /\ SchemaErrors(Repaired(given.doc)) = {}
           /\ made.report = ApplySemanticGuardrails(MakeReport(Repaired(given.doc)))
<1>1. PICK reply \in LLMReplies :
         /\ ValidateAndNormalize(reply.text, reply.doc).kind = "report"
         /\ given.doc = reply.doc
         /\ made.report = ApplySemanticGuardrails(
                              ValidateAndNormalize(reply.text, reply.doc).report)
  BY DEF ContentsInv, AnswerMade
<1>2. /\ SchemaErrors(Repaired(reply.doc)) = {}
      /\ ValidateAndNormalize(reply.text, reply.doc).report = MakeReport(Repaired(reply.doc))
  BY <1>1, ResultOf
<1>3. QED
  BY <1>1, <1>2, InputsAreTyped

\* Every answer has a report that keeps the contract, references of its risks included.
THEOREM AnswersMeetContract == Spec => []ReportsMeetContract
<1>1. ContentsInv => ReportsMeetContract
  BY AnswerIsRepaired, ReportRepaired, GuardedMeetsContract DEF ReportsMeetContract
<1>2. QED
  BY <1>1, StepsMakeWhatTheyShould, PTL

\* Repair takes nothing away, changes nothing that was right, and is done.
THEOREM NothingRightIsLost == Spec => []RepairsAreFaithful
<1>1. ContentsInv => RepairsAreFaithful
  BY AnswerIsRepaired, GuardedIsFaithful DEF RepairsAreFaithful
<1>2. QED
  BY <1>1, StepsMakeWhatTheyShould, PTL

\* Every defect of a reply that has an instruction of its own is answered by one of
\* these, and replies that are not JSON, or without components, by theirs: whatever
\* else is wrong, and whatever the error message quotes.
THEOREM DefectsAddressed == Spec => DefectsAreAddressed
<1> DEFINE Addressed(instruction) ==
               LET defects == {part \in Parts : Defective(part, given.text, given.doc)}
               IN  /\ instruction = "notJson" <=> "notJson" \in defects
                   /\ "components" \in defects /\ "notJson" \notin defects
                         => instruction = "components"
                   /\ defects # {} => instruction \in Parts
                   /\ instruction # "fix"
<1>1. ASSUME ContentsInv, [Next]_vars, Corrects
      PROVE  Addressed(prompt'.instruction)
  <2>1. BuildPrompt
    BY <1>1 DEF Corrects, vars, Next, ReceiveMessage, ReceiveForm, Judge, Open, Reply, Complete
  <2>2. stage = "invalid" /\ prompt' = CorrectionPrompt(made.words)
    BY <1>1, <2>1 DEF Corrects, BuildPrompt
  <2>3. prompt'.instruction = ClassifyValidationError(made.words)
    BY <2>2 DEF CorrectionPrompt
  <2>4. /\ given \in LLMReplies
        /\ ValidateAndNormalize(given.text, given.doc).kind = "invalid"
        /\ \E quoted \in SUBSET Quotable(given.text, given.doc) :
              made.words = ValidateAndNormalize(given.text, given.doc).errors \cup quoted
    BY <1>1, <2>2 DEF ContentsInv, ReplyGiven
  <2>5. PICK quoted \in SUBSET Quotable(given.text, given.doc) :
           made.words = ValidateAndNormalize(given.text, given.doc).errors \cup quoted
    BY <2>4
  <2>6. given.doc \in Document
    BY <2>4, InputsAreTyped
  <2>7. Addressed(ClassifyValidationError(
                      ValidateAndNormalize(given.text, given.doc).errors \cup quoted))
    BY <2>4, <2>6, InstructionOf
  <2> HIDE DEF Addressed
  <2>8. QED
    BY <2>3, <2>5, <2>7
<1>2. ContentsInv /\ [Next]_vars =>
         [Corrects => Addressed(prompt'.instruction)]_vars
  BY <1>1
<1>3. QED
  BY <1>2, StepsMakeWhatTheyShould, PTL DEF Spec, DefectsAreAddressed

=============================================================================
