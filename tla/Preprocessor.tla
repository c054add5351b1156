---------------------------- MODULE Preprocessor ----------------------------
(***************************************************************************)
(* core/preprocessor.py: from the bytes of a file to the one picture the   *)
(* LLM gets to see.  A file is its size in megabytes, its magic bytes and  *)
(* what a decoder would find in it; a picture is its sides and the pages   *)
(* that were pasted into it, each at its offset.                           *)
(***************************************************************************)
EXTENDS Integers, Sequences

Sets == INSTANCE FiniteSetsExt

CONSTANTS
    MaxFileSize,  \* MAX_FILE_SIZE_MB
    MaxPages,     \* PDF_MAX_PAGES
    MaxSide,      \* MAX_IMAGE_SIDE_PX
    MaxPixels,    \* of a picture that Pillow opens; external
    Sides         \* the sides that pages and images may have

ASSUME SizesAssumption == MaxFileSize \in Nat \ {0} /\ Sides \subseteq Nat \ {0}
ASSUME PagesAssumption == MaxPages \in 1 .. 10
ASSUME SideAssumption == MaxSide \in Nat \ {0}
ASSUME PixelsAssumption == MaxPixels \in Nat

-----------------------------------------------------------------------------
(* Files and pictures.                                                     *)

\* A page or an image; the decoder fails on one that is not sound.
Leaf == [width : Sides, height : Sides, sound : BOOLEAN]

\* opens: can the document be opened at all?  An image is a document of one
\* leaf.
FileType == [size : Nat, magic : {"png", "jpeg", "pdf", "other"},
             opens : BOOLEAN, leaves : Seq(Leaf)]

Refuse(exception) == [error |-> exception]

LesserOf(m, n) == IF m < n THEN m ELSE n

Distance(m, n) == IF m < n THEN n - m ELSE m - n

\* Image.open() raises DecompressionBombError on larger pictures.
Opens(size) == size.width * size.height <= MaxPixels

-----------------------------------------------------------------------------
(* _pdf_to_image                                                           *)

PagesToRender(leaves) == LesserOf(Len(leaves), MaxPages)

\* fitz.Matrix(2, 2): a page is rendered at twice its size.
Rendered(leaf) == [width |-> 2 * leaf.width, height |-> 2 * leaf.height]

\* Mutant of Offsets: y_offset grows by the height of the page that comes.
OffsetsAhead(sizes) ==
    LET top[i \in 1 .. Len(sizes) + 1] ==
            IF i = 1 THEN 0
            ELSE top[i - 1] + sizes[LesserOf(i, Len(sizes))].height
    IN top

\* y_offset: where each picture begins, and where the last one ends.
Offsets(sizes) ==
    LET top[i \in 1 .. Len(sizes) + 1] ==
            IF i = 1 THEN 0 ELSE top[i - 1] + sizes[i - 1].height
    IN top

\* The pages one below the other, on a canvas as wide as the widest.
Stitch(sizes) ==
    [ width  |-> Sets!Max({sizes[i].width : i \in DOMAIN sizes}),
      height |-> Offsets(sizes)[Len(sizes) + 1],
      pasted |-> [i \in DOMAIN sizes |-> [page |-> i, top |-> Offsets(sizes)[i]]] ]

\* One page is taken as it is; of more than MaxPages the others are not even
\* loaded, so what is wrong with them is not noticed.
PdfToImage(file) ==
    LET n == PagesToRender(file.leaves)
    IN  IF \/ ~file.opens
           \/ file.leaves = <<>>
           \/ \E i \in 1 .. n : ~file.leaves[i].sound \/ ~Opens(Rendered(file.leaves[i]))
        THEN Refuse("InvalidInputError")
        ELSE [error |-> "none",
              picture |-> Stitch([i \in 1 .. n |-> Rendered(file.leaves[i])])]

-----------------------------------------------------------------------------
(* _normalize_image                                                        *)

\* Of the two whole numbers next to S * b / a, for sides a >= b, the one that
\* changes the aspect least; but at least 1.
ShorterSide(a, b, isHeight) ==
    LET low  == (MaxSide * b) \div a
        high == IF low * a = MaxSide * b THEN low ELSE low + 1
        off(n) == Distance(MaxSide * b, n * a)
        lowIsNearer == IF isHeight THEN low = 0 \/ off(low) * high <= off(high) * low
                                   ELSE off(low) <= off(high)
    IN  IF low = 0 THEN 1 ELSE IF lowIsNearer THEN low ELSE high

\* Mutant of Thumbnail: both sides are cut.
ThumbnailCuts(size) ==
    [width |-> LesserOf(size.width, MaxSide), height |-> LesserOf(size.height, MaxSide)]

\* Image.thumbnail((max_side, max_side)), by Pillow.
Thumbnail(size) ==
    IF size.width <= MaxSide /\ size.height <= MaxSide
    THEN [width |-> size.width, height |-> size.height]
    ELSE IF size.width <= size.height
    THEN [width |-> ShorterSide(size.height, size.width, FALSE), height |-> MaxSide]
    ELSE [width |-> MaxSide, height |-> ShorterSide(size.width, size.height, TRUE)]

\* Opens the picture, which for a document is the stitched one; sets
\* downsampling_applied if the size changed.
NormalizeImage(picture) ==
    IF ~Opens(picture) THEN Refuse("InvalidInputError")
    ELSE LET size == Thumbnail(picture)
         IN  [ error |-> "none", picture |-> picture, size |-> size,
               downsampled |-> \/ size.width # picture.width
                               \/ size.height # picture.height ]

-----------------------------------------------------------------------------
(* preprocess                                                              *)

\* Mutant of ValidateSize: refuses what is exactly as large as allowed.
ValidateSizeStrict(file) == file.size < MaxFileSize

ValidateSize(file) == file.size <= MaxFileSize

ImageOf(file) ==
    IF file.opens /\ file.leaves # <<>> /\ file.leaves[1].sound
    THEN [error |-> "none",
          picture |-> Stitch(<<[width |-> file.leaves[1].width,
                                height |-> file.leaves[1].height]>>)]
    ELSE Refuse("InvalidInputError")

\* Size, type, content, in this order.
PreprocessFile(file) ==
    IF ~ValidateSize(file) THEN Refuse("InvalidInputError")
    ELSE IF file.magic = "other" THEN Refuse("UnsupportedFormatError")
    ELSE LET opened == IF file.magic = "pdf" THEN PdfToImage(file) ELSE ImageOf(file)
         IN  IF opened.error # "none" THEN opened
             ELSE NormalizeImage(opened.picture)

-----------------------------------------------------------------------------
(* What is expected of a file and the result of its preprocessing.         *)

\* What is shown of a file, as large as it is pasted: its first pages at twice their
\* size, or its one image.
Scale(file) == IF file.magic = "pdf" THEN 2 ELSE 1

Shown(file) ==
    [i \in 1 .. LesserOf(Len(file.leaves), MaxPages) |->
        [ width  |-> Scale(file) * file.leaves[i].width,
          height |-> Scale(file) * file.leaves[i].height ]]

\* The files of module Pipeline: what its Preprocess decides, on a record of
\* three facts, is what is decided here.  A file is readable if it opens, what is
\* shown of it is sound, and all of that together is not too large for Pillow.
FactsOf(file) ==
    [ oversized |-> file.size > MaxFileSize,
      magic     |-> file.magic,
      readable  |-> /\ file.opens
                    /\ file.leaves # <<>>
                    /\ \A i \in DOMAIN Shown(file) : file.leaves[i].sound
                    /\ Opens(Stitch(Shown(file))) ]

\* The picture shows the first pages, MaxPages at most, in their order, each
\* whole, and nothing between, beside or below them.
ShowsThePages(file, result) ==
    LET p == result.picture
        height(i) == Scale(file) * file.leaves[i].height
        width(i) == Scale(file) * file.leaves[i].width
        n == Len(p.pasted)
    IN  /\ n = (IF Len(file.leaves) < MaxPages THEN Len(file.leaves) ELSE MaxPages)
        /\ \A i \in 1 .. n : p.pasted[i].page = i /\ width(i) <= p.width
        /\ \E i \in 1 .. n : width(i) = p.width
        /\ p.pasted[1].top = 0
        /\ \A i \in 1 .. n - 1 : p.pasted[i + 1].top = p.pasted[i].top + height(i)
        /\ p.pasted[n].top + height(n) = p.height

\* What the LLM gets fits into the limit, is not reduced without need or more than
\* needed, and downsampling_applied says whether it was.  Its shorter side is less than
\* one pixel off what the aspect of the picture would make it, even where that is less
\* than one pixel (spec.md PER-002).
FitsAndTells(result) ==
    LET p == result.picture
        s == result.size
    IN  /\ s.width \in 1 .. MaxSide /\ s.height \in 1 .. MaxSide
        /\ result.downsampled <=> (p.width > MaxSide \/ p.height > MaxSide)
        /\ ~result.downsampled => s.width = p.width /\ s.height = p.height
        /\ result.downsampled =>
              /\ s.width = MaxSide \/ s.height = MaxSide
              /\ Distance(s.width * p.height, s.height * p.width)
                    < (IF p.width < p.height THEN p.height ELSE p.width)

=============================================================================
