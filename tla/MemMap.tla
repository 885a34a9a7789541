------------------------------- MODULE MemMap -------------------------------
(***************************************************************************)
(* The memory map of a window (src/detailwin.c, dw_draw_memmap): a picture *)
(* of the private writable regions of a process, one band of pixels for    *)
(* each, with the resident pages, the blocks and the swapped pages drawn   *)
(* over it in this order.                                                  *)
(*                                                                         *)
(* A picture depends on the size of the widget and on the regions, blocks  *)
(* and pages of the moment only; dw_draw_memmap chooses them anew.  The    *)
(* colours of odd and even regions are not told apart.                     *)
(***************************************************************************)
EXTENDS Integers, Sequences, FiniteSetsExt

CONSTANTS
  Widths, Heights,  \* of the widget
  RegionLists,      \* the sizes of the regions, in pages
  PageSize,
  Word              \* the range of the unsigned integers

ASSUME MemMapAssumption ==
  /\ Widths \subseteq Nat \ {0} /\ Heights \subseteq Nat \ {0}
  /\ PageSize \in Nat \ {0} /\ Word \in Nat \ {0}
  /\ \A r \in RegionLists : \A k \in DOMAIN r : r[k] \in Nat \ {0}

VARIABLE picture

Regions(s) == DOMAIN s.sizes
RegionSize(s, k) == s.sizes[k] * PageSize
Mtotal(s) == MapThenSumSet(LAMBDA k : RegionSize(s, k), Regions(s))

\* h - regnum is unsigned.
Lines(s) == (s.h - Len(s.sizes)) % Word

\* Bytes for each line of pixels, and for each pixel.
Bpl(s) == ((Mtotal(s) + Lines(s) - 1) % Word) \div Lines(s)
Bpp(s) == Max({(Bpl(s) + s.w - 1) \div s.w, 1})

Up_RegH(s, k) == ((RegionSize(s, k) * Lines(s) + Mtotal(s) - 1) % Word) \div Mtotal(s)

\* reg->h and reg->y: a line between two bands is left for the divider.
RegH(s, k) == ((RegionSize(s, k) * Lines(s) + Bpl(s) - 1) % Word) \div Mtotal(s)
RegY(s, k) == MapThenSumSet(LAMBDA j : RegH(s, j) + 1, 1 .. (k - 1))

-----------------------------------------------------------------------------
(* Where something in a region is drawn.                                   *)

Signed(n) == IF n >= Word \div 2 THEN n - Word ELSE n

\* gdk_draw_rectangle of height 1: what is outside is not seen; a negative width
\* is that of the drawable (external).
gdk_draw_rectangle(s, x, y, w) ==
  LET right == IF w < 0 THEN s.w ELSE w
  IN {<<i, j>> \in (0 .. (s.w - 1)) \X (0 .. (s.h - 1)) : j = y /\ x <= i /\ i < x + right}

OneLine_Place(s, k, addr, size) ==
  LET from == addr \div Bpp(s)
      w == (addr + size + Bpp(s) \div 2) \div Bpp(s) - from
      y == RegY(s, k) + from \div s.w
      x == (from - y * s.w) % Word
  IN gdk_draw_rectangle(s, Signed(x), y, w)
       \cup (IF (x + w) % Word < s.w THEN {} ELSE gdk_draw_rectangle(s, 0, y + 1, w))

\* dw_draw_memmap_foreach for a block, and the same lines for a page: size bytes at
\* addr of the region.  x and y are unsigned and 64 bits, the arguments are int.
Place(s, k, addr, size) ==
  LET from == addr \div Bpp(s)
      w == (addr + size + Bpp(s) \div 2) \div Bpp(s) - from
      y == RegY(s, k) + from \div s.w
      x == (from - y * s.w) % Word
      rest == (w - (s.w - x)) % Word
  IN gdk_draw_rectangle(s, Signed(x), y, w)
       \cup (IF (x + w) % Word > s.w THEN gdk_draw_rectangle(s, 0, y + 1, Signed(rest)) ELSE {})

PageAt(s, p) == Place(s, p[1], p[2] * PageSize, PageSize)

BlockPixels(s) == Place(s, s.block.region, s.block.addr, s.block.size)

\* gc_swapped is stippled: it draws every other pixel.
SwappedPixels(s) ==
  {pixel \in UNION {PageAt(s, p) : p \in s.pages["swapped"]} : (pixel[1] + pixel[2]) % 2 = 1}

\* The regions are drawn in turn, each over what the earlier ones have left in its
\* band or on its divider.
PresentPixels(s) ==
  {pixel \in UNION {PageAt(s, p) : p \in s.pages["present"]} :
     \E p \in s.pages["present"] :
       /\ pixel \in PageAt(s, p)
       /\ \A k \in Regions(s) :
            k > p[1] => pixel[2] \notin RegY(s, k) .. (RegY(s, k) + RegH(s, k))}

Flat_Colour(s, pixel) ==
  IF pixel \in BlockPixels(s) THEN "mem"
  ELSE IF pixel \in SwappedPixels(s) THEN "swapped"
  ELSE IF pixel \in PresentPixels(s) THEN "present"
  ELSE "bg"

\* What is drawn last is seen: swapped pages in the second pass over the pagemap.
Colour(s, pixel) ==
  IF pixel \in SwappedPixels(s) THEN "swapped"
  ELSE IF pixel \in BlockPixels(s) THEN "mem"
  ELSE IF pixel \in PresentPixels(s) THEN "present"
  ELSE "bg"

-----------------------------------------------------------------------------
\* The pages, and the places for blocks, of regions of these sizes.
Pages(sizes) == UNION {{k} \X (0 .. (sizes[k] - 1)) : k \in DOMAIN sizes}

Blocks(sizes) ==
  UNION {{[region |-> k, addr |-> a, size |-> n] : n \in 1 .. (sizes[k] * PageSize - a)} :
           <<k, a>> \in UNION {{k} \X (0 .. (sizes[k] * PageSize - 1)) : k \in DOMAIN sizes}}

\* The maps and the pagemap of a process, and one of its blocks, now.  With as many
\* regions as lines there is a division by zero.
dw_draw_memmap ==
  \E w \in Widths, h \in Heights, sizes \in RegionLists :
    \E block \in Blocks(sizes), swapped \in kSubset(1, Pages(sizes)) \cup {{}},
       resident \in BOOLEAN :
      LET present == IF resident THEN Pages(sizes) \ swapped ELSE {}
          s == [w |-> w, h |-> h, sizes |-> sizes, block |-> block,
                pages |-> [present |-> present, swapped |-> swapped]]
      IN picture' = IF Lines(s) = 0 THEN [fate |-> "SIGFPE"]
                    ELSE [fate |-> "drawn", scene |-> s,
                          colour |-> [pixel \in (0 .. (w - 1)) \X (0 .. (h - 1)) |->
                                        Colour(s, pixel)]]

NoPicture == [fate |-> "none"]
MapInit == picture = NoPicture
MapNext == dw_draw_memmap

-----------------------------------------------------------------------------
(* What must hold.                                                         *)

Drawn == picture.fate = "drawn" /\ picture.scene.h > Len(picture.scene.sizes)

\* The bands with their dividers fit into the picture, although the heights are
\* rounded one by one (reg->h), if there are two lines for each region: then the
\* last region is not pushed out of it.
MapFits ==
  Drawn =>
    LET s == picture.scene
    IN 2 * Len(s.sizes) <= s.h => \A k \in Regions(s) : RegY(s, k) + RegH(s, k) < s.h

\* The pixels of size bytes at addr of the first region, counted line by line.
Own(s, addr, size) ==
  {<<n % s.w, n \div s.w>> : n \in (addr \div Bpp(s)) ..
                                   ((addr + size + Bpp(s) \div 2) \div Bpp(s) - 1)}

\* A block of the first region (the one whose reg->y is 0) is drawn in its own
\* pixels, all of them on the first two lines it touches, and no lower than the
\* divider below the region: neither the unsigned x and width nor the rounding of
\* bytes to pixels and of regions to lines puts it into the memory of another.
FirstRegionExact ==
  Drawn /\ picture.scene.block.region = 1 =>
    LET s == picture.scene
        own == Own(s, s.block.addr, s.block.size)
        top == (s.block.addr \div Bpp(s)) \div s.w
        drawn == {pixel \in DOMAIN picture.colour : picture.colour[pixel] = "mem"}
    IN /\ drawn \subseteq own
       /\ \A pixel \in own :
            pixel[2] <= top + 1 => pixel \in drawn \/ picture.colour[pixel] = "swapped"
       /\ \A pixel \in own : pixel[2] <= RegH(s, 1)

\* A page of the first region is seen: a swapped one as swapped, on every other
\* pixel and whatever blocks are in it, which is what the second pass over the
\* pagemap is for; a resident one unless a block or a swapped page covers it, for
\* no region drawn after it reaches into its band.
PagesSeen ==
  Drawn =>
    LET s == picture.scene
        Seen(p) == {pixel \in Own(s, p[2] * PageSize, PageSize) :
                      pixel[2] <= ((p[2] * PageSize) \div Bpp(s)) \div s.w + 1}
    IN \A p \in s.pages["swapped"] \cup s.pages["present"] :
         p[1] = 1 =>
           \A pixel \in Seen(p) :
             IF p \in s.pages["swapped"]
             THEN (pixel[1] + pixel[2]) % 2 = 1 => picture.colour[pixel] = "swapped"
             ELSE picture.colour[pixel] # "bg"

\* Rounding to lines and to pixels puts nothing out of the picture or of the first
\* region into another.
PictureExact == MapFits /\ FirstRegionExact /\ PagesSeen

=============================================================================
