----------------------------- MODULE MCBringup -----------------------------
(***************************************************************************)
(* Bringup on a machine with 3 entries per table and huge pages of 4       *)
(* addresses: "1GB" is 12, "512GB" is 36.  The friend memory is 12..23, the *)
(* trampoline 1, its page table 2; setup() clears 12..15 only, so that     *)
(* .bss (16..20, with an exported pointer at 16 and the three tables       *)
(* behind it) depends on the ELF loader.                                   *)
(***************************************************************************)
EXTENDS Bringup

CONSTANTS c1, c2

Text == <<"image", "image", "image", "image">>
Load(a, d, n) == [load |-> TRUE, vaddr |-> a, data |-> d, memsz |-> n]
Note == [load |-> FALSE, vaddr |-> 0, data |-> <<>>, memsz |-> 0]
Bss(a, n) == [bss |-> TRUE, addr |-> a, size |-> n]
Other == [bss |-> FALSE, addr |-> 12, size |-> 4]
Binary(p, s) == [elf |-> TRUE, exec |-> TRUE, entry |-> 13, phdrs |-> p, shdrs |-> s]

\* .bss at the end of the only segment.
Plain == Binary(<<Load(12, Text, 9)>>, <<Other, Bss(16, 5)>>)
\* .bss in the middle of a segment (friend.ld puts .note behind it), and a
\* segment that ends exactly at the end of the friend memory.
Split == Binary(<<Load(12, Text \o Zeros(5) \o <<"image">>, 10), Note,
                  Load(23, <<"image">>, 1)>>, <<Bss(16, 5)>>)
\* A binary that is linked to an address at the end, or before the start.
TooHigh == Binary(<<Load(12, Text, 4), Load(22, Text, 4)>>, <<>>)
TooLow == Binary(<<Load(11, Text, 4)>>, <<>>)
BssTooHigh == Binary(<<Load(12, Text, 4)>>, <<Bss(22, 3)>>)
\* Headers whose end wraps around and passes the loader's test.
Wrapping == Binary(<<Load(12, Text, 9), Load(20, [k \in 1..110 |-> "image"], 110)>>, <<Bss(16, 5)>>)
BssWrapping == Binary(<<Load(12, Text, 4)>>, <<Bss(22, 108)>>)
\* No ELF file, or a position independent one.
NotElf == [Plain EXCEPT !.elf = FALSE]
Pie == [Plain EXCEPT !.exec = FALSE]

SomeImages == {Plain, Split, TooHigh, TooLow, BssTooHigh, Wrapping, BssWrapping, NotElf, Pie}
=============================================================================
