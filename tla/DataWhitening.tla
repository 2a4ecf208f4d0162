---------------------------- MODULE DataWhitening ----------------------------
(***************************************************************************)
(* The block data_whitening_bb: removes the PN9 sequence from the payload  *)
(* of every frame.  A length tag (re)starts it wherever in a frame it is:  *)
(* the header is passed on as it is, then each payload bit is combined     *)
(* with the next bit of the sequence, and what follows the frame is passed *)
(* on again.  It is a sync block: as many items out as in, tags unmoved.   *)
(*                                                                         *)
(* The output is a function from offsets to the index in the PN9 sequence  *)
(* of the bit combined with the item at that offset, Plain if none was.    *)
(*                                                                         *)
(* Definitions named Op_fault are seeded faults of Op, used by no action.  *)
(***************************************************************************)
EXTENDS Integers

CONSTANTS
  OctetBits,      \* items per octet: 8 in the code
  HeaderBits,     \* d_header_bits: items that are not whitened, from the SFD on
  WhiteBuffer     \* items the output buffer holds

Plain == 0

VARIABLES
  written,        \* items the block before has written
  tags,           \* the tags on them
  drained,        \* nitems_read(0) = nitems_written(0)
  white,          \* output offset -> index of the PN9 bit applied there
  whiteDrained,   \* output items the next block has consumed
  state           \* [header, payload, pn9]: d_header_bits_remaining,
                  \* d_payload_bits_remaining, bits drawn since pn9_seed

InitWhitening ==
  /\ white = [k \in {} |-> Plain]
  /\ state = [header |-> 0, payload |-> 0, pn9 |-> 0]

\* start_packet
StartPacket_keepPn9(s, octets) ==
  IF OctetBits * octets <= HeaderBits
  THEN [s EXCEPT !.header = 0, !.payload = 0]
  ELSE [s EXCEPT !.header = HeaderBits, !.payload = OctetBits * octets - HeaderBits]
StartPacket(s, octets) ==
  IF OctetBits * octets <= HeaderBits
  THEN [s EXCEPT !.header = 0, !.payload = 0]
  ELSE [header |-> HeaderBits,
        payload |-> OctetBits * octets - HeaderBits,
        pn9 |-> 0]

\* The length tag at offset k restarts the block before the item is processed.
AtItem(s, k) ==
  LET starts == {t \in tags : t.key = "wisun-packet" /\ t.off = k}
  IN  IF starts = {} THEN s
      ELSE StartPacket(s, (CHOOSE t \in starts : TRUE).val)

\* One pass of the loop: the PN9 index used for the item, and what is left.
Applied(s) == IF s.header = 0 /\ s.payload > 0 THEN s.pn9 + 1 ELSE Plain
AfterItem(s) ==
  IF s.header > 0 THEN [s EXCEPT !.header = @ - 1]
  ELSE IF s.payload > 0 THEN [s EXCEPT !.payload = @ - 1, !.pn9 = @ + 1]
  ELSE s

\* The state in which each of the n items of a call is processed.
ItemStates(n) ==
  LET at[i \in 0 .. n - 1] ==
        AtItem(IF i = 0 THEN state ELSE AfterItem(at[i - 1]), drained + i)
  IN  at

\* work, called with n items.
Whiten ==
  \E n \in 1 .. written - drained :
    /\ drained + n - whiteDrained <= WhiteBuffer
    /\ LET at == ItemStates(n)
       IN  /\ white' = [k \in 0 .. drained + n - 1 |->
                          IF k < drained THEN white[k] ELSE Applied(at[k - drained])]
           /\ state' = AfterItem(at[n - 1])
    /\ drained' = drained + n
  /\ UNCHANGED <<written, tags, whiteDrained>>

=============================================================================
