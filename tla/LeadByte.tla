------------------------------ MODULE LeadByte ------------------------------
(* gp_utf8_decode_codepoint_length() of src/src/unicode.c: how long a        *)
(* codepoint is by its first byte, 0 for a byte that cannot be the first.    *)
EXTENDS Integers

LeadLength(b) ==
    CASE b < 128 -> 1
      [] b \in 192..223 -> 2
      [] b \in 224..239 -> 3
      [] b \in 240..247 -> 4
      [] OTHER -> 0

=============================================================================
