------------------------------ MODULE Mnemonic ------------------------------
(* Recovery phrases (src/src/wallet.rs): a seed is written as WordBits-wide  *)
(* word indices, zero-padded on the right, followed by one checksum word.    *)
(* The checksum itself (SHA-512/256) is a parameter.                         *)
EXTENDS Integers, Sequences, SequencesExt

CONSTANTS ByteBits, WordBits,  \* 8 and 11 in the code
          Buffer,              \* bits kept of the accumulator (a u32 in the code)
          SeedBytes,           \* 32 in the code
          Checksum(_)          \* the word that follows the data words of a seed

ASSUME MnemonicAssumption ==
    /\ {ByteBits, WordBits, SeedBytes} \subseteq Nat \ {0}
    /\ Buffer \in Nat /\ Buffer >= ByteBits + WordBits

NoSeed == <<>>
Unknown == -1                  \* a word that is not in the word list

PhraseWords == (SeedBytes * ByteBits + WordBits - 1) \div WordBits + 1

\* The shift register both directions share: shift `from` bits in, take out
\* every complete group of `to` bits, oldest bits first.
Regroup(items, from, to) ==
    LET Push(acc, v) ==
          LET buf == (acc.buf % 2^(Buffer - from)) * 2^from + v
              n == acc.n + from
          IN [buf |-> buf, n |-> n % to,
              out |-> acc.out \o
                      [i \in 1 .. n \div to |-> (buf \div 2^(n - i * to)) % 2^to]]
    IN FoldLeft(Push, [buf |-> 0, n |-> 0, out |-> <<>>], items)

bytes_to_11bit(data) ==
    LET r == Regroup(data, ByteBits, WordBits)
    IN IF r.n = 0 THEN r.out
       ELSE Append(r.out, (r.buf % 2^r.n) * 2^(WordBits - r.n))

bits_to_bytes(indices) ==
    LET out == Regroup(indices, WordBits, ByteBits).out
    IN IF Len(out) < SeedBytes THEN NoSeed ELSE SubSeq(out, 1, SeedBytes)

seed_to_mnemonic(seed) == Append(bytes_to_11bit(seed), Checksum(seed))

mnemonic_to_seed(words) ==
    IF Len(words) # PhraseWords \/ Unknown \in Range(words) THEN NoSeed
    ELSE LET seed == bits_to_bytes(Front(words))
         IN IF Last(words) = Checksum(seed) THEN seed ELSE NoSeed
=============================================================================
