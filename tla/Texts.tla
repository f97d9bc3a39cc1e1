-------------------------------- MODULE Texts ---------------------------------
(***************************************************************************)
(* What people copy and type: addresses and balances as text.  A sample is *)
(* an address with the place of a mistake in its text, or a balance with   *)
(* the decimals of its token; the properties relate what the SDKs write of *)
(* it and what they read back.                                             *)
(***************************************************************************)
EXTENDS Bech32m, Units, SequencesExt

CONSTANTS
    AddressSamples, \* addresses as bytes
    Balances        \* a balance and the decimals of its token

ASSUME TextsAssumption ==
    /\ AddressSamples \subseteq [1 .. AddressBytes -> Byte]
    /\ Balances \subseteq [wei : Nat, decimals : 0 .. MaxDecimals]

VARIABLE sample

NoSample == [kind |-> "nothing", input |-> <<>>]

TextInit == sample = NoSample

Sample(kind, inputs) ==
    /\ sample = NoSample
    /\ \E input \in inputs : sample' = [kind |-> kind, input |-> input]

TextNext ==
    \/ Sample("typing", [address : AddressSamples, place : 0 .. 2 * AddressBytes])
    \/ Sample("balance", Balances)

TextSpec == TextInit /\ [][TextNext]_sample

-----------------------------------------------------------------------------
\* A text with the character at place i replaced, or swapped with the next.
Replaced(text, i, c) == [text EXCEPT !.data[i] = c]
Swapped(text, i) ==
    [text EXCEPT !.data[i] = text.data[i + 1], !.data[i + 1] = text.data[i]]

NotRead(text) == FromBech32(text) = Invalid /\ TsFromBech32(text) = Invalid
NotHex(digits) == TsFromHex(digits) = Invalid /\ PyFromHex(digits) = Invalid

(* An address survives its text forms.                                     *)
AddressSurvives(address) ==
    LET read == [ok |-> TRUE, data |-> address]
    IN /\ FromBech32(ToBech32(address)) = read /\ TsFromBech32(ToBech32(address)) = read
       /\ TsFromHex(ToHex(address)) = read /\ PyFromHex(ToHex(address)) = read

(* No Bech32m text that differs from that of an address in one character,  *)
(* or in the order of two neighbours, is taken for an address by either    *)
(* SDK.                                                                    *)
MistakeSeen(text, i) ==
    /\ \A place \in DOMAIN text.hrp, c \in Byte :
         c # text.hrp[place] => NotRead([text EXCEPT !.hrp[place] = c])
    /\ i \in DOMAIN text.data =>
         \A c \in Quintet : c # text.data[i] => NotRead(Replaced(text, i, c))
    /\ {i, i + 1} \subseteq DOMAIN text.data /\ text.data[i] # text.data[i + 1] =>
         NotRead(Swapped(text, i))

(* A hexadecimal text lets a wrong digit pass, but not a missing one or a  *)
(* letter; a space is an error in TypeScript, while Python reads over it   *)
(* between two bytes.                                                      *)
HexMistakeSeen(address, i) ==
    LET hex    == ToHex(address)
        spaced == InsertAt(hex, i, Space)
    IN i \in DOMAIN hex =>
         /\ NotHex(RemoveAt(hex, i)) /\ NotHex([hex EXCEPT ![i] = Letter])
         /\ TsFromHex(spaced) = Invalid
         /\ PyFromHex(spaced) = IF i % 2 = 1 THEN [ok |-> TRUE, data |-> address] ELSE Invalid

(* An address is read back from each of its texts, and a mistake in one is *)
(* noticed, but for a wrong digit of the hexadecimal one.                  *)
MistypedAddressRefused ==
    sample.kind = "typing" =>
      LET address == sample.input.address
          i       == sample.input.place
      IN /\ AddressSurvives(address)
         /\ MistakeSeen(ToBech32(address), i)
         /\ HexMistakeSeen(address, i)

-----------------------------------------------------------------------------
\* Python's Decimal holds n: so many digits, and zeros behind them.
Held(n) == \E k \in 0 .. MaxDecimals + Precision : n % Pow10[k] = 0 /\ n \div Pow10[k] < Pow10[Precision]

Off(m, n) == IF m < n THEN n - m ELSE m - n

(* TypeScript reads a balance back from the text of either SDK, up to the  *)
(* largest one.  Python writes no balance of a token without decimals.     *)
TsReadsBack(w, d) ==
    LET text == formatBalance(w, d)
    IN /\ parseBalance(text, d) = IF w <= MAX_U256 THEN w ELSE Thrown
       /\ format_balance(w, d) = Unwritten <=> d = 0
       /\ d # 0 => parseBalance(format_balance(w, d), d) = parseBalance(text, d)

(* Python reads a balance back if and only if a Decimal holds it, and      *)
(* otherwise one that no other is nearer to.                               *)
PyReadsNearest(w, d) ==
    LET read == parse_balance(formatBalance(w, d), d)
    IN w <= MAX_U256 =>
         /\ read = w <=> Held(w)
         /\ \A n \in 0 .. MAX_U256 : Held(n) => Off(read, w) <= Off(n, w)

(* A text with more places than the token has is refused by TypeScript;    *)
(* Python drops them.                                                      *)
LongTextRead(w, d) ==
    LET long == formatBalance(w, d + 1)
    IN w \div 10 <= MAX_U256 =>
         /\ parseBalance(long, d) = IF w % 10 = 0 THEN w \div 10 ELSE Thrown
         /\ Held(w) => parse_balance(long, d) = w \div 10

BalancesComeBack ==
    sample.kind = "balance" =>
      LET w == sample.input.wei
          d == sample.input.decimals
      IN TsReadsBack(w, d) /\ PyReadsNearest(w, d) /\ LongTextRead(w, d)

(* What was written of an address or a balance is read back, or refused,   *)
(* as said above.                                                          *)
TextsReadBack == MistypedAddressRefused /\ BalancesComeBack
===============================================================================
