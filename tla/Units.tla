-------------------------------- MODULE Units ---------------------------------
(***************************************************************************)
(* Balances as text, in the utils of the two SDKs.  A text is a whole      *)
(* number and, behind a point, so many places of a fraction; no places are *)
(* no point.  TypeScript works on the digits, Python on a Decimal, whose   *)
(* products keep the digits of the context's precision.                    *)
(***************************************************************************)
EXTENDS Integers

CONSTANTS
    MaxDecimals,    \* the most places a token may have, 77 in TypeScript
    MAX_U256,       \* the largest balance
    Precision       \* digits of a product of Decimals, 28 by default

ASSUME UnitsAssumption ==
    {MaxDecimals, MAX_U256} \subseteq Nat /\ Precision \in Nat \ {0}

Pow10[k \in Nat] == IF k = 0 THEN 1 ELSE 10 * Pow10[k - 1]

\* What stands for an error in place of a balance, and of a text.
Thrown == -1
Unwritten == [whole |-> Thrown, places |-> 0, fraction |-> 0]

\* The least number of places that lose nothing of fraction f.
Places(f, decimals) ==
    CHOOSE k \in 0 .. decimals :
      /\ f % Pow10[decimals - k] = 0
      /\ \A j \in 0 .. k - 1 : f % Pow10[decimals - j] # 0

formatBalance(wei, decimals) ==
    LET f == wei % Pow10[decimals]
        k == Places(f, decimals)
    IN [whole |-> wei \div Pow10[decimals], places |-> k,
        fraction |-> f \div Pow10[decimals - k]]

parseBalance(text, decimals) ==
    LET result == text.whole * Pow10[decimals] + text.fraction * Pow10[decimals - text.places]
    IN IF text.places > decimals \/ result > MAX_U256 THEN Thrown ELSE result

\* A whole number has a place as well, and no decimals name a variable that is not there.
format_balance(wei, decimals) ==
    LET text == formatBalance(wei, decimals)
    IN IF decimals = 0 THEN Unwritten
       ELSE IF text.places = 0 THEN [text EXCEPT !.places = 1] ELSE text

\* The nearest number of Precision digits and zeros behind them, the even one of two.
Rounded(n) ==
    LET unit  == Pow10[CHOOSE e \in 0 .. n : n < Pow10[Precision + e]
                                           /\ \A j \in 0 .. e - 1 : n >= Pow10[Precision + j]]
        over  == n % unit
        below == n - over
    IN IF 2 * over > unit \/ (2 * over = unit /\ (below \div unit) % 2 = 1)
       THEN below + unit ELSE below

\* Every balance is of less than so many digits, and the largest one is not
\* rounded up: 2^256 - 1 is 1157920892373161954235709850|08687... .
ASSUME BalanceAssumption ==
    MAX_U256 < Pow10[MaxDecimals + Precision] /\ Rounded(MAX_U256) <= MAX_U256

\* int() drops what is behind the point.
parse_balance(text, decimals) ==
    LET value == text.whole * Pow10[text.places] + text.fraction
        wei   == (Rounded(value) * Pow10[decimals]) \div Pow10[text.places]
    IN IF wei > MAX_U256 THEN Thrown ELSE wei
===============================================================================
