------------------------------ MODULE Symbols -------------------------------
(***************************************************************************)
(* SymbolNormalizer of rust_core/crates/data_pipeline/src/symbol.rs: names *)
(* of trading pairs, from the formats of the exchanges to BASE/QUOTE and   *)
(* back.  Names are sequences of letters and separators, in upper case,    *)
(* which the code turns every letter into.  An operator that may fail      *)
(* gives a set of at most one result.                                      *)
(***************************************************************************)
EXTENDS Naturals, SequencesExt, FiniteSets

CONSTANTS Bases, Quotes,   \* KNOWN_BASE_TOKENS and KNOWN_QUOTE_TOKENS
          Letters          \* what they are made of

Pair == [base : Bases, quote : Quotes]
Standard(base, quote) == base \o <<"/">> \o quote

Prefix(raw, n) == SubSeq(raw, 1, n)
Suffix(raw, n) == SubSeq(raw, Len(raw) - n + 1, Len(raw))

ASSUME TokenAssumption ==
  /\ Letters \cap {"/", "-"} = {}
  /\ Bases \cup Quotes \subseteq Seq(Letters) \ {<< >>}

\* No known quote is the end of another, so that the longest at the end of a name is the one
\* it was made with.
ASSUME QuoteAssumption ==
  \A short, long \in Quotes : Len(short) < Len(long) => Suffix(long, Len(short)) # short

\* raw.split(separator), when that gives two parts.
Separators(raw, separator) == {i \in DOMAIN raw : raw[i] = separator}

Split(raw, separator) ==
  IF Cardinality(Separators(raw, separator)) # 1 THEN {}
  ELSE {<< Prefix(raw, i - 1), Suffix(raw, Len(raw) - i) >> :
          i \in Separators(raw, separator)}

\* A known quote at the end, the longest that leaves a base.
ParseUnseparated(raw) ==
  LET ends == {q \in Quotes : Len(q) < Len(raw) /\ Suffix(raw, Len(q)) = q}
  IN  {<< Prefix(raw, Len(raw) - Len(q)), q >> :
         q \in {q \in ends : \A other \in ends : Len(other) <= Len(q)}}

\* ExchangeFormat::parse of a name that has no '/', and ::format.
Parse(exchange, raw) ==
  IF exchange = "okx" THEN Split(raw, "-") ELSE ParseUnseparated(raw)

\* A slip for the mutants: OKX's names have no separator.
FormatUnseparated(exchange, base, quote) == base \o quote

Format(exchange, base, quote) ==
  IF exchange = "okx" THEN base \o <<"-">> \o quote ELSE base \o quote

\* validate: the known ones of some parts.
Valid(parts) == {p \in parts : p[1] \in Bases /\ p[2] \in Quotes}

\* A name with a '/' is taken for a standard one, for any exchange.
Normalize(raw, exchange) ==
  LET parts == IF Separators(raw, "/") # {} THEN Split(raw, "/") ELSE Parse(exchange, raw)
  IN  {Standard(p[1], p[2]) : p \in Valid(parts)}

Denormalize(standard, exchange) ==
  {Format(exchange, p[1], p[2]) : p \in Valid(Split(standard, "/"))}

\* parse_engine_config: the first exchange whose format fits, or the name as it is.
Priority == << "binance", "okx", "bybit" >>

EngineSymbol(raw) ==
  LET fits == {i \in DOMAIN Priority : Normalize(raw, Priority[i]) # {}}
  IN  IF fits = {} THEN raw
      ELSE CHOOSE name \in Normalize(raw, Priority[CHOOSE i \in fits : \A j \in fits : i <= j]) :
             TRUE

-----------------------------------------------------------------------------
\* Every known pair, in the format of any exchange, comes back as the standard name, and
\* is what the server takes it for.
RoundTrip(exchange, pair) ==
  LET standard == Standard(pair.base, pair.quote)
  IN  \A raw \in Denormalize(standard, exchange) :
        Normalize(raw, exchange) = {standard} /\ EngineSymbol(raw) = standard

RoundTrips == \A e \in ToSet(Priority), pair \in Pair : RoundTrip(e, pair)
=============================================================================
