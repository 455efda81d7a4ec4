---------------------------- MODULE SignalProofs ----------------------------
(***************************************************************************)
(* Theorems about signals: how they come about (Parser), for every         *)
(* lexicon, threshold and model, and the review of the uncertain ones      *)
(* (ReviewQueue), for every arrival of signals, number of managers, offer  *)
(* of labels and limit of the queue.  The scores themselves are sums over  *)
(* sets of any size, and stay abstract.                                    *)
(***************************************************************************)
EXTENDS Parser, ReviewQueue, FiniteSetTheorems, SequenceTheorems, WellFoundedInduction, TLAPS

\* The order of the naturals is well-founded.
Below == {pair \in Nat \X Nat : pair[1] < pair[2]}

\* The naturals are well-founded under it.
LEMMA BelowIsWellFounded == IsWellFoundedOn(Below, Nat)
BY NatLessThanWellFounded DEF Below, OpToRel

\* Induction: a set of naturals with zero and every successor has them all.
LEMMA Induction ==
  ASSUME NEW S \in SUBSET Nat, 0 \in S, \A n \in S : n + 1 \in S
  PROVE  \A n \in Nat : n \in S
<1> SUFFICES ASSUME Nat \ S # {} PROVE FALSE
  OBVIOUS
<1>1. PICK x \in Nat \ S : \A y \in Nat \ S : <<y, x>> \notin Below
  BY BelowIsWellFounded, WFMin
<1>2. x # 0 /\ x - 1 \in Nat /\ <<x - 1, x>> \in Below
  BY <1>1 DEF Below
<1>3. x - 1 \in S
  BY <1>1, <1>2
<1>4. (x - 1) + 1 = x
  BY <1>1
<1>5. QED
  BY <1>1, <1>3, <1>4

-----------------------------------------------------------------------------
(***************************************************************************)
(* The parser: what trades.                                                *)
(***************************************************************************)
\* Watch interest and its absence trade nothing.
LEMMA WatchTradesNothing ==
  ASSUME NEW ticker, NEW text
  PROVE  WatchOrIgnore(ticker, text).action \notin Trades
<1>1. CASE WatchTier(text) = NoTier
  BY <1>1 DEF WatchOrIgnore, Ignored, Signal, Trades
<1>2. CASE WatchTier(text) # NoTier
  BY <1>2 DEF WatchOrIgnore, Signal, Trades
<1>3. QED
  BY <1>1, <1>2

\* What leaves the gate as a trade is the signal that entered it, not below the floor.
LEMMA GateKeepsFloor ==
  ASSUME NEW signal, NEW text, Gate(signal, text).action \in Trades
  PROVE  Gate(signal, text) = signal /\ ~(signal.confidence < Floor)
<1>1. ~(signal.action \in Trades /\ signal.confidence < Floor)
  BY WatchTradesNothing DEF Gate
<1>2. Gate(signal, text) = signal
  BY <1>1 DEF Gate
<1>3. QED
  BY <1>1, <1>2

\* A checked signal that still trades is affirmed by its text and not below the floor.
LEMMA IntendedTrades ==
  ASSUME NEW signal, NEW text, Intended(signal, text).action \in Trades
  PROVE  /\ ~(Intended(signal, text).confidence < Floor)
         /\ Affirms(Intended(signal, text).action, text)
<1>1. Affirms(signal.action, text)
  BY DEF Intended, Ignored, Signal, Trades
<1>2. Intended(signal, text) = Gate(signal, text)
  BY <1>1 DEF Intended
<1>3. QED
  BY <1>1, <1>2, GateKeepsFloor

\* The same for whichever way a segment is read by its own text.
LEMMA ClassifiedTrades ==
  ASSUME NEW ticker, NEW text, NEW guess, Classified(ticker, text, guess).action \in Trades
  PROVE  /\ ~(Classified(ticker, text, guess).confidence < Floor)
         /\ Affirms(Classified(ticker, text, guess).action, text)
<1> DEFINE rule == RuleSignal(ticker, text)
           clear == rule.action \in Trades /\ RuleScore(text) >= KeywordClear
           result == Classified(ticker, text, guess)
<1>1. CASE rule.action = "WATCH"
  <2>1. ~clear
    BY <1>1 DEF Trades
  <2>2. result = rule
    BY <1>1, <2>1 DEF Classified
  <2>3. QED
    BY <1>1, <2>2 DEF Trades
<1>2. CASE clear
  <2>1. rule.action # "WATCH"
    BY <1>2 DEF Trades
  <2>2. result = Intended(rule, text)
    BY <1>2, <2>1 DEF Classified
  <2>3. QED
    BY <2>2, IntendedTrades
<1>3. CASE rule.action # "WATCH" /\ ~clear /\ Usable(guess)
  <2>1. result = Intended(FromModel(ticker, guess), text)
    BY <1>3 DEF Classified
  <2>2. QED
    BY <2>1, IntendedTrades
<1>4. CASE rule.action # "WATCH" /\ ~clear /\ ~Usable(guess)
  <2>1. result = IF rule.action \in Trades THEN Intended(rule, text)
                 ELSE WatchOrIgnore(ticker, text)
    BY <1>4 DEF Classified
  <2>2. rule.action \in Trades
    BY <2>1, WatchTradesNothing
  <2>3. QED
    BY <2>1, <2>2, IntendedTrades
<1>5. QED
  BY <1>1, <1>2, <1>3, <1>4

\* The words of a text buy, sell or decide nothing.
LEMMA StructureTrades ==
  ASSUME NEW text
  PROVE  StructureFirst(text) \in Trades \cup {NoAction}
BY DEF StructureFirst, Trades

\* A verb that governs all tickers buys or sells.
LEMMA SharedTrades ==
  ASSUME NEW tw, NEW segments, SharedAction(tw, segments) # NoAction
  PROVE  SharedAction(tw, segments) \in Trades
BY StructureTrades DEF SharedAction

\* A shared verb gives its own action or, without a header, nothing that trades.
LEMMA SharedSignalTrades ==
  ASSUME NEW tw, NEW ticker, NEW action
  PROVE  LET s == SharedSignal(tw, ticker, action) IN
         /\ tw.header => s.action = action
         /\ ~tw.header /\ s.action \in Trades => s.action = action /\ ~(s.confidence < Floor)
<1> DEFINE keyed == Keyed(ticker, action, Max({Score(FullText(tw), KeysOf(action)), 3}))
<1>1. keyed.action = action
  BY DEF Keyed, Signal
<1>2. CASE tw.header
  BY <1>1, <1>2 DEF SharedSignal
<1>3. CASE ~tw.header
  <2>1. SharedSignal(tw, ticker, action) = Gate(keyed, FullText(tw))
    BY <1>3 DEF SharedSignal
  <2> HIDE DEF keyed
  <2>2. QED
    BY <1>1, <1>3, <2>1, GateKeepsFloor
<1>4. QED
  BY <1>2, <1>3

\* What a model may guess, whichever model it is.
Guesses == UNION Models

\* What the parser is answered are guesses of one model.
LEMMA AnswersGuess ==
  ASSUME NEW tw, NEW answer \in Answers(tw)
  PROVE  \E m \in Models :
           answer \in [{Segments(tw)[j].text : j \in DOMAIN Segments(tw)} -> Predictions(m, tw.header)]
BY DEF Answers

\* What is asked for under a header is among them.
LEMMA PredictionsGuess ==
  ASSUME NEW m \in Models, NEW header
  PROVE  Predictions(m, header) \subseteq Guesses
BY DEF Predictions, Guesses

\* The three ways a segment of a tweet becomes a signal.
LEMMA SignalOfSegment ==
  ASSUME NEW tw, tw.mentions # <<>>, NEW answer \in Answers(tw),
         NEW i \in DOMAIN Signals(tw, answer)
  PROVE  LET segments == Segments(tw)
             shared == SharedAction(tw, segments)
             text == segments[i].text
             ticker == segments[i].ticker
             s == Signals(tw, answer)[i]
         IN  /\ i \in DOMAIN segments
             /\ answer[text] \in Guesses
             /\ shared # NoAction => s = SharedSignal(tw, ticker, shared)
             /\ shared = NoAction /\ tw.header => s = Forced(ticker, text, answer[text])
             /\ shared = NoAction /\ ~tw.header => s = Classified(ticker, text, answer[text])
<1> DEFINE segments == Segments(tw)
           shared == SharedAction(tw, segments)
           signal(ticker, text) ==
             CASE shared # NoAction -> SharedSignal(tw, ticker, shared)
               [] shared = NoAction /\ tw.header -> Forced(ticker, text, answer[text])
               [] OTHER -> Classified(ticker, text, answer[text])
<1>1. Signals(tw, answer) = [j \in DOMAIN segments |-> signal(segments[j].ticker, segments[j].text)]
  BY DEF Signals
<1>2. i \in DOMAIN segments
  BY <1>1
<1>3. PICK m \in Models :
        answer \in [{segments[j].text : j \in DOMAIN segments} -> Predictions(m, tw.header)]
  BY AnswersGuess
<1>4. answer[segments[i].text] \in Guesses
  BY <1>2, <1>3, PredictionsGuess
<1>5. Signals(tw, answer)[i] = signal(segments[i].ticker, segments[i].text)
  BY <1>1, <1>2
<1> HIDE DEF segments, shared
<1>6. QED
  BY <1>2, <1>4, <1>5 DEF segments, shared

-----------------------------------------------------------------------------
\* A step either stutters or is the one call of parse.
LEMMA ParseStep ==
  ASSUME [Next]_vars
  PROVE  /\ tweet' = tweet
         /\ UNCHANGED signals \/ \E answer \in Answers(tweet) : signals' = Signals(tweet, answer)
BY DEF Next, Parse, vars

\* No way to a signal evades the floor of tweets without a header.
THEOREM FloorProved == Spec => []NonHeaderFloor
<1>1. Init => NonHeaderFloor
  BY DEF Init, NonHeaderFloor
<1>2. NonHeaderFloor /\ [Next]_vars => NonHeaderFloor'
  <2> SUFFICES ASSUME NonHeaderFloor, [Next]_vars, ~tweet'.header, NEW i \in DOMAIN signals',
                      signals'[i].action \in Trades
               PROVE  ~(signals'[i].confidence < Floor)
    BY DEF NonHeaderFloor
  <2>1. CASE UNCHANGED signals
    BY <2>1, ParseStep DEF NonHeaderFloor
  <2>2. ASSUME NEW answer \in Answers(tweet), signals' = Signals(tweet, answer),
               tweet.mentions # <<>>
        PROVE  ~(signals'[i].confidence < Floor)
    BY <2>2, ParseStep, SignalOfSegment, SharedSignalTrades, ClassifiedTrades
  <2>3. ASSUME NEW answer \in Answers(tweet), signals' = Signals(tweet, answer),
               tweet.mentions = <<>>
        PROVE  ~(signals'[i].confidence < Floor)
    <3>1. signals'[i] = BareSignal(tweet)
      BY <2>3 DEF Signals
    <3>2. tweet.bare # NoTicker
      BY <3>1 DEF BareSignal, Ignored, Signal, Trades
    <3>3. BareSignal(tweet) = Gate(RuleSignal(tweet.bare, tweet.lead), tweet.lead)
      BY <3>2, ParseStep DEF BareSignal
    <3>4. QED
      BY <3>1, <3>3, GateKeepsFloor
  <2>4. QED
    BY <2>1, <2>2, <2>3, ParseStep
<1>3. QED
  BY <1>1, <1>2, PTL DEF Spec

\* Without a header a trade is affirmed by its own text or shared by all tickers.
THEOREM IntentProved == Spec => []TradesHaveIntent
<1>1. Init => TradesHaveIntent
  BY DEF Init, TradesHaveIntent
<1>2. TradesHaveIntent /\ [Next]_vars => TradesHaveIntent'
  <2> SUFFICES ASSUME TradesHaveIntent, [Next]_vars, ~tweet'.header, tweet'.mentions # <<>>,
                      NEW i \in DOMAIN signals', signals'[i].action \in Trades
               PROVE  \/ Affirms(signals'[i].action, Segments(tweet')[i].text)
                      \/ SharedAction(tweet', Segments(tweet')) = signals'[i].action
    BY DEF TradesHaveIntent
  <2>1. CASE UNCHANGED signals
    BY <2>1, ParseStep DEF TradesHaveIntent
  <2>2. ASSUME NEW answer \in Answers(tweet), signals' = Signals(tweet, answer)
        PROVE  \/ Affirms(signals'[i].action, Segments(tweet)[i].text)
               \/ SharedAction(tweet, Segments(tweet)) = signals'[i].action
    BY <2>2, ParseStep, SignalOfSegment, SharedSignalTrades, ClassifiedTrades
  <2>3. QED
    BY <2>1, <2>2, ParseStep
<1>3. QED
  BY <1>1, <1>2, PTL DEF Spec

-----------------------------------------------------------------------------
(***************************************************************************)
(* The form of the signals.                                                *)
(***************************************************************************)
\* A signal that asks for no review, and knows nothing of what is ignored.
Plain(s) == WellFormed(s) /\ ~s.review /\ (s.action = "IGNORE" => s.confidence = 0)

\* Watch interest gives a plain signal, and so does its absence.
LEMMA WatchPlain ==
  ASSUME NEW ticker, NEW text
  PROVE  Plain(WatchOrIgnore(ticker, text)) /\ Plain(Ignored(ticker))
<1>1. Plain(Ignored(ticker))
  BY DEF Plain, WellFormed, Ignored, Signal, Actions
<1>2. CASE WatchTier(text) = NoTier
  BY <1>1, <1>2 DEF WatchOrIgnore
<1>3. CASE WatchTier(text) # NoTier
  <2> DEFINE tier == WatchTier(text)
             known == WatchConfidence[tier]
  <2>1. WatchOrIgnore(ticker, text) = [Signal(ticker, "WATCH", known) EXCEPT !.tier = tier]
    BY <1>3 DEF WatchOrIgnore
  <2> HIDE DEF tier, known
  <2>2. WatchOrIgnore(ticker, text) =
          [ticker |-> ticker, action |-> "WATCH", confidence |-> known, tier |-> tier,
           review |-> FALSE]
    BY <2>1 DEF Signal
  <2> DEFINE s == WatchOrIgnore(ticker, text)
  <2>3. s.action = "WATCH" /\ s.tier = tier /\ s.confidence = known /\ ~s.review
    BY <2>2
  <2> HIDE DEF s
  <2>4. s.confidence = WatchConfidence[s.tier]
    BY <2>3 DEF known
  <2>5. s.action \in Actions /\ s.action # "IGNORE"
    BY <2>3 DEF Actions
  <2>6. WellFormed(s)
    BY <2>3, <2>4, <2>5 DEF WellFormed
  <2>7. Plain(s)
    BY <2>3, <2>6 DEF Plain
  <2>8. QED
    BY <1>1, <2>7 DEF s
<1>4. QED
  BY <1>1, <1>2, <1>3

\* A signal made from keywords or from the model is plain.
LEMMA TradePlain ==
  ASSUME NEW ticker, NEW action \in Actions \ {"IGNORE"}, NEW confidence
  PROVE  Plain(Signal(ticker, action, confidence))
BY DEF Plain, WellFormed, Signal

\* The checks of intent and of the floor leave a plain signal plain.
LEMMA CheckedPlain ==
  ASSUME NEW signal, NEW text, Plain(signal)
  PROVE  Plain(Gate(signal, text)) /\ Plain(Intended(signal, text))
<1>1. Plain(Gate(signal, text))
  BY WatchPlain DEF Gate
<1>2. QED
  BY <1>1, WatchPlain DEF Intended

\* The rule parser answers plainly.
LEMMA RulePlain ==
  ASSUME NEW ticker, NEW text
  PROVE  Plain(RuleSignal(ticker, text))
<1> DEFINE action == KeywordAction(text)
<1>1. CASE action = NoAction \/ (action = "SELL" /\ WatchTier(text) # NoTier)
  <2>1. RuleSignal(ticker, text) = WatchOrIgnore(ticker, text)
    BY <1>1 DEF RuleSignal
  <2>2. QED
    BY <2>1, WatchPlain
<1>2. CASE action # NoAction /\ ~(action = "SELL" /\ WatchTier(text) # NoTier)
  <2>1. action \in Actions \ {"IGNORE"}
    BY <1>2 DEF KeywordAction, Actions, Trades
  <2>2. RuleSignal(ticker, text) = IF Affirms(action, text)
                                   THEN Keyed(ticker, action, RuleScore(text)) ELSE Ignored(ticker)
    BY <1>2 DEF RuleSignal
  <2>3. Plain(Keyed(ticker, action, RuleScore(text)))
    BY <2>1, TradePlain DEF Keyed
  <2>4. QED
    BY <2>2, <2>3, WatchPlain
<1>3. QED
  BY <1>1, <1>2

\* So does the hybrid parser, for a segment without a header.
LEMMA ClassifiedPlain ==
  ASSUME NEW ticker, NEW text, NEW guess \in Guesses
  PROVE  Plain(Classified(ticker, text, guess))
<1> DEFINE rule == RuleSignal(ticker, text)
           clear == rule.action \in Trades /\ RuleScore(text) >= KeywordClear
<1>1. Plain(rule) /\ Plain(Intended(rule, text)) /\ Plain(WatchOrIgnore(ticker, text))
  BY RulePlain, CheckedPlain, WatchPlain
<1>2. CASE rule.action # "WATCH" /\ ~clear /\ Usable(guess)
  <2>1. Classified(ticker, text, guess) = Intended(FromModel(ticker, guess), text)
    BY <1>2 DEF Classified
  <2>2. guess.action \in Actions \ {"IGNORE"}
    BY <1>2, ThresholdsAssumption DEF Usable, Guesses
  <2>3. Plain(FromModel(ticker, guess))
    BY <2>2, TradePlain DEF FromModel
  <2>4. QED
    BY <2>1, <2>3, CheckedPlain
<1>3. CASE ~(rule.action # "WATCH" /\ ~clear /\ Usable(guess))
  <2>1. clear => rule.action # "WATCH"
    BY DEF Trades
  <2>2. Classified(ticker, text, guess) \in
          {rule, Intended(rule, text), WatchOrIgnore(ticker, text)}
    BY <1>3, <2>1 DEF Classified
  <2>3. QED
    BY <1>1, <2>2
<1>4. QED
  BY <1>2, <1>3

\* A segment under a header gets a signal of the form.
LEMMA ForcedForm ==
  ASSUME NEW ticker, NEW text, NEW guess \in Guesses
  PROVE  WellFormed(Forced(ticker, text, guess))
<1>1. CASE StructureFirst(text) # NoAction
  <2>1. StructureFirst(text) \in Actions \ {"IGNORE"}
    BY <1>1, StructureTrades DEF Actions, Trades
  <2>2. QED
    BY <1>1, <2>1, TradePlain DEF Forced, Keyed, Plain
<1>2. CASE StructureFirst(text) = NoAction
  <2>1. guess.action \in Actions
    BY ThresholdsAssumption DEF Guesses
  <2>2. QED
    BY <1>2, <2>1 DEF Forced, FromModel, Signal, WellFormed
<1>3. QED
  BY <1>1, <1>2

\* A verb shared by all tickers gives plain signals.
LEMMA SharedPlain ==
  ASSUME NEW tw, NEW ticker, NEW action \in Trades
  PROVE  Plain(SharedSignal(tw, ticker, action))
<1> DEFINE keyed == Keyed(ticker, action, Max({Score(FullText(tw), KeysOf(action)), 3}))
<1>1. Plain(keyed)
  BY TradePlain DEF Keyed, Actions, Trades
<1>2. SharedSignal(tw, ticker, action) = IF tw.header THEN keyed ELSE Gate(keyed, FullText(tw))
  BY DEF SharedSignal
<1> HIDE DEF keyed
<1>3. QED
  BY <1>1, <1>2, CheckedPlain

\* A ticker without a cashtag gets a plain signal.
LEMMA BarePlain ==
  ASSUME NEW tw
  PROVE  Plain(BareSignal(tw))
<1>1. BareSignal(tw) \in {Ignored(NoTicker), RuleSignal(tw.bare, tw.lead),
                          Gate(RuleSignal(tw.bare, tw.lead), tw.lead)}
  BY DEF BareSignal
<1>2. QED
  BY <1>1, WatchPlain, RulePlain, CheckedPlain

\* The types hold in every reachable state.
THEOREM ParserTypes == Spec => []TypeOK
<1>1. Init => TypeOK
  BY DEF Init, TypeOK
<1>2. TypeOK /\ [Next]_vars => TypeOK'
  <2> SUFFICES ASSUME TypeOK, [Next]_vars PROVE TypeOK'
    OBVIOUS
  <2>1. phase' \in {"given", "parsed"}
    BY DEF TypeOK, Next, Parse, vars
  <2>2. ASSUME NEW i \in DOMAIN signals'
        PROVE  /\ WellFormed(signals'[i])
               /\ ~tweet'.header => /\ ~signals'[i].review
                                    /\ signals'[i].action = "IGNORE" => signals'[i].confidence = 0
    <3>1. CASE UNCHANGED signals
      BY <2>2, <3>1, ParseStep DEF TypeOK
    <3>2. ASSUME NEW answer \in Answers(tweet), signals' = Signals(tweet, answer),
                 tweet.mentions # <<>>
          PROVE  /\ WellFormed(signals'[i])
                 /\ ~tweet.header => /\ ~signals'[i].review
                                     /\ signals'[i].action = "IGNORE" => signals'[i].confidence = 0
      BY <2>2, <3>2, SignalOfSegment, SharedTrades, SharedPlain, ForcedForm, ClassifiedPlain
         DEF Plain
    <3>3. ASSUME NEW answer \in Answers(tweet), signals' = Signals(tweet, answer),
                 tweet.mentions = <<>>
          PROVE  Plain(signals'[i])
      <4>1. signals'[i] = BareSignal(tweet)
        BY <2>2, <3>3 DEF Signals
      <4>2. QED
        BY <4>1, BarePlain
    <3>4. QED
      BY <3>1, <3>2, <3>3, ParseStep DEF Plain
  <2>3. QED
    BY <2>1, <2>2 DEF TypeOK
<1>3. QED
  BY <1>1, <1>2, PTL DEF Spec

-----------------------------------------------------------------------------
(***************************************************************************)
(* The segments of a tweet: what the fold over its mentions returns.       *)
(***************************************************************************)
\* A mention of a ticker that has no segment yet begins one.
Joined(segments, mention) ==
  IF \E i \in DOMAIN segments : segments[i].ticker = mention.ticker
  THEN segments ELSE Append(segments, mention)

\* it folds every subset of the first n mentions, from left to right.
Folds(n, seq, it) ==
  it = [s \in SUBSET (1..n) |-> IF s = {} THEN <<>> ELSE Joined(it[s \ {Max(s)}], seq[Max(s)])]

\* The last of a set that has n + 1 and nothing greater is n + 1.
LEMMA LastIsMax ==
  ASSUME NEW n \in Nat, NEW s \in SUBSET (1..n), n \in s
  PROVE  Max(s) = n
<1>1. \A y \in s : y \in Int /\ n >= y
  OBVIOUS
<1>2. ASSUME NEW x \in s, \A y \in s : x >= y PROVE x = n
  BY <1>1, <1>2
<1>3. QED
  BY <1>1, <1>2 DEF Max

\* A fold of n mentions continues to the next one.
LEMMA FoldGrows ==
  ASSUME NEW n \in Nat, NEW seq, NEW it, Folds(n, seq, it)
  PROVE  \E more : Folds(n + 1, seq, more)
<1> DEFINE more == [s \in SUBSET (1..(n + 1)) |->
                      IF n + 1 \in s THEN Joined(it[s \ {n + 1}], seq[n + 1]) ELSE it[s]]
<1>1. ASSUME NEW s \in SUBSET (1..(n + 1))
      PROVE  more[s] = IF s = {} THEN <<>> ELSE Joined(more[s \ {Max(s)}], seq[Max(s)])
  <2>1. CASE n + 1 \in s
    <3>1. Max(s) = n + 1
      BY <2>1, LastIsMax
    <3>2. more[s \ {n + 1}] = it[s \ {n + 1}]
      OBVIOUS
    <3>3. more[s] = Joined(it[s \ {n + 1}], seq[n + 1])
      BY <2>1
    <3> HIDE DEF more
    <3>4. QED
      BY <2>1, <3>1, <3>2, <3>3
  <2>2. CASE n + 1 \notin s
    <3>0. \A k \in s : k \in 1..n
      BY <2>2
    <3>1. s \in SUBSET (1..n) /\ s \ {Max(s)} \in SUBSET (1..n) /\ n + 1 \notin s \ {Max(s)}
      BY <2>2, <3>0
    <3>2. more[s] = it[s] /\ more[s \ {Max(s)}] = it[s \ {Max(s)}]
      BY <2>2, <3>1
    <3> HIDE DEF more
    <3>3. it[s] = IF s = {} THEN <<>> ELSE Joined(it[s \ {Max(s)}], seq[Max(s)])
      BY <3>1 DEF Folds
    <3>4. QED
      BY <3>2, <3>3
  <2>3. QED
    BY <2>1, <2>2
<1>2. more = [s \in SUBSET (1..(n + 1)) |-> more[s]]
  OBVIOUS
<1> HIDE DEF more
<1>3. Folds(n + 1, seq, more)
  BY <1>1, <1>2 DEF Folds
<1>4. QED
  BY <1>3

\* Any number of mentions can be folded.
LEMMA FoldExists == ASSUME NEW seq PROVE \A n \in Nat : \E it : Folds(n, seq, it)
<1> DEFINE S == {n \in Nat : \E it : Folds(n, seq, it)}
<1>1. 0 \in S
  <2> DEFINE it == [s \in SUBSET (1..0) |-> <<>>]
  <2>1. \A s \in SUBSET (1..0) : s = {}
    OBVIOUS
  <2>2. Folds(0, seq, it)
    BY <2>1 DEF Folds
  <2>3. QED
    BY <2>2
<1>2. \A n \in S : n + 1 \in S
  BY FoldGrows
<1>3. S \in SUBSET Nat
  OBVIOUS
<1> HIDE DEF S
<1>4. \A n \in Nat : n \in S
  BY <1>1, <1>2, <1>3, Induction
<1>5. QED
  BY <1>4 DEF S

\* The segments after k of n mentions.
Gathered(n, seq, f) ==
  /\ f[0] = <<>>
  /\ \A k \in 1..n : f[k] = Joined(f[k - 1], seq[k])

\* The fold of the mentions joins them one by one.
LEMMA FoldGathers ==
  ASSUME NEW seq \in Seq(Mention)
  PROVE  \E f : /\ Gathered(Len(seq), seq, f)
                /\ f[Len(seq)] =
                     FoldLeft(LAMBDA segments, mention :
                                IF \E i \in DOMAIN segments : segments[i].ticker = mention.ticker
                                THEN segments ELSE Append(segments, mention),
                              <<>>, seq)
<1> DEFINE n == Len(seq)
           Iterates(it) == it = [s \in SUBSET DOMAIN seq |->
                             IF s = {} THEN <<>>
                             ELSE IF \E i \in DOMAIN it[s \ {Max(s)}] :
                                       it[s \ {Max(s)}][i].ticker = seq[Max(s)].ticker
                                  THEN it[s \ {Max(s)}] ELSE Append(it[s \ {Max(s)}], seq[Max(s)])]
           fold == CHOOSE it : Iterates(it)
<1>1. n \in Nat /\ DOMAIN seq = 1..n
  OBVIOUS
<1>2. \A it : Iterates(it) <=> Folds(n, seq, it)
  BY <1>1 DEF Folds, Joined
<1>3. FoldLeft(LAMBDA segments, mention :
                 IF \E i \in DOMAIN segments : segments[i].ticker = mention.ticker
                 THEN segments ELSE Append(segments, mention),
               <<>>, seq) = fold[DOMAIN seq]
  BY DEF FoldLeft, MapThenFoldSet
<1> HIDE DEF n, Iterates
<1>4. Folds(n, seq, fold)
  BY <1>1, <1>2, FoldExists
<1> HIDE DEF fold
<1> DEFINE f == [k \in 0..n |-> fold[1..k]]
<1>5. f[0] = <<>>
  <2>1. 1..0 = {} /\ {} \in SUBSET (1..n)
    OBVIOUS
  <2>2. fold[{}] = <<>>
    BY <1>4, <2>1 DEF Folds
  <2>3. QED
    BY <1>1, <2>1, <2>2
<1>6. ASSUME NEW k \in 1..n PROVE f[k] = Joined(f[k - 1], seq[k])
  <2>1. k \in Nat /\ 1..k \in SUBSET (1..n) /\ k \in 1..k /\ 1..k # {}
    BY <1>1
  <2>2. Max(1..k) = k
    BY <2>1, LastIsMax
  <2>3. (1..k) \ {k} = 1..(k - 1)
    BY <2>1
  <2>4. fold[1..k] = Joined(fold[(1..k) \ {Max(1..k)}], seq[Max(1..k)])
    BY <1>4, <2>1 DEF Folds
  <2>5. fold[1..k] = Joined(fold[1..(k - 1)], seq[k])
    BY <2>2, <2>3, <2>4
  <2>6. f[k] = fold[1..k] /\ f[k - 1] = fold[1..(k - 1)]
    BY <1>1, <2>1
  <2>7. QED
    BY <2>5, <2>6
<1>7. f[n] = fold[DOMAIN seq]
  BY <1>1
<1> HIDE DEF f
<1>8. QED
  BY <1>3, <1>5, <1>6, <1>7 DEF Gathered, n

\* Segments with each of some tickers once.
OneEach(segments, tickers) ==
  /\ segments \in Seq(Mention)
  /\ {segments[i].ticker : i \in DOMAIN segments} = tickers
  /\ \A i, j \in DOMAIN segments : segments[i].ticker = segments[j].ticker => i = j

\* Joining a mention adds its ticker, once.
LEMMA JoinedOnce ==
  ASSUME NEW segments, NEW tickers, OneEach(segments, tickers), NEW mention \in Mention
  PROVE  OneEach(Joined(segments, mention), tickers \cup {mention.ticker})
<1>0. /\ segments \in Seq(Mention) /\ Len(segments) \in Nat /\ DOMAIN segments = 1..Len(segments)
      /\ {segments[i].ticker : i \in DOMAIN segments} = tickers
      /\ \A i, j \in DOMAIN segments : segments[i].ticker = segments[j].ticker => i = j
  BY DEF OneEach
<1>1. CASE \E i \in DOMAIN segments : segments[i].ticker = mention.ticker
  <2>1. mention.ticker \in tickers
    BY <1>0, <1>1
  <2>2. tickers \cup {mention.ticker} = tickers /\ Joined(segments, mention) = segments
    BY <1>1, <2>1 DEF Joined
  <2>3. QED
    BY <2>2
<1>2. CASE ~\E i \in DOMAIN segments : segments[i].ticker = mention.ticker
  <2> DEFINE more == Append(segments, mention)
  <2>1. /\ more \in Seq(Mention) /\ Len(more) = Len(segments) + 1
        /\ \A i \in 1..Len(segments) : more[i] = segments[i]
        /\ more[Len(segments) + 1] = mention
    BY <1>0, AppendProperties
  <2>2. Joined(segments, mention) = more
    BY <1>2 DEF Joined
  <2> HIDE DEF more
  <2>3. DOMAIN more = 1..(Len(segments) + 1)
    BY <2>1
  <2>4. {more[i].ticker : i \in DOMAIN more} = tickers \cup {mention.ticker}
    <3>1. ASSUME NEW i \in DOMAIN more PROVE more[i].ticker \in tickers \cup {mention.ticker}
      <4>1. CASE i \in DOMAIN segments
        BY <1>0, <2>1, <4>1
      <4>2. CASE i = Len(segments) + 1
        BY <2>1, <4>2
      <4>3. QED
        BY <1>0, <2>3, <4>1, <4>2
    <3>2. ASSUME NEW t \in tickers PROVE \E i \in DOMAIN more : more[i].ticker = t
      <4>1. PICK i \in DOMAIN segments : segments[i].ticker = t
        BY <1>0
      <4>2. i \in DOMAIN more /\ more[i].ticker = t
        BY <1>0, <2>1, <2>3, <4>1
      <4>3. QED
        BY <4>2
    <3>3. Len(segments) + 1 \in DOMAIN more
      BY <1>0, <2>3
    <3>4. QED
      BY <2>1, <3>1, <3>2, <3>3
  <2>5. ASSUME NEW i \in DOMAIN more, NEW j \in DOMAIN more, more[i].ticker = more[j].ticker
        PROVE  i = j
    <3>1. CASE i \in DOMAIN segments /\ j \in DOMAIN segments
      BY <1>0, <2>1, <2>5, <3>1
    <3>2. CASE i = Len(segments) + 1 /\ j \in DOMAIN segments
      BY <1>0, <1>2, <2>1, <2>5, <3>2
    <3>3. CASE i \in DOMAIN segments /\ j = Len(segments) + 1
      BY <1>0, <1>2, <2>1, <2>5, <3>3
    <3>4. CASE i = Len(segments) + 1 /\ j = Len(segments) + 1
      BY <3>4
    <3>5. QED
      BY <1>0, <2>3, <3>1, <3>2, <3>3, <3>4
  <2>6. OneEach(more, tickers \cup {mention.ticker})
    BY <2>1, <2>4, <2>5 DEF OneEach
  <2>7. QED
    BY <2>2, <2>6
<1>3. QED
  BY <1>1, <1>2

\* After every mention there is one segment for each ticker mentioned so far.
LEMMA GatheredOnce ==
  ASSUME NEW seq \in Seq(Mention), NEW f, Gathered(Len(seq), seq, f)
  PROVE  OneEach(f[Len(seq)], {seq[i].ticker : i \in DOMAIN seq})
<1> DEFINE n == Len(seq)
           tickers(k) == {seq[i].ticker : i \in 1..k}
           S == {k \in Nat : k <= n => OneEach(f[k], tickers(k))}
<1>1. n \in Nat /\ DOMAIN seq = 1..n /\ \A i \in 1..n : seq[i] \in Mention
  OBVIOUS
<1>2. 0 \in S
  <2>1. f[0] = <<>> /\ tickers(0) = {}
    BY DEF Gathered
  <2>2. OneEach(<<>>, {})
    BY DEF OneEach
  <2>3. QED
    BY <2>1, <2>2
<1>3. ASSUME NEW k \in S PROVE k + 1 \in S
  <2> SUFFICES ASSUME k + 1 <= n PROVE OneEach(f[k + 1], tickers(k + 1))
    OBVIOUS
  <2>1. k \in Nat /\ k + 1 \in 1..n /\ (k + 1) - 1 = k
    BY <1>1
  <2>2. OneEach(f[k], tickers(k))
    BY <1>1, <2>1
  <2>3. f[k + 1] = Joined(f[(k + 1) - 1], seq[k + 1])
    BY <2>1 DEF Gathered
  <2>4. seq[k + 1] \in Mention
    BY <1>1, <2>1
  <2>5. tickers(k + 1) = tickers(k) \cup {seq[k + 1].ticker}
    <3>1. 1..(k + 1) = 1..k \cup {k + 1}
      BY <2>1
    <3>2. QED
      BY <3>1
  <2> HIDE DEF tickers
  <2>6. QED
    BY <2>1, <2>2, <2>3, <2>4, <2>5, JoinedOnce
<1>4. S \in SUBSET Nat /\ \A k \in S : k + 1 \in S
  BY <1>3
<1> HIDE DEF S
<1>5. n \in S
  BY <1>1, <1>2, <1>4, Induction
<1>6. OneEach(f[n], tickers(n))
  BY <1>1, <1>5 DEF S
<1>7. QED
  BY <1>1, <1>6

\* The segments of a tweet have each of its cashtags once.
LEMMA SegmentsOnce ==
  ASSUME NEW tw \in Tweets
  PROVE  OneEach(Segments(tw), {tw.mentions[i].ticker : i \in DOMAIN tw.mentions})
<1> DEFINE seq == tw.mentions
           tickers == {seq[i].ticker : i \in DOMAIN seq}
<1>1. seq \in Seq(Mention) /\ tw.lead \subseteq Phrases /\ Len(seq) \in Nat
  BY TweetsAssumption
<1>2. CASE Len(seq) = 1
  <2> DEFINE s == [seq[1] EXCEPT !.text = FullText(tw)]
  <2>1. seq[1] \in Mention /\ DOMAIN seq = {1} /\ \A i \in DOMAIN seq : seq[i] \in Mention
    BY <1>1, <1>2
  <2>2. FullText(tw) \in SUBSET Phrases
    BY <1>1, <2>1 DEF FullText, Mention
  <2>3. s \in Mention /\ s.ticker = seq[1].ticker
    BY <2>1, <2>2 DEF Mention
  <2>4. Segments(tw) = <<s>>
    BY <1>2 DEF Segments
  <2> HIDE DEF s
  <2>5. tickers = {s.ticker}
    BY <2>1, <2>3
  <2>6. OneEach(<<s>>, {s.ticker})
    BY <2>3 DEF OneEach
  <2>7. QED
    BY <2>4, <2>5, <2>6
<1>3. CASE Len(seq) # 1
  <2>1. PICK f : /\ Gathered(Len(seq), seq, f)
                 /\ f[Len(seq)] =
                     FoldLeft(LAMBDA segments, mention :
                                IF \E i \in DOMAIN segments : segments[i].ticker = mention.ticker
                                THEN segments ELSE Append(segments, mention),
                              <<>>, seq)
    BY <1>1, FoldGathers
  <2>2. Segments(tw) = f[Len(seq)]
    BY <1>3, <2>1 DEF Segments
  <2>3. QED
    BY <1>1, <2>1, <2>2, GatheredOnce
<1>4. QED
  BY <1>2, <1>3

-----------------------------------------------------------------------------
(***************************************************************************)
(* Whose signals they are.                                                 *)
(***************************************************************************)
\* Every way to a signal keeps the ticker.
LEMMA TickersKept ==
  ASSUME NEW ticker, NEW text, NEW guess
  PROVE  /\ Forced(ticker, text, guess).ticker = ticker
         /\ Classified(ticker, text, guess).ticker = ticker
         /\ \A tw, action : SharedSignal(tw, ticker, action).ticker = ticker
<1>1. WatchOrIgnore(ticker, text).ticker = ticker /\ Ignored(ticker).ticker = ticker
  BY DEF WatchOrIgnore, Ignored, Signal
<1>2. ASSUME NEW signal, signal.ticker = ticker, NEW words
      PROVE  Gate(signal, words).ticker = ticker /\ Intended(signal, words).ticker = ticker
  <2>1. WatchOrIgnore(ticker, words).ticker = ticker /\ Ignored(ticker).ticker = ticker
    BY DEF WatchOrIgnore, Ignored, Signal
  <2>2. QED
    BY <1>2, <2>1 DEF Gate, Intended
<1>3. \A action, score : Keyed(ticker, action, score).ticker = ticker
  BY DEF Keyed, Signal
<1>4. FromModel(ticker, guess).ticker = ticker
  BY DEF FromModel, Signal
<1>5. RuleSignal(ticker, text).ticker = ticker
  <2>1. RuleSignal(ticker, text) \in {WatchOrIgnore(ticker, text), Ignored(ticker),
                                       Keyed(ticker, KeywordAction(text), RuleScore(text))}
    BY DEF RuleSignal
  <2>2. QED
    BY <1>1, <1>3, <2>1
<1>6. Forced(ticker, text, guess).ticker = ticker
  BY <1>3 DEF Forced, FromModel, Signal
<1>7. Classified(ticker, text, guess).ticker = ticker
  <2>1. (RuleSignal(ticker, text).action \in Trades /\ RuleScore(text) >= KeywordClear)
        => RuleSignal(ticker, text).action # "WATCH"
    BY DEF Trades
  <2>2. Classified(ticker, text, guess) \in
          {RuleSignal(ticker, text), Intended(RuleSignal(ticker, text), text),
           Intended(FromModel(ticker, guess), text), WatchOrIgnore(ticker, text)}
    BY <2>1 DEF Classified
  <2>3. QED
    BY <1>1, <1>2, <1>4, <1>5, <2>2
<1>8. ASSUME NEW tw, NEW action PROVE SharedSignal(tw, ticker, action).ticker = ticker
  BY <1>2, <1>3 DEF SharedSignal
<1>9. QED
  BY <1>6, <1>7, <1>8

\* What was parsed are signals of the tweet.
ParsedInv ==
  /\ tweet \in Tweets
  /\ phase = "parsed" => \E answer \in Answers(tweet) : signals = Signals(tweet, answer)

\* What was parsed stays what the parser answered.
LEMMA ParsedProved == Spec => []ParsedInv
<1>1. Init => ParsedInv
  BY DEF Init, ParsedInv
<1>2. ParsedInv /\ [Next]_vars => ParsedInv'
  <2> SUFFICES ASSUME ParsedInv, [Next]_vars
               PROVE  /\ tweet' \in Tweets
                      /\ phase' = "parsed" =>
                           \E answer \in Answers(tweet') : signals' = Signals(tweet', answer)
    BY DEF ParsedInv
  <2>1. CASE Next
    <3>1. tweet' = tweet /\ \E answer \in Answers(tweet) : signals' = Signals(tweet, answer)
      BY <2>1 DEF Next, Parse
    <3>2. QED
      BY <3>1 DEF ParsedInv
  <2>2. CASE UNCHANGED vars
    BY <2>2 DEF ParsedInv, vars
  <2>3. QED
    BY <2>1, <2>2
<1>3. QED
  BY <1>1, <1>2, PTL DEF Spec

\* The cashtags of a tweet are answered one to one (iter_ticker_segments and parse).
THEOREM TickersAnswered == Spec => []EveryTickerAnswered
<1>1. ParsedInv => EveryTickerAnswered
  <2> SUFFICES ASSUME ParsedInv, phase = "parsed", tweet.mentions # <<>>
               PROVE  /\ {signals[i].ticker : i \in DOMAIN signals} =
                           {tweet.mentions[i].ticker : i \in DOMAIN tweet.mentions}
                      /\ \A i, j \in DOMAIN signals : signals[i].ticker = signals[j].ticker => i = j
    BY DEF EveryTickerAnswered
  <2> DEFINE segments == Segments(tweet)
  <2>1. PICK answer \in Answers(tweet) : signals = Signals(tweet, answer)
    BY DEF ParsedInv
  <2>2. OneEach(segments, {tweet.mentions[i].ticker : i \in DOMAIN tweet.mentions})
    BY SegmentsOnce DEF ParsedInv
  <2>3. DOMAIN signals = DOMAIN segments
    BY <2>1 DEF Signals
  <2>4. ASSUME NEW i \in DOMAIN signals PROVE signals[i].ticker = segments[i].ticker
    <3> DEFINE shared == SharedAction(tweet, segments)
               ticker == segments[i].ticker
               text == segments[i].text
               guess == answer[text]
    <3>1. i \in DOMAIN Signals(tweet, answer)
      BY <2>1, <2>4
    <3>2. \/ signals[i] = SharedSignal(tweet, ticker, shared)
          \/ signals[i] = Forced(ticker, text, guess)
          \/ signals[i] = Classified(ticker, text, guess)
      BY <2>1, <3>1, SignalOfSegment
    <3> HIDE DEF shared, ticker, text, guess
    <3>3. /\ Forced(ticker, text, guess).ticker = ticker
          /\ Classified(ticker, text, guess).ticker = ticker
          /\ SharedSignal(tweet, ticker, shared).ticker = ticker
      BY TickersKept
    <3>4. signals[i].ticker = ticker
      BY <3>2, <3>3
    <3>5. QED
      BY <3>4 DEF ticker
  <2> HIDE DEF segments
  <2>5. {signals[i].ticker : i \in DOMAIN signals} = {segments[i].ticker : i \in DOMAIN segments}
    BY <2>3, <2>4
  <2>6. QED
    BY <2>2, <2>3, <2>4, <2>5 DEF OneEach
<1>2. QED
  BY <1>1, ParsedProved, PTL

\* A segment taken out of a tweet that shares no verb is read as it was in it.
LEMMA AloneIsTheSame ==
  ASSUME NEW tw \in Tweets, tw.mentions # <<>>, NEW answer \in Answers(tw),
         SharedAction(tw, Segments(tw)) = NoAction, NEW i \in DOMAIN Signals(tw, answer)
  PROVE  LET alone == [tw EXCEPT !.lead = {}, !.mentions = <<Segments(tw)[i]>>]
         IN  \E other \in Answers(alone) : Signals(tw, answer)[i] = Signals(alone, other)[1]
<1> DEFINE segments == Segments(tw)
           s == segments[i]
           alone == [tw EXCEPT !.lead = {}, !.mentions = <<s>>]
           other == [t \in {s.text} |-> answer[s.text]]
           signal(ticker, text, guess) == IF tw.header THEN Forced(ticker, text, guess)
                                          ELSE Classified(ticker, text, guess)
<1>1. /\ i \in DOMAIN segments
      /\ Signals(tw, answer)[i] = signal(s.ticker, s.text, answer[s.text])
  BY SignalOfSegment
<1>2. s \in Mention
  <2>1. segments \in Seq(Mention)
    BY SegmentsOnce DEF OneEach
  <2>2. QED
    BY <1>1, <2>1
<1> HIDE DEF s
<1>3. alone.header = tw.header /\ alone.lead = {} /\ alone.mentions = <<s>>
  BY TweetsAssumption
<1> HIDE DEF alone
<1>4. Segments(alone) = <<s>>
  <2>1. UNION {alone.mentions[j].text : j \in DOMAIN alone.mentions} = s.text
    BY <1>3
  <2>2. FullText(alone) = s.text
    BY <1>3, <2>1 DEF FullText
  <2>3. [s EXCEPT !.text = s.text] = s
    BY <1>2 DEF Mention
  <2>4. Len(alone.mentions) = 1 /\ alone.mentions[1] = s
    BY <1>3
  <2>5. Segments(alone) = <<[alone.mentions[1] EXCEPT !.text = FullText(alone)]>>
    BY <2>4 DEF Segments
  <2>6. QED
    BY <2>2, <2>3, <2>4, <2>5
<1>5. SharedAction(alone, <<s>>) = NoAction
  BY DEF SharedAction
<1>6. other \in Answers(alone) /\ other[s.text] = answer[s.text]
  <2>1. {Segments(alone)[j].text : j \in DOMAIN Segments(alone)} = {s.text}
    BY <1>4
  <2>2. \A m \in Models : [{s.text} -> Predictions(m, tw.header)] \subseteq Answers(alone)
    BY <1>3, <2>1 DEF Answers
  <2>3. PICK m \in Models :
          answer \in [{segments[j].text : j \in DOMAIN segments} -> Predictions(m, tw.header)]
    BY AnswersGuess
  <2>4. answer[s.text] \in Predictions(m, tw.header)
    BY <1>1, <2>3 DEF s
  <2>5. QED
    BY <2>2, <2>4
<1> HIDE DEF other
<1>7. 1 \in DOMAIN Signals(alone, other) /\ alone.mentions # <<>>
  <2>1. alone.mentions # <<>>
    BY <1>3
  <2>2. DOMAIN Signals(alone, other) = DOMAIN <<s>>
    BY <1>4, <2>1 DEF Signals
  <2>3. QED
    BY <2>1, <2>2
<1>8. Signals(alone, other)[1] = signal(s.ticker, s.text, other[s.text])
  BY <1>3, <1>4, <1>5, <1>6, <1>7, SignalOfSegment
<1>9. QED
  BY <1>1, <1>6, <1>8 DEF alone, s

\* The segments of a tweet that contradict each other are each read by their own text.
THEOREM MixedAreAlone == Spec => []MixedStandAlone
<1>1. ParsedInv => MixedStandAlone
  <2> SUFFICES ASSUME ParsedInv, phase = "parsed", Mixed(Segments(tweet)), NEW i \in DOMAIN signals
               PROVE  LET alone == [tweet EXCEPT !.lead = {}, !.mentions = <<Segments(tweet)[i]>>]
                      IN  \E answer \in Answers(alone) : signals[i] = Signals(alone, answer)[1]
    BY DEF MixedStandAlone
  <2>1. PICK answer \in Answers(tweet) : signals = Signals(tweet, answer)
    BY DEF ParsedInv
  <2>2. SharedAction(tweet, Segments(tweet)) = NoAction
    BY DEF SharedAction
  <2>3. tweet.mentions # <<>>
    <3> SUFFICES ASSUME tweet.mentions = <<>> PROVE FALSE
      OBVIOUS
    <3>1. {Segments(tweet)[j].ticker : j \in DOMAIN Segments(tweet)} = {}
      <4>1. {tweet.mentions[j].ticker : j \in DOMAIN tweet.mentions} = {}
        OBVIOUS
      <4>2. QED
        BY <4>1, SegmentsOnce DEF ParsedInv, OneEach
    <3>2. QED
      BY <3>1 DEF Mixed
  <2>4. tweet \in Tweets
    BY DEF ParsedInv
  <2>5. QED
    BY <2>1, <2>2, <2>3, <2>4, AloneIsTheSame
<1>2. QED
  BY <1>1, ParsedProved, PTL

-----------------------------------------------------------------------------
(***************************************************************************)
(* The review queue: types.                                                *)
(***************************************************************************)
\* What a review hands to the scripts are examples.
LEMMA ReviewsAreExamples == ASSUME NEW truths \in Reviews PROVE truths \subseteq Examples
  BY ReviewAssumption DEF Reviews, Examples

\* Every step keeps the types.
LEMMA QueueTypeStep == QueueTypeOK /\ [QueueNext]_queueVars => QueueTypeOK'
<1> SUFFICES ASSUME QueueTypeOK, [QueueNext]_queueVars PROVE QueueTypeOK'
  OBVIOUS
<1> USE ReviewAssumption DEF QueueTypeOK, Rows
<1>1. CASE Arrive
  BY <1>1 DEF Arrive
<1>2. ASSUME NEW i \in Rows, Undo(i) PROVE QueueTypeOK'
  BY <1>2 DEF Undo, Stored
<1>3. ASSUME NEW i \in Rows, NEW a \in Offered, Label(i, a) PROVE QueueTypeOK'
  <2>1. a \in LabelActions /\ Arrivals[i] \in Subjects /\ <<Arrivals[i], a>> \in Examples
    BY DEF LabelActions, Examples
  <2>2. QED
    BY <1>3, <2>1 DEF Label, Stored
<1>4. ASSUME NEW truths \in Reviews, Ingest(truths) PROVE QueueTypeOK'
  <2>1. truths \subseteq Examples
    BY ReviewsAreExamples
  <2>2. {e[1] : e \in truths} \subseteq Subjects
    BY <2>1 DEF Examples
  <2>3. labels' \in [Subjects -> SUBSET LabelActions]
    BY <1>4 DEF Ingest
  <2>4. QED
    BY <1>4, <2>1, <2>2, <2>3 DEF Ingest
<1>5. CASE Retrain
  BY <1>5 DEF Retrain
<1>6. ASSUME NEW x \in Scripts, AppendExamples(x) \/ KilledAppending(x) \/ Killed(x) PROVE QueueTypeOK'
  BY <1>6 DEF AppendExamples, KilledAppending, Killed
<1>7. CASE UNCHANGED queueVars
  BY <1>7 DEF queueVars
<1>8. QED
  BY <1>1, <1>2, <1>3, <1>4, <1>5, <1>6, <1>7 DEF QueueNext

LEMMA QueueTypeInit == QueueInit => QueueTypeOK
<1> SUFFICES ASSUME QueueInit PROVE QueueTypeOK
  OBVIOUS
<1>1. torn \in BOOLEAN
  BY Zenon DEF QueueInit
<1>2. next \in 1..(NArrivals + 1) /\ row \in [Rows -> {"none", "flagged", "plain"}]
  BY ReviewAssumption DEF QueueInit
<1>3. QED
  BY <1>1, <1>2 DEF QueueInit, QueueTypeOK

\* QueueTypeOK holds in every reachable state.
THEOREM ReviewTypes == QueueSpec => []QueueTypeOK
<1>1. QED
  BY QueueTypeInit, QueueTypeStep, PTL DEF QueueSpec

-----------------------------------------------------------------------------
(***************************************************************************)
(* Nothing is forgotten.                                                   *)
(***************************************************************************)
\* Rows that have not arrived yet are not there.
RowsToCome == \A i \in Rows : i >= next => row[i] = "none"

ForgottenInv == QueueTypeOK /\ RowsToCome /\ NothingForgotten

\* Rows arrive in order, and only rows that have arrived are named.
LEMMA ToComeStep == QueueTypeOK /\ RowsToCome /\ [QueueNext]_queueVars => RowsToCome'
<1> SUFFICES ASSUME QueueTypeOK, RowsToCome, [QueueNext]_queueVars, NEW i \in Rows, i >= next'
             PROVE row'[i] = "none"
  BY DEF RowsToCome
<1> USE ReviewAssumption DEF QueueTypeOK, RowsToCome, Rows
<1>1. CASE Arrive
  BY <1>1 DEF Arrive
<1>2. ASSUME NEW j \in Rows, Undo(j) PROVE row'[i] = "none"
  BY <1>2 DEF Undo, Stored
<1>3. ASSUME NEW j \in Rows, NEW a \in Offered, Label(j, a) PROVE row'[i] = "none"
  BY <1>3 DEF Label, Stored
<1>4. CASE UNCHANGED <<next, row>>
  BY <1>4
<1>5. QED
  BY <1>1, <1>2, <1>3, <1>4 DEF QueueNext, Ingest, Retrain, AppendExamples, KilledAppending, Killed,
                                queueVars

\* What a subject that is concerned has before a step.
LEMMA Kept ==
  ASSUME NothingForgotten, NEW s \in concerned
  PROVE  labels[s] # {} \/ \E i \in Rows : row[i] = "flagged" /\ Arrivals[i] = s
BY DEF NothingForgotten, Flagged

\* A step that flags a row or labels its subject keeps the promise for that
\* subject; every other one keeps its labels and its flagged rows.
LEMMA ForgottenStep == ForgottenInv /\ [QueueNext]_queueVars => NothingForgotten'
<1> SUFFICES ASSUME ForgottenInv, [QueueNext]_queueVars, NEW s \in concerned'
             PROVE labels'[s] # {} \/ \E i \in Rows : row'[i] = "flagged" /\ Arrivals[i] = s
  BY DEF NothingForgotten, Flagged
<1> USE ReviewAssumption DEF QueueTypeOK, ForgottenInv
<1>0. s \in Subjects
  BY QueueTypeStep
<1>1. CASE Arrive
  <2>1. CASE s \in concerned
    BY <1>1, <2>1, Kept DEF Arrive, RowsToCome, Rows
  <2>2. CASE s \notin concerned
    BY <1>1, <2>2 DEF Arrive
  <2>3. QED
    BY <2>1, <2>2
<1>2. ASSUME NEW j \in Rows, Undo(j)
      PROVE labels'[s] # {} \/ \E i \in Rows : row'[i] = "flagged" /\ Arrivals[i] = s
  <2>1. CASE s = Arrivals[j]
    BY <1>2, <2>1 DEF Undo
  <2>2. CASE s # Arrivals[j]
    BY <1>0, <1>2, <2>2, Kept DEF Undo
  <2>3. QED
    BY <2>1, <2>2
<1>3. ASSUME NEW j \in Rows, NEW a \in Offered, Label(j, a)
      PROVE labels'[s] # {} \/ \E i \in Rows : row'[i] = "flagged" /\ Arrivals[i] = s
  <2>1. CASE s = Arrivals[j]
    BY <1>0, <1>3, <2>1 DEF Label
  <2>2. CASE s # Arrivals[j]
    BY <1>0, <1>3, <2>2, Kept DEF Label
  <2>3. QED
    BY <2>1, <2>2
<1>4. ASSUME NEW truths \in Reviews, Ingest(truths)
      PROVE labels'[s] # {} \/ \E i \in Rows : row'[i] = "flagged" /\ Arrivals[i] = s
  <2>1. CASE s \in concerned
    BY <1>0, <1>4, <2>1, Kept DEF Ingest
  <2>2. CASE s \notin concerned
    <3>1. PICK e \in truths : e[1] = s
      BY <1>4, <2>2 DEF Ingest
    <3>2. e \in Examples /\ e = <<s, e[2]>> /\ e[2] \in LabelActions
      BY <3>1, ReviewsAreExamples DEF Examples
    <3>3. e[2] \in labels'[s]
      BY <1>0, <1>4, <3>1, <3>2 DEF Ingest
    <3>4. QED
      BY <3>3
  <2>3. QED
    BY <2>1, <2>2
<1>5. CASE UNCHANGED <<row, labels, concerned>>
  BY <1>5, Kept
<1>6. QED
  BY <1>1, <1>2, <1>3, <1>4, <1>5 DEF QueueNext, Retrain, AppendExamples, KilledAppending, Killed, queueVars

\* Whatever was flagged or labelled has a label or a flagged row.
THEOREM ForgottenProved == QueueSpec => []NothingForgotten
<1>1. QueueInit => ForgottenInv
  BY ReviewAssumption, QueueTypeInit DEF QueueInit, ForgottenInv, RowsToCome, NothingForgotten
<1>2. ForgottenInv /\ [QueueNext]_queueVars => ForgottenInv'
  BY QueueTypeStep, ToComeStep, ForgottenStep DEF ForgottenInv
<1>3. ForgottenInv => NothingForgotten
  BY DEF ForgottenInv
<1>4. QED
  BY <1>1, <1>2, <1>3, PTL DEF QueueSpec

-----------------------------------------------------------------------------
(***************************************************************************)
(* An empty queue.                                                         *)
(***************************************************************************)
\* The newest n of a finite set of rows are n of them, or all.
LEMMA NewestCount ==
  ASSUME NEW ids \in SUBSET Rows, NEW n \in Nat, NEW i \in ids, i \notin Newest(ids, n)
  PROVE  Cardinality({j \in ids : j > i}) >= n
<1>1. IsFiniteSet(Rows)
  BY ReviewAssumption, FS_Interval DEF Rows
<1>2. IsFiniteSet({j \in ids : j > i})
  BY <1>1, FS_Subset
<1>3. Cardinality({j \in ids : j > i}) \in Nat
  BY <1>2, FS_CardinalityType
<1>4. QED
  BY <1>3 DEF Newest

\* A set of rows that is not empty has a last one.
LEMMA LastRow ==
  ASSUME NEW ids \in SUBSET Rows, ids # {}
  PROVE  \E i \in ids : \A j \in ids : j <= i
<1> DEFINE back == {NArrivals - i : i \in ids}
<1>1. \A i \in ids : i \in Nat /\ NArrivals - i \in Nat
  BY ReviewAssumption DEF Rows
<1>2. back \subseteq Nat /\ back # {}
  BY <1>1
<1>3. PICK x \in back : \A y \in back : <<y, x>> \notin Below
  BY <1>2, BelowIsWellFounded, WFMin
<1>4. PICK i \in ids : x = NArrivals - i
  BY <1>3
<1>5. ASSUME NEW j \in ids PROVE j <= i
  <2>1. NArrivals - j \in back /\ NArrivals - j \in Nat /\ x \in Nat
    BY <1>1, <1>2
  <2>2. ~(NArrivals - j < x)
    BY <1>3, <2>1 DEF Below
  <2>3. NArrivals \in Nat /\ i \in Nat /\ j \in Nat
    BY <1>1, ReviewAssumption
  <2>4. QED
    BY <1>4, <2>2, <2>3
<1>6. QED
  BY <1>5

\* If the queue is empty, the last flagged row without a label of its subject
\* is beyond those that were read, and the rows after it are all leftovers.
LEMMA QueueTells ==
  ASSUME QueueTypeOK, NothingForgotten
  PROVE  ClearMeansDone
<1> SUFFICES ASSUME Queue = {}, Cardinality(Leftovers) < 3 * Limit,
                    NEW s \in concerned, labels[s] = {}
             PROVE FALSE
  BY DEF ClearMeansDone
<1> DEFINE open == {i \in Flagged : labels[Arrivals[i]] = {}}
           read == Newest(Flagged, 3 * Limit)
           shown == {i \in read : labels[Arrivals[i]] = {}}
<1>1. Limit \in Nat \ {0} /\ 3 * Limit \in Nat
  BY ReviewAssumption
<1>2. open # {} /\ open \subseteq Flagged /\ Flagged \subseteq Rows
  BY DEF NothingForgotten, Flagged
<1>3. PICK m \in open : \A j \in open : j <= m
  BY <1>2, LastRow
<1>4. shown = {}
  <2> SUFFICES ASSUME shown # {} PROVE FALSE
    OBVIOUS
  <2>1. shown \subseteq Rows
    BY <1>2 DEF Newest
  <2>2. PICK k \in shown : \A j \in shown : j <= k
    BY <2>1, LastRow
  <2>3. \A j \in shown : j \in Int
    BY <2>1, ReviewAssumption DEF Rows
  <2>4. {j \in shown : j > k} = {}
    BY <2>2, <2>3
  <2>5. Cardinality({j \in shown : j > k}) = 0
    BY <2>4, FS_EmptySet
  <2>6. k \in Newest(shown, Limit)
    <3> HIDE DEF shown
    <3> QED BY <1>1, <2>2, <2>5 DEF Newest
  <2>7. QED
    BY <2>6 DEF Queue
<1>5. m \notin read
  BY <1>3, <1>4
<1>6. Cardinality({j \in Flagged : j > m}) >= 3 * Limit
  BY <1>1, <1>2, <1>3, <1>5, NewestCount
<1>7. {j \in Flagged : j > m} \subseteq Leftovers
  <2>1. \A j \in Flagged : j \in Int
    BY <1>2, ReviewAssumption DEF Rows
  <2>2. QED
    BY <1>2, <1>3, <2>1 DEF Leftovers
<1>8. IsFiniteSet(Leftovers)
  <2>1. IsFiniteSet(Rows)
    BY ReviewAssumption, FS_Interval DEF Rows
  <2>2. QED
    BY <1>2, <2>1, FS_Subset DEF Leftovers
<1>9. /\ Cardinality(Leftovers) \in Nat /\ Cardinality({j \in Flagged : j > m}) \in Nat
      /\ Cardinality({j \in Flagged : j > m}) <= Cardinality(Leftovers)
  BY <1>7, <1>8, FS_Subset, FS_CardinalityType
<1>10. QED
  BY <1>1, <1>6, <1>9

\* An empty queue means that everything is labelled, while leftovers are few.
THEOREM ClearProved == QueueSpec => []ClearMeansDone
<1>1. QueueTypeOK /\ NothingForgotten => ClearMeansDone
  BY QueueTells
<1>2. QED
  BY <1>1, ReviewTypes, ForgottenProved, PTL

-----------------------------------------------------------------------------
(***************************************************************************)
(* What the classifier is taught.                                          *)
(***************************************************************************)
\* Labels that are there, and those a script has read, were committed.
TaughtInv ==
  /\ QueueTypeOK /\ TaughtWasLabelled
  /\ \A s \in Subjects : \A a \in labels[s] : <<s, a>> \in given
  /\ \A x \in Scripts : batch[x] \subseteq given

\* Every step keeps TaughtInv.
LEMMA TaughtStep == TaughtInv /\ [QueueNext]_queueVars => TaughtInv'
<1> SUFFICES ASSUME TaughtInv, [QueueNext]_queueVars PROVE TaughtInv'
  OBVIOUS
<1> USE ReviewAssumption DEF TaughtInv, TaughtWasLabelled, QueueTypeOK
<1>0. QueueTypeOK'
  BY QueueTypeStep
<1>1. CASE Arrive
  BY <1>0, <1>1 DEF Arrive
<1>2. ASSUME NEW i \in Rows, Undo(i) PROVE TaughtInv'
  BY <1>0, <1>2 DEF Undo
<1>3. ASSUME NEW i \in Rows, NEW a \in Offered, Label(i, a) PROVE TaughtInv'
  BY <1>0, <1>3 DEF Label
<1>4. ASSUME NEW truths \in Reviews, Ingest(truths) PROVE TaughtInv'
  <2>1. \A s \in Subjects : \A a \in labels'[s] : <<s, a>> \in given'
    BY <1>4 DEF Ingest
  <2>2. \A x \in Scripts : batch'[x] \subseteq given'
    BY <1>4 DEF Ingest
  <2>3. TaughtWasLabelled'
    BY <1>4 DEF Ingest
  <2>4. QED
    BY <1>0, <2>1, <2>2, <2>3
<1>5. CASE Retrain
  <2>1. \A e \in Examples : e[1] \in Subjects /\ e = <<e[1], e[2]>>
    BY DEF Examples
  <2>2. QED
    BY <1>0, <1>5, <2>1 DEF Retrain
<1>6. ASSUME NEW x \in Scripts, AppendExamples(x) \/ KilledAppending(x) \/ Killed(x) PROVE TaughtInv'
  BY <1>0, <1>6 DEF AppendExamples, KilledAppending, Killed
<1>7. CASE UNCHANGED queueVars
  BY <1>0, <1>7 DEF queueVars
<1>8. QED
  BY <1>1, <1>2, <1>3, <1>4, <1>5, <1>6, <1>7 DEF QueueNext

\* Every reviewed example the classifier is taught was committed as a label.
THEOREM TaughtProved == QueueSpec => []TaughtWasLabelled
<1>1. QueueInit => TaughtInv
  BY QueueTypeInit DEF QueueInit, TaughtInv, TaughtWasLabelled
<1>2. TaughtInv => TaughtWasLabelled
  BY DEF TaughtInv
<1>3. QED
  BY <1>1, <1>2, TaughtStep, PTL DEF QueueSpec
=============================================================================
