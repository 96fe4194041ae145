----------------------------- MODULE MqttTopic -----------------------------
(***************************************************************************)
(* MQTT_MatchTopic of coreMQTT (core_mqtt.c): does a topic name match a    *)
(* filter with the wildcards + and #.  A topic is a sequence of characters.*)
(***************************************************************************)
EXTENDS Integers, Sequences, FiniteSets, SequencesExt

\* Faulty: a filter that ends in "/#" does not match the level above it.
EndsForgetParent(filter, j) ==
  j = Len(filter) - 1 /\ filter[j] = "/" /\ filter[j + 1] \in {"+", "#"}

\* matchEndWildcardsSpecialCases: the name ends at filter[j], and what is left
\* of the filter is "/#", or "+" or "#" behind the "/" at j.
MatchEndWildcards(filter, j) ==
  \/ j = Len(filter) - 2 /\ filter[j + 1] = "/" /\ filter[j + 2] = "#"
  \/ j = Len(filter) - 1 /\ filter[j] = "/" /\ filter[j + 1] \in {"+", "#"}

\* matchWildcards, at different characters name[i] and filter[j]: the verdict,
\* or where to go on.
MatchWildcards(name, i, filter, j) ==
  LET begins == j = 1 \/ filter[j - 1] = "/"
      slashes == {k \in i .. Len(name) : name[k] = "/"}
      slash == CHOOSE k \in slashes : \A l \in slashes : k <= l
      filterGoesOn == j < Len(filter) /\ filter[j + 1] = "/"
      stop(found) == [stop |-> TRUE, found |-> found, i |-> i, j |-> j]
  IN CASE begins /\ filter[j] = "+" ->
            IF slashes = {} THEN [stop |-> FALSE, found |-> FALSE, i |-> Len(name), j |-> j]
            ELSE IF filterGoesOn THEN [stop |-> FALSE, found |-> FALSE, i |-> slash, j |-> j + 1]
            ELSE stop(FALSE)
       [] begins /\ filter[j] = "#" -> stop(j = Len(filter))
       [] OTHER -> stop(FALSE)

\* matchTopicFilter
MatchTopicFilter(name, filter) ==
  LET match[i \in 1 .. Len(name) + 1] ==
        [j \in 1 .. Len(filter) + 1 |->
           LET w == MatchWildcards(name, i, filter, j)
           IN IF i > Len(name) \/ j > Len(filter) THEN i > Len(name) /\ j > Len(filter)
              ELSE IF name[i] = filter[j]
                   THEN (i = Len(name) /\ MatchEndWildcards(filter, j)) \/ match[i + 1][j + 1]
              ELSE IF w.stop THEN w.found ELSE match[w.i + 1][w.j + 1]]
  IN match[1][1]

\* MQTT_MatchTopic, of a name and a filter that are not empty.
MatchTopic(name, filter) ==
  \/ name = filter
  \/ ~(name[1] = "$" /\ filter[1] \in {"+", "#"}) /\ MatchTopicFilter(name, filter)

-----------------------------------------------------------------------------
(* MQTT 3.1.1, section 4.7: topics by their levels.                        *)

\* From each place on: what is left of the level there, and the levels behind.
LevelsFrom(s) ==
  LET from[i \in 1 .. Len(s) + 1] ==
        IF i > Len(s) THEN << <<>> >>
        ELSE IF s[i] = "/" THEN << <<>> >> \o from[i + 1]
        ELSE << <<s[i]>> \o Head(from[i + 1]) >> \o Tail(from[i + 1])
  IN from
Levels(s) == LevelsFrom(s)[1]

ValidName(s) == s # <<>> /\ ToSet(s) \cap {"+", "#"} = {}
ValidFilter(s) ==
  LET F == Levels(s)
  IN s # <<>> /\ \A k \in DOMAIN F : \A c \in {"+", "#"} :
       c \in ToSet(F[k]) => F[k] = <<c>> /\ (c = "#" => k = Len(F))

Matches(name, filter) ==
  LET N == Levels(name)
      F == Levels(filter)
      fits(k) == F[k] \in {N[k], <<"+">>}
  IN /\ ~(name[1] = "$" /\ filter[1] \in {"+", "#"})
     /\ IF F[Len(F)] = <<"#">> THEN Len(N) >= Len(F) - 1 /\ \A k \in 1 .. Len(F) - 1 : fits(k)
        ELSE Len(N) = Len(F) /\ \A k \in DOMAIN F : fits(k)

\* What the code leaves unmatched though it matches.  A name ends in a level
\* that a "+" matches, with only "/#" behind it; or a name ends in an empty
\* level behind one that a "+" matches, and a wildcard stands for the rest.
Missed(name, filter) ==
  LET n == Len(Levels(name))
      F == Levels(filter)
  IN \/ Len(F) = n + 1 /\ F[n] = <<"+">> /\ F[n + 1] = <<"#">>
     \/ /\ n >= 2 /\ Levels(name)[n] = <<>> /\ Len(F) >= n /\ F[n - 1] = <<"+">>
        /\ F[n] # <<>> \/ Len(F) > n
=============================================================================
