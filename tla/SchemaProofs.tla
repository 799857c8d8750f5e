---------------------------- MODULE SchemaProofs ----------------------------
(* Theorems about Schema for every set of migrators and every bound.         *)
EXTENDS Schema, SequenceTheorems, TLAPS

(* One list behind another.                                                  *)
LEMMA TwoLists ==
    ASSUME NEW S, NEW s \in Seq(S), NEW t \in Seq(S)
    PROVE  /\ s \o t \in Seq(S) /\ Len(s \o t) = Len(s) + Len(t)
           /\ \A i \in 1..Len(s) : (s \o t)[i] = s[i]
           /\ \A i \in Nat : i > Len(s) /\ i <= Len(s) + Len(t) => (s \o t)[i] = t[i - Len(s)]
OBVIOUS

(* A function on 1..n is a list.                                             *)
LEMMA ListOf ==
    ASSUME NEW S, NEW n \in Nat, NEW s \in [1..n -> S]
    PROVE  s \in Seq(S) /\ Len(s) = n
<1>1. s \in Seq(S)
  BY SeqDef
<1> QED
  BY <1>1

(* The script of upgrade() as one list.                                      *)
LEMMA UpgradeIs ==
    /\ Len(Upgrade) = 13 /\ DOMAIN Upgrade = 1..13
    /\ Upgrade[1] = Table("users", {})
    /\ Upgrade[2] = Table("organizations", {})
    /\ Upgrade[3] = Table("user_organizations",
                          {<<"users", "CASCADE">>, <<"organizations", "CASCADE">>})
    /\ Upgrade[4] = Table("projects", {<<"organizations", "CASCADE">>})
    /\ Upgrade[5] = Table("api_keys", {<<"projects", "CASCADE">>})
    /\ Upgrade[6] = Table("services", {<<"projects", "CASCADE">>})
    /\ Upgrade[7] = Table("endpoints", {<<"services", "CASCADE">>})
    /\ Upgrade[8] = Table("telemetry_events",
                          {<<"services", "CASCADE">>, <<"endpoints", "SET NULL">>})
    /\ Upgrade[9] = Table("metric_aggregates",
                          {<<"services", "CASCADE">>, <<"endpoints", "SET NULL">>})
    /\ Upgrade[10] = Table("incidents",
                           {<<"projects", "CASCADE">>, <<"services", "CASCADE">>})
    /\ Upgrade[11] = Table("anomalies",
                           {<<"services", "CASCADE">>, <<"endpoints", "SET NULL">>,
                            <<"metric_aggregates", "SET NULL">>, <<"incidents", "SET NULL">>})
    /\ Upgrade[12] = Table("incident_evidence", {<<"incidents", "CASCADE">>})
    /\ Upgrade[13] = Table("ai_explanations", {<<"incidents", "CASCADE">>})
<1> DEFINE T == {AccountTables[i] : i \in 1..5} \cup {TelemetryTables[i] : i \in 1..4}
                  \cup {IncidentTables[i] : i \in 1..4}
<1>1. AccountTables \in Seq(T) /\ Len(AccountTables) = 5
  <2>1. AccountTables \in [1..5 -> T]
    <3>1. AccountTables = [i \in 1..5 |-> AccountTables[i]]
      BY DEF AccountTables
    <3> QED
      BY <3>1
  <2> HIDE DEF T
  <2> QED
    BY <2>1, ListOf
<1>2. TelemetryTables \in Seq(T) /\ Len(TelemetryTables) = 4
  <2>1. TelemetryTables \in [1..4 -> T]
    <3>1. TelemetryTables = [i \in 1..4 |-> TelemetryTables[i]]
      BY DEF TelemetryTables
    <3> QED
      BY <3>1
  <2> HIDE DEF T
  <2> QED
    BY <2>1, ListOf
<1>3. IncidentTables \in Seq(T) /\ Len(IncidentTables) = 4
  <2>1. IncidentTables \in [1..4 -> T]
    <3>1. IncidentTables = [i \in 1..4 |-> IncidentTables[i]]
      BY DEF IncidentTables
    <3> QED
      BY <3>1
  <2> HIDE DEF T
  <2> QED
    BY <2>1, ListOf
<1> HIDE DEF T
<1>4. /\ Upgrade \in Seq(T) /\ Len(Upgrade) = 13
      /\ \A i \in 1..5 : Upgrade[i] = AccountTables[i]
      /\ \A i \in 6..9 : Upgrade[i] = TelemetryTables[i - 5]
      /\ \A i \in 10..13 : Upgrade[i] = IncidentTables[i - 9]
  <2>1. PICK v : v = AccountTables \o TelemetryTables
    OBVIOUS
  <2>2. /\ v \in Seq(T) /\ Len(v) = Len(AccountTables) + Len(TelemetryTables)
        /\ \A i \in 1..Len(AccountTables) : v[i] = AccountTables[i]
        /\ \A i \in Nat :
             i > Len(AccountTables) /\ i <= Len(AccountTables) + Len(TelemetryTables)
               => v[i] = TelemetryTables[i - Len(AccountTables)]
    BY <1>1, <1>2, <2>1, TwoLists, Zenon
  <2>3. v \in Seq(T) /\ Len(v) = 9
    BY <1>1, <1>2, <2>2
  <2>t. v \in Seq(T) /\ IncidentTables \in Seq(T)
    BY <1>3, <2>3
  <2>4. PICK w : w = v \o IncidentTables
    OBVIOUS
  <2>5. /\ w \in Seq(T) /\ Len(w) = Len(v) + Len(IncidentTables)
        /\ \A i \in 1..Len(v) : w[i] = v[i]
        /\ \A i \in Nat : i > Len(v) /\ i <= Len(v) + Len(IncidentTables)
                            => w[i] = IncidentTables[i - Len(v)]
    BY <2>t, <2>4, TwoLists, Zenon
  <2>6. \A i \in 6..9 : w[i] = v[i] /\ v[i] = TelemetryTables[i - 5]
    BY <1>1, <1>2, <2>2, <2>3, <2>5
  <2>7. ASSUME NEW i \in 10..13 PROVE w[i] = IncidentTables[i - 9]
    <3>1. Len(IncidentTables) = 4 /\ Len(v) = 9
      BY <1>3, <2>3
    <3>2. i \in Nat /\ i > Len(v) /\ i <= Len(v) + Len(IncidentTables)
      BY <3>1
    <3>3. w[i] = IncidentTables[i - Len(v)]
      BY <2>5, <3>2, Zenon
    <3> QED
      BY <3>1, <3>3, Zenon
  <2>8. \A i \in 1..5 : w[i] = v[i] /\ v[i] = AccountTables[i]
    BY <1>1, <2>2, <2>3, <2>5
  <2>9. Upgrade = w
    BY <2>1, <2>4 DEF Upgrade
  <2> QED
    BY <1>3, <2>3, <2>5, <2>6, <2>7, <2>8, <2>9
<1>5. DOMAIN Upgrade = 1..13
  BY <1>4, LenProperties
<1>6. /\ Upgrade[1] = AccountTables[1] /\ Upgrade[2] = AccountTables[2]
      /\ Upgrade[3] = AccountTables[3] /\ Upgrade[4] = AccountTables[4]
      /\ Upgrade[5] = AccountTables[5]
      /\ Upgrade[6] = TelemetryTables[1] /\ Upgrade[7] = TelemetryTables[2]
      /\ Upgrade[8] = TelemetryTables[3] /\ Upgrade[9] = TelemetryTables[4]
      /\ Upgrade[10] = IncidentTables[1] /\ Upgrade[11] = IncidentTables[2]
      /\ Upgrade[12] = IncidentTables[3] /\ Upgrade[13] = IncidentTables[4]
  BY <1>4
<1> QED
  BY <1>4, <1>5, <1>6 DEF AccountTables, TelemetryTables, IncidentTables

(* The place of a table in the script of upgrade().                          *)
Rank(t) ==
    CASE t = "users" -> 1
      [] t = "organizations" -> 2
      [] t = "user_organizations" -> 3
      [] t = "projects" -> 4
      [] t = "api_keys" -> 5
      [] t = "services" -> 6
      [] t = "endpoints" -> 7
      [] t = "telemetry_events" -> 8
      [] t = "metric_aggregates" -> 9
      [] t = "incidents" -> 10
      [] t = "anomalies" -> 11
      [] t = "incident_evidence" -> 12
      [] t = "ai_explanations" -> 13

(* The ranks of the tables.                                                  *)
LEMMA Ranks ==
    /\ Rank("users") = 1 /\ Rank("organizations") = 2 /\ Rank("user_organizations") = 3
    /\ Rank("projects") = 4 /\ Rank("api_keys") = 5 /\ Rank("services") = 6
    /\ Rank("endpoints") = 7 /\ Rank("telemetry_events") = 8
    /\ Rank("metric_aggregates") = 9 /\ Rank("incidents") = 10 /\ Rank("anomalies") = 11
    /\ Rank("incident_evidence") = 12 /\ Rank("ai_explanations") = 13
BY DEF Rank

(* The fields of a table.                                                    *)
LEMMA TableHas ==
    ASSUME NEW name, NEW references
    PROVE  Table(name, references).name = name /\ Table(name, references).references = references
BY DEF Table

(* The names of the tables in the order of the script.                       *)
LEMMA NamesOfUpgrade ==
    /\ Upgrade[1].name = "users"
    /\ Upgrade[2].name = "organizations"
    /\ Upgrade[3].name = "user_organizations"
    /\ Upgrade[4].name = "projects"
    /\ Upgrade[5].name = "api_keys"
    /\ Upgrade[6].name = "services"
    /\ Upgrade[7].name = "endpoints"
    /\ Upgrade[8].name = "telemetry_events"
    /\ Upgrade[9].name = "metric_aggregates"
    /\ Upgrade[10].name = "incidents"
    /\ Upgrade[11].name = "anomalies"
    /\ Upgrade[12].name = "incident_evidence"
    /\ Upgrade[13].name = "ai_explanations"
<1>1. Upgrade[1].name = "users"
  <2>1. PICK r : Upgrade[1] = Table("users", r)
    BY UpgradeIs, Zenon
  <2> QED
    BY <2>1, TableHas
<1>2. Upgrade[2].name = "organizations"
  <2>1. PICK r : Upgrade[2] = Table("organizations", r)
    BY UpgradeIs, Zenon
  <2> QED
    BY <2>1, TableHas
<1>3. Upgrade[3].name = "user_organizations"
  <2>1. PICK r : Upgrade[3] = Table("user_organizations", r)
    BY UpgradeIs, Zenon
  <2> QED
    BY <2>1, TableHas
<1>4. Upgrade[4].name = "projects"
  <2>1. PICK r : Upgrade[4] = Table("projects", r)
    BY UpgradeIs, Zenon
  <2> QED
    BY <2>1, TableHas
<1>5. Upgrade[5].name = "api_keys"
  <2>1. PICK r : Upgrade[5] = Table("api_keys", r)
    BY UpgradeIs, Zenon
  <2> QED
    BY <2>1, TableHas
<1>6. Upgrade[6].name = "services"
  <2>1. PICK r : Upgrade[6] = Table("services", r)
    BY UpgradeIs, Zenon
  <2> QED
    BY <2>1, TableHas
<1>7. Upgrade[7].name = "endpoints"
  <2>1. PICK r : Upgrade[7] = Table("endpoints", r)
    BY UpgradeIs, Zenon
  <2> QED
    BY <2>1, TableHas
<1>8. Upgrade[8].name = "telemetry_events"
  <2>1. PICK r : Upgrade[8] = Table("telemetry_events", r)
    BY UpgradeIs, Zenon
  <2> QED
    BY <2>1, TableHas
<1>9. Upgrade[9].name = "metric_aggregates"
  <2>1. PICK r : Upgrade[9] = Table("metric_aggregates", r)
    BY UpgradeIs, Zenon
  <2> QED
    BY <2>1, TableHas
<1>10. Upgrade[10].name = "incidents"
  <2>1. PICK r : Upgrade[10] = Table("incidents", r)
    BY UpgradeIs, Zenon
  <2> QED
    BY <2>1, TableHas
<1>11. Upgrade[11].name = "anomalies"
  <2>1. PICK r : Upgrade[11] = Table("anomalies", r)
    BY UpgradeIs, Zenon
  <2> QED
    BY <2>1, TableHas
<1>12. Upgrade[12].name = "incident_evidence"
  <2>1. PICK r : Upgrade[12] = Table("incident_evidence", r)
    BY UpgradeIs, Zenon
  <2> QED
    BY <2>1, TableHas
<1>13. Upgrade[13].name = "ai_explanations"
  <2>1. PICK r : Upgrade[13] = Table("ai_explanations", r)
    BY UpgradeIs, Zenon
  <2> QED
    BY <2>1, TableHas
<1> QED
  BY <1>1, <1>2, <1>3, <1>4, <1>5, <1>6, <1>7, <1>8, <1>9, <1>10, <1>11, <1>12, <1>13

(* The tables are in the script in the order of their ranks, each once.      *)
LEMMA RankOfUpgrade == \A i \in 1..13 : Rank(Upgrade[i].name) = i
BY NamesOfUpgrade, Ranks

(* The tables, and what each refers to.                                      *)
LEMMA TableOfRank ==
    /\ \A t \in Tables : Rank(t) \in 1..13 /\ Upgrade[Rank(t)].name = t
    /\ \A i \in 1..13 : Upgrade[i].name \in Tables
<1>1. Tables = {Upgrade[i].name : i \in 1..13}
  BY UpgradeIs DEF Tables
<1> QED
  BY <1>1, RankOfUpgrade

(* What a table refers to.                                                   *)
LEMMA ReferencesOf ==
    ASSUME NEW t \in Tables
    PROVE  References(t) = Upgrade[Rank(t)].references
<1>1. ToSet(Upgrade) = {Upgrade[i] : i \in 1..13}
  BY UpgradeIs DEF ToSet
<1>2. {u \in ToSet(Upgrade) : u.name = t} = {Upgrade[Rank(t)]}
  BY <1>1, TableOfRank, RankOfUpgrade
<1>3. {table.references : table \in {u \in ToSet(Upgrade) : u.name = t}}
        = {Upgrade[Rank(t)].references}
  BY <1>2, Zenon
<1> QED
  BY <1>3, Zenon DEF References

(* The tables of the schema.                                                 *)
LEMMA TableNames ==
    Tables = {"users", "organizations", "user_organizations", "projects",
              "api_keys", "services", "endpoints", "telemetry_events",
              "metric_aggregates", "incidents", "anomalies", "incident_evidence",
              "ai_explanations"}
<1>1. Tables = {Upgrade[i].name : i \in 1..13}
  BY UpgradeIs DEF Tables
<1> QED
  BY <1>1, NamesOfUpgrade

(* What each table refers to.                                                *)
LEMMA ReferencesAre ==
    /\ References("users") = {}
    /\ References("organizations") = {}
    /\ References("user_organizations") =
         {<<"users", "CASCADE">>, <<"organizations", "CASCADE">>}
    /\ References("projects") = {<<"organizations", "CASCADE">>}
    /\ References("api_keys") = {<<"projects", "CASCADE">>}
    /\ References("services") = {<<"projects", "CASCADE">>}
    /\ References("endpoints") = {<<"services", "CASCADE">>}
    /\ References("telemetry_events") =
         {<<"services", "CASCADE">>, <<"endpoints", "SET NULL">>}
    /\ References("metric_aggregates") =
         {<<"services", "CASCADE">>, <<"endpoints", "SET NULL">>}
    /\ References("incidents") = {<<"projects", "CASCADE">>, <<"services", "CASCADE">>}
    /\ References("anomalies") =
         {<<"services", "CASCADE">>, <<"endpoints", "SET NULL">>,
          <<"metric_aggregates", "SET NULL">>, <<"incidents", "SET NULL">>}
    /\ References("incident_evidence") = {<<"incidents", "CASCADE">>}
    /\ References("ai_explanations") = {<<"incidents", "CASCADE">>}
<1>1. References("users") = {}
  <2>1. References("users") = Upgrade[1].references
    BY ReferencesOf, Ranks, TableNames
  <2>2. PICK r : r = {}
    OBVIOUS
  <2>3. Upgrade[1] = Table("users", r)
    BY UpgradeIs, <2>2, Zenon
  <2>4. r = References("users")
    BY <2>1, <2>3, TableHas
  <2> QED
    BY <2>2, <2>4, Zenon
<1>2. References("organizations") = {}
  <2>1. References("organizations") = Upgrade[2].references
    BY ReferencesOf, Ranks, TableNames
  <2>2. PICK r : r = {}
    OBVIOUS
  <2>3. Upgrade[2] = Table("organizations", r)
    BY UpgradeIs, <2>2, Zenon
  <2>4. r = References("organizations")
    BY <2>1, <2>3, TableHas
  <2> QED
    BY <2>2, <2>4, Zenon
<1>3. References("user_organizations") = {<<"users", "CASCADE">>, <<"organizations", "CASCADE">>}
  <2>1. References("user_organizations") = Upgrade[3].references
    BY ReferencesOf, Ranks, TableNames
  <2>2. PICK r : r = {<<"users", "CASCADE">>, <<"organizations", "CASCADE">>}
    OBVIOUS
  <2>3. Upgrade[3] = Table("user_organizations", r)
    BY UpgradeIs, <2>2, Zenon
  <2>4. r = References("user_organizations")
    BY <2>1, <2>3, TableHas
  <2> QED
    BY <2>2, <2>4, Zenon
<1>4. References("projects") = {<<"organizations", "CASCADE">>}
  <2>1. References("projects") = Upgrade[4].references
    BY ReferencesOf, Ranks, TableNames
  <2>2. PICK r : r = {<<"organizations", "CASCADE">>}
    OBVIOUS
  <2>3. Upgrade[4] = Table("projects", r)
    BY UpgradeIs, <2>2, Zenon
  <2>4. r = References("projects")
    BY <2>1, <2>3, TableHas
  <2> QED
    BY <2>2, <2>4, Zenon
<1>5. References("api_keys") = {<<"projects", "CASCADE">>}
  <2>1. References("api_keys") = Upgrade[5].references
    BY ReferencesOf, Ranks, TableNames
  <2>2. PICK r : r = {<<"projects", "CASCADE">>}
    OBVIOUS
  <2>3. Upgrade[5] = Table("api_keys", r)
    BY UpgradeIs, <2>2, Zenon
  <2>4. r = References("api_keys")
    BY <2>1, <2>3, TableHas
  <2> QED
    BY <2>2, <2>4, Zenon
<1>6. References("services") = {<<"projects", "CASCADE">>}
  <2>1. References("services") = Upgrade[6].references
    BY ReferencesOf, Ranks, TableNames
  <2>2. PICK r : r = {<<"projects", "CASCADE">>}
    OBVIOUS
  <2>3. Upgrade[6] = Table("services", r)
    BY UpgradeIs, <2>2, Zenon
  <2>4. r = References("services")
    BY <2>1, <2>3, TableHas
  <2> QED
    BY <2>2, <2>4, Zenon
<1>7. References("endpoints") = {<<"services", "CASCADE">>}
  <2>1. References("endpoints") = Upgrade[7].references
    BY ReferencesOf, Ranks, TableNames
  <2>2. PICK r : r = {<<"services", "CASCADE">>}
    OBVIOUS
  <2>3. Upgrade[7] = Table("endpoints", r)
    BY UpgradeIs, <2>2, Zenon
  <2>4. r = References("endpoints")
    BY <2>1, <2>3, TableHas
  <2> QED
    BY <2>2, <2>4, Zenon
<1>8. References("telemetry_events") = {<<"services", "CASCADE">>, <<"endpoints", "SET NULL">>}
  <2>1. References("telemetry_events") = Upgrade[8].references
    BY ReferencesOf, Ranks, TableNames
  <2>2. PICK r : r = {<<"services", "CASCADE">>, <<"endpoints", "SET NULL">>}
    OBVIOUS
  <2>3. Upgrade[8] = Table("telemetry_events", r)
    BY UpgradeIs, <2>2, Zenon
  <2>4. r = References("telemetry_events")
    BY <2>1, <2>3, TableHas
  <2> QED
    BY <2>2, <2>4, Zenon
<1>9. References("metric_aggregates") = {<<"services", "CASCADE">>, <<"endpoints", "SET NULL">>}
  <2>1. References("metric_aggregates") = Upgrade[9].references
    BY ReferencesOf, Ranks, TableNames
  <2>2. PICK r : r = {<<"services", "CASCADE">>, <<"endpoints", "SET NULL">>}
    OBVIOUS
  <2>3. Upgrade[9] = Table("metric_aggregates", r)
    BY UpgradeIs, <2>2, Zenon
  <2>4. r = References("metric_aggregates")
    BY <2>1, <2>3, TableHas
  <2> QED
    BY <2>2, <2>4, Zenon
<1>10. References("incidents") = {<<"projects", "CASCADE">>, <<"services", "CASCADE">>}
  <2>1. References("incidents") = Upgrade[10].references
    BY ReferencesOf, Ranks, TableNames
  <2>2. PICK r : r = {<<"projects", "CASCADE">>, <<"services", "CASCADE">>}
    OBVIOUS
  <2>3. Upgrade[10] = Table("incidents", r)
    BY UpgradeIs, <2>2, Zenon
  <2>4. r = References("incidents")
    BY <2>1, <2>3, TableHas
  <2> QED
    BY <2>2, <2>4, Zenon
<1>11. References("anomalies") =
      {<<"services", "CASCADE">>, <<"endpoints", "SET NULL">>,
       <<"metric_aggregates", "SET NULL">>, <<"incidents", "SET NULL">>}
  <2>1. References("anomalies") = Upgrade[11].references
    BY ReferencesOf, Ranks, TableNames
  <2>2. PICK r : r =
        {<<"services", "CASCADE">>, <<"endpoints", "SET NULL">>,
         <<"metric_aggregates", "SET NULL">>, <<"incidents", "SET NULL">>}
    OBVIOUS
  <2>3. Upgrade[11] = Table("anomalies", r)
    BY UpgradeIs, <2>2, Zenon
  <2>4. r = References("anomalies")
    BY <2>1, <2>3, TableHas
  <2> QED
    BY <2>2, <2>4, Zenon
<1>12. References("incident_evidence") = {<<"incidents", "CASCADE">>}
  <2>1. References("incident_evidence") = Upgrade[12].references
    BY ReferencesOf, Ranks, TableNames
  <2>2. PICK r : r = {<<"incidents", "CASCADE">>}
    OBVIOUS
  <2>3. Upgrade[12] = Table("incident_evidence", r)
    BY UpgradeIs, <2>2, Zenon
  <2>4. r = References("incident_evidence")
    BY <2>1, <2>3, TableHas
  <2> QED
    BY <2>2, <2>4, Zenon
<1>13. References("ai_explanations") = {<<"incidents", "CASCADE">>}
  <2>1. References("ai_explanations") = Upgrade[13].references
    BY ReferencesOf, Ranks, TableNames
  <2>2. PICK r : r = {<<"incidents", "CASCADE">>}
    OBVIOUS
  <2>3. Upgrade[13] = Table("ai_explanations", r)
    BY UpgradeIs, <2>2, Zenon
  <2>4. r = References("ai_explanations")
    BY <2>1, <2>3, TableHas
  <2> QED
    BY <2>2, <2>4, Zenon
<1> QED
  BY <1>1, <1>2, <1>3, <1>4, <1>5, <1>6, <1>7, <1>8, <1>9, <1>10, <1>11, <1>12, <1>13, Zenon

(* The elements of a pair.                                                   *)
LEMMA PairOf ==
    ASSUME NEW a, NEW b, NEW pair, pair = <<a, b>>
    PROVE  pair[1] = a /\ pair[2] = b
OBVIOUS

(* The tables whose rows are kept as history.                                *)
History == {"anomalies", "telemetry_events"}

(* Every foreign key names a table created before its own and not one kept as*)
(* history, and has one of the two ON DELETE rules.                          *)
LEMMA KeysGoBack ==
    ASSUME NEW t \in Tables, NEW ref \in References(t)
    PROVE  \E p \in Tables, rule \in {"CASCADE", "SET NULL"} :
             ref = <<p, rule>> /\ Rank(p) < Rank(t) /\ p \notin History
<1>1. CASE t = "users"
  <2>1. ref \in {}
    BY <1>1, ReferencesAre, Zenon
  <2> QED
    BY <1>1, <2>1, Ranks, TableNames
<1>2. CASE t = "organizations"
  <2>1. ref \in {}
    BY <1>2, ReferencesAre, Zenon
  <2> QED
    BY <1>2, <2>1, Ranks, TableNames
<1>3. CASE t = "user_organizations"
  <2>1. ref \in {<<"users", "CASCADE">>, <<"organizations", "CASCADE">>}
    BY <1>3, ReferencesAre, Zenon
  <2>2. /\ "users" \in Tables /\ Rank("users") < Rank(t) /\ "users" \notin History
        /\ "organizations" \in Tables /\ Rank("organizations") < Rank(t) /\ "organizations" \notin History
    BY <1>3, Ranks, TableNames DEF History
  <2> QED
    BY <2>1, <2>2, Zenon
<1>4. CASE t = "projects"
  <2>1. ref \in {<<"organizations", "CASCADE">>}
    BY <1>4, ReferencesAre, Zenon
  <2>2. /\ "organizations" \in Tables /\ Rank("organizations") < Rank(t) /\ "organizations" \notin History
    BY <1>4, Ranks, TableNames DEF History
  <2> QED
    BY <2>1, <2>2, Zenon
<1>5. CASE t = "api_keys"
  <2>1. ref \in {<<"projects", "CASCADE">>}
    BY <1>5, ReferencesAre, Zenon
  <2>2. /\ "projects" \in Tables /\ Rank("projects") < Rank(t) /\ "projects" \notin History
    BY <1>5, Ranks, TableNames DEF History
  <2> QED
    BY <2>1, <2>2, Zenon
<1>6. CASE t = "services"
  <2>1. ref \in {<<"projects", "CASCADE">>}
    BY <1>6, ReferencesAre, Zenon
  <2>2. /\ "projects" \in Tables /\ Rank("projects") < Rank(t) /\ "projects" \notin History
    BY <1>6, Ranks, TableNames DEF History
  <2> QED
    BY <2>1, <2>2, Zenon
<1>7. CASE t = "endpoints"
  <2>1. ref \in {<<"services", "CASCADE">>}
    BY <1>7, ReferencesAre, Zenon
  <2>2. /\ "services" \in Tables /\ Rank("services") < Rank(t) /\ "services" \notin History
    BY <1>7, Ranks, TableNames DEF History
  <2> QED
    BY <2>1, <2>2, Zenon
<1>8. CASE t = "telemetry_events"
  <2>1. ref \in {<<"services", "CASCADE">>, <<"endpoints", "SET NULL">>}
    BY <1>8, ReferencesAre, Zenon
  <2>2. /\ "services" \in Tables /\ Rank("services") < Rank(t) /\ "services" \notin History
        /\ "endpoints" \in Tables /\ Rank("endpoints") < Rank(t) /\ "endpoints" \notin History
    BY <1>8, Ranks, TableNames DEF History
  <2> QED
    BY <2>1, <2>2, Zenon
<1>9. CASE t = "metric_aggregates"
  <2>1. ref \in {<<"services", "CASCADE">>, <<"endpoints", "SET NULL">>}
    BY <1>9, ReferencesAre, Zenon
  <2>2. /\ "services" \in Tables /\ Rank("services") < Rank(t) /\ "services" \notin History
        /\ "endpoints" \in Tables /\ Rank("endpoints") < Rank(t) /\ "endpoints" \notin History
    BY <1>9, Ranks, TableNames DEF History
  <2> QED
    BY <2>1, <2>2, Zenon
<1>10. CASE t = "incidents"
  <2>1. ref \in {<<"projects", "CASCADE">>, <<"services", "CASCADE">>}
    BY <1>10, ReferencesAre, Zenon
  <2>2. /\ "projects" \in Tables /\ Rank("projects") < Rank(t) /\ "projects" \notin History
        /\ "services" \in Tables /\ Rank("services") < Rank(t) /\ "services" \notin History
    BY <1>10, Ranks, TableNames DEF History
  <2> QED
    BY <2>1, <2>2, Zenon
<1>11. CASE t = "anomalies"
  <2>1. ref \in 
         {<<"services", "CASCADE">>, <<"endpoints", "SET NULL">>,
          <<"metric_aggregates", "SET NULL">>, <<"incidents", "SET NULL">>}
    BY <1>11, ReferencesAre, Zenon
  <2>2. /\ "services" \in Tables /\ Rank("services") < Rank(t) /\ "services" \notin History
        /\ "endpoints" \in Tables /\ Rank("endpoints") < Rank(t) /\ "endpoints" \notin History
        /\ "metric_aggregates" \in Tables /\ Rank("metric_aggregates") < Rank(t) /\ "metric_aggregates" \notin History
        /\ "incidents" \in Tables /\ Rank("incidents") < Rank(t) /\ "incidents" \notin History
    BY <1>11, Ranks, TableNames DEF History
  <2> QED
    BY <2>1, <2>2, Zenon
<1>12. CASE t = "incident_evidence"
  <2>1. ref \in {<<"incidents", "CASCADE">>}
    BY <1>12, ReferencesAre, Zenon
  <2>2. /\ "incidents" \in Tables /\ Rank("incidents") < Rank(t) /\ "incidents" \notin History
    BY <1>12, Ranks, TableNames DEF History
  <2> QED
    BY <2>1, <2>2, Zenon
<1>13. CASE t = "ai_explanations"
  <2>1. ref \in {<<"incidents", "CASCADE">>}
    BY <1>13, ReferencesAre, Zenon
  <2>2. /\ "incidents" \in Tables /\ Rank("incidents") < Rank(t) /\ "incidents" \notin History
    BY <1>13, Ranks, TableNames DEF History
  <2> QED
    BY <2>1, <2>2, Zenon
<1> QED
  BY <1>1, <1>2, <1>3, <1>4, <1>5, <1>6, <1>7, <1>8, <1>9, <1>10, <1>11, <1>12, <1>13, TableNames

(* The same of the tables a table refers to.                                 *)
LEMMA ParentsGoBack ==
    ASSUME NEW t \in Tables, NEW p \in Parents(t)
    PROVE  /\ p \in Tables /\ Rank(p) < Rank(t) /\ p \notin History
           /\ <<t, p>> \in Cascading \cup Nullable
<1>1. PICK ref \in References(t) : p = ref[1]
  BY DEF Parents
<1>2. PICK q \in Tables, rule \in {"CASCADE", "SET NULL"} :
        ref = <<q, rule>> /\ Rank(q) < Rank(t) /\ q \notin History
  BY KeysGoBack
<1>3. p = q
  BY <1>1, <1>2, PairOf
<1>4. <<t, p>> \in Tables \X Tables /\ <<p, rule>> \in References(t)
  BY <1>1, <1>2, <1>3
<1>5. <<t, p>> \in Keys(rule)
  BY <1>4, PairOf, Zenon DEF Keys
<1> QED
  BY <1>2, <1>3, <1>5 DEF Cascading, Nullable

(* A rank is the rank of one table.                                          *)
LEMMA RankIsOneToOne ==
    ASSUME NEW t \in Tables, NEW u \in Tables, Rank(t) = Rank(u)
    PROVE  t = u
BY TableOfRank

(* Each script has one statement for each table: upgrade() in the order of   *)
(* the ranks, downgrade() in the opposite order.                             *)
LEMMA Scripts ==
    ASSUME NEW g
    PROVE  /\ Len(Statements(g)) = 13
           /\ \A i \in 1..13 : /\ Statements(g)[i] \in Tables
                               /\ Rank(Statements(g)[i]) = (IF g = "upgrade" THEN i ELSE 14 - i)
<1>1. CASE g = "upgrade"
  <2> DEFINE s == [i \in 1..13 |-> Upgrade[i].name]
  <2>1. Statements(g) = s
    BY <1>1, UpgradeIs DEF Statements
  <2>2. \A i \in 1..13 : s[i] \in Tables /\ Rank(s[i]) = i
    BY TableOfRank, RankOfUpgrade
  <2>3. s \in [1..13 -> Tables]
    BY <2>2
  <2> HIDE DEF s
  <2>4. Len(s) = 13
    BY <2>3, ListOf
  <2> QED
    BY <1>1, <2>1, <2>2, <2>4
<1>2. CASE g # "upgrade"
  <2>1. Statements(g) = Downgrade
    BY <1>2 DEF Statements
  <2>2. Len(Downgrade) = 13
    BY DEF Downgrade
  <2>3. /\ Downgrade[1] = "ai_explanations" /\ Downgrade[2] = "incident_evidence"
        /\ Downgrade[3] = "anomalies" /\ Downgrade[4] = "incidents"
        /\ Downgrade[5] = "metric_aggregates" /\ Downgrade[6] = "telemetry_events"
        /\ Downgrade[7] = "endpoints" /\ Downgrade[8] = "services"
        /\ Downgrade[9] = "api_keys" /\ Downgrade[10] = "projects"
        /\ Downgrade[11] = "user_organizations" /\ Downgrade[12] = "organizations"
        /\ Downgrade[13] = "users"
    BY DEF Downgrade
  <2>4. \A i \in 1..13 : Downgrade[i] \in Tables /\ Rank(Downgrade[i]) = 14 - i
    BY <2>3, Ranks, TableNames
  <2> QED
    BY <1>2, <2>1, <2>2, <2>4
<1> QED
  BY <1>1, <1>2

(* The rows a deletion takes with it are those that hang on one of them: the *)
(* least set that holds the deleted row and what hangs on its rows is one.   *)
LEMMA ClosureIs ==
    ASSUME NEW S, NEW r, NEW keys
    PROVE  /\ Closure(S, r, keys) \subseteq S \cup {r} /\ r \in Closure(S, r, keys)
           /\ \A q \in S \ {r} :
                q \in Closure(S, r, keys)
                  <=> \E p \in Closure(S, r, keys) :
                        PointsTo(q, p) /\ <<q.table, p.table>> \in keys
<1> DEFINE Hangs(q, p) == PointsTo(q, p) /\ <<q.table, p.table>> \in keys
           Closed(X) == r \in X /\ \A q \in S : (\E p \in X : Hangs(q, p)) => q \in X
           Least == {q \in S \cup {r} : \A X \in SUBSET (S \cup {r}) : Closed(X) => q \in X}
           Fits(gone) == /\ r \in gone
                         /\ \A q \in S \ {r} : q \in gone <=> \E p \in gone : Hangs(q, p)
<1>1. Closure(S, r, keys) = CHOOSE gone \in SUBSET (S \cup {r}) : Fits(gone)
  BY DEF Closure
<1> HIDE DEF Hangs
<1>2. Least \in SUBSET (S \cup {r}) /\ Closed(Least)
  OBVIOUS
<1>3. ASSUME NEW q \in Least, q # r
      PROVE  \E p \in Least : Hangs(q, p)
  <2>1. SUFFICES ASSUME \A p \in Least : ~Hangs(q, p) PROVE FALSE
    OBVIOUS
  <2>2. Closed(Least \ {q})
    BY <1>2, <1>3, <2>1
  <2>3. Least \ {q} \in SUBSET (S \cup {r})
    BY <1>2
  <2> QED
    BY <2>2, <2>3
<1>4. Fits(Least)
  BY <1>2, <1>3
<1> HIDE DEF Least, Fits
<1>5. Fits(CHOOSE gone \in SUBSET (S \cup {r}) : Fits(gone))
      /\ (CHOOSE gone \in SUBSET (S \cup {r}) : Fits(gone)) \in SUBSET (S \cup {r})
  BY <1>2, <1>4
<1>6. Fits(Closure(S, r, keys)) /\ Closure(S, r, keys) \in SUBSET (S \cup {r})
  BY <1>1, <1>5
<1> QED
  BY <1>6 DEF Fits, Hangs

(* Nullifying a row changes only its keys among those given that name a row  *)
(* that goes, and makes them NULL.                                           *)
LEMMA NullifiedIs ==
    ASSUME NEW t \in Tables, NEW r \in RowsOf(t), NEW gone, NEW keys
    PROVE  LET q == Nullified(r, gone, keys)
           IN /\ q \in RowsOf(t) /\ q.table = r.table /\ q.id = r.id
              /\ DOMAIN q.refs = DOMAIN r.refs
              /\ \A u \in DOMAIN r.refs :
                   q.refs[u] = IF /\ <<r.table, u>> \in keys
                                  /\ \E p \in gone : p.table = u /\ PointsTo(r, p)
                               THEN None ELSE r.refs[u]
<1> DEFINE refs == [u \in DOMAIN r.refs |->
                      IF <<r.table, u>> \in keys /\ \E p \in gone : p.table = u /\ PointsTo(r, p)
                      THEN None ELSE r.refs[u]]
<1>1. /\ r = [table |-> r.table, id |-> r.id, refs |-> r.refs]
      /\ r.table = t /\ r.id \in Ids(t) /\ r.refs \in [Parents(t) -> {1, 2, None}]
  BY DEF RowsOf
<1>2. Nullified(r, gone, keys) = [r EXCEPT !.refs = refs]
  BY DEF Nullified
<1>3. refs \in [Parents(t) -> {1, 2, None}] /\ DOMAIN refs = DOMAIN r.refs
  BY <1>1
<1>4. \A u \in DOMAIN r.refs :
        refs[u] = IF <<r.table, u>> \in keys /\ \E p \in gone : p.table = u /\ PointsTo(r, p)
                  THEN None ELSE r.refs[u]
  OBVIOUS
<1> HIDE DEF refs
<1>5. [r EXCEPT !.refs = refs] = [table |-> r.table, id |-> r.id, refs |-> refs]
  BY <1>1
<1>6. PICK q : q = Nullified(r, gone, keys)
  OBVIOUS
<1>7. q = [table |-> r.table, id |-> r.id, refs |-> refs]
  BY <1>2, <1>5, <1>6
<1>8. q.table = r.table /\ q.id = r.id /\ q.refs = refs
  BY <1>7
<1>9. q \in RowsOf(t)
  BY <1>1, <1>3, <1>7 DEF RowsOf
<1> QED
  BY <1>3, <1>4, <1>6, <1>8, <1>9
-----------------------------------------------------------------------------
(* What a set of rows must be: each row one of its table, no two with one    *)
(* number, every key that is not NULL names a row of the set, and only       *)
(* nullable keys are NULL.                                                   *)
Typed(S) == \A r \in S : r.table \in Tables /\ r \in RowsOf(r.table)

Numbered(S) == \A p, q \in S : p.table = q.table /\ p.id = q.id => p = q

Keyed(S) ==
    \A r \in S : \A t \in DOMAIN r.refs :
      r.refs[t] # None => \E p \in S : p.table = t /\ p.id = r.refs[t]

Nulls(S) == \A r \in S : \A t \in DOMAIN r.refs : r.refs[t] = None => <<r.table, t>> \in Nullable

SameRow(p, q) == p.table = q.table /\ p.id = q.id

(* What a row is made of.                                                    *)
LEMMA RowIs ==
    ASSUME NEW S, Typed(S), NEW r \in S
    PROVE  /\ r.table \in Tables /\ r \in RowsOf(r.table) /\ r.id \in {1, 2}
           /\ DOMAIN r.refs = Parents(r.table)
           /\ \A t \in DOMAIN r.refs : r.refs[t] \in {1, 2, None}
           /\ \A p : PointsTo(r, p) => <<r.table, p.table>> \in Cascading \cup Nullable
<1>1. r.table \in Tables /\ r \in RowsOf(r.table)
  BY DEF Typed
<1>2. r.id \in {1, 2} /\ r.refs \in [Parents(r.table) -> {1, 2, None}]
  BY <1>1 DEF RowsOf, Ids
<1>3. ASSUME NEW p, PointsTo(r, p) PROVE <<r.table, p.table>> \in Cascading \cup Nullable
  <2>1. p.table \in Parents(r.table)
    BY <1>2, <1>3 DEF PointsTo
  <2> QED
    BY <1>1, <2>1, ParentsGoBack
<1> QED
  BY <1>1, <1>2, <1>3

(* Some rows go, and keys of the others become NULL.                         *)
LEMMA Survivors ==
    ASSUME NEW S, Typed(S), NEW gone, NEW keys
    PROVE  LET left == {Nullified(q, gone, keys) : q \in S \ gone}
           IN /\ Typed(left)
              /\ Numbered(S) => Numbered(left)
              /\ Nulls(S) /\ keys \subseteq Nullable => Nulls(left)
              /\ /\ Keyed(S)
                 /\ \A q \in S \ gone : \A p \in gone :
                      PointsTo(q, p) => <<q.table, p.table>> \in keys
                 => Keyed(left)
<1> DEFINE left == {Nullified(q, gone, keys) : q \in S \ gone}
           Cut(r, u) == <<r.table, u>> \in keys /\ \E p \in gone : p.table = u /\ PointsTo(r, p)
<1>1. ASSUME NEW r \in S
      PROVE  LET q == Nullified(r, gone, keys)
             IN /\ q.table = r.table /\ q.id = r.id /\ DOMAIN q.refs = DOMAIN r.refs
                /\ q.table \in Tables /\ q \in RowsOf(q.table)
                /\ \A u \in DOMAIN r.refs : q.refs[u] = IF Cut(r, u) THEN None ELSE r.refs[u]
  BY RowIs, NullifiedIs
<1>2. ASSUME NEW q \in left
      PROVE  \E r \in S \ gone :
               /\ q = Nullified(r, gone, keys)
               /\ q.table = r.table /\ q.id = r.id /\ DOMAIN q.refs = DOMAIN r.refs
               /\ q.table \in Tables /\ q \in RowsOf(q.table)
               /\ \A u \in DOMAIN r.refs : q.refs[u] = IF Cut(r, u) THEN None ELSE r.refs[u]
  BY <1>1
<1>3. ASSUME NEW r \in S \ gone
      PROVE  \E q \in left : q.table = r.table /\ q.id = r.id
  BY <1>1
<1> HIDE DEF left
<1>4. Typed(left)
  BY <1>2 DEF Typed
<1>5. ASSUME Numbered(S) PROVE Numbered(left)
  <2>1. SUFFICES ASSUME NEW p \in left, NEW q \in left, p.table = q.table, p.id = q.id
                 PROVE  p = q
    BY DEF Numbered
  <2>2. PICK x \in S \ gone : p = Nullified(x, gone, keys) /\ p.table = x.table /\ p.id = x.id
    BY <1>2
  <2>3. PICK y \in S \ gone : q = Nullified(y, gone, keys) /\ q.table = y.table /\ q.id = y.id
    BY <1>2
  <2>4. x = y
    BY <1>5, <2>1, <2>2, <2>3 DEF Numbered
  <2> QED
    BY <2>2, <2>3, <2>4
<1>6. ASSUME Nulls(S), keys \subseteq Nullable PROVE Nulls(left)
  <2>1. SUFFICES ASSUME NEW q \in left, NEW t \in DOMAIN q.refs, q.refs[t] = None
                 PROVE  <<q.table, t>> \in Nullable
    BY DEF Nulls
  <2>2. PICK r \in S \ gone :
          /\ q.table = r.table /\ DOMAIN q.refs = DOMAIN r.refs
          /\ \A u \in DOMAIN r.refs : q.refs[u] = IF Cut(r, u) THEN None ELSE r.refs[u]
    BY <1>2
  <2>3. CASE Cut(r, t)
    BY <1>6, <2>2, <2>3
  <2>4. CASE ~Cut(r, t)
    <3>1. r.refs[t] = None
      BY <2>1, <2>2, <2>4
    <3> QED
      BY <1>6, <2>2, <3>1 DEF Nulls
  <2> QED
    BY <2>3, <2>4
<1>7. ASSUME Keyed(S),
             \A q \in S \ gone : \A p \in gone : PointsTo(q, p) => <<q.table, p.table>> \in keys
      PROVE  Keyed(left)
  <2>1. SUFFICES ASSUME NEW q \in left, NEW t \in DOMAIN q.refs, q.refs[t] # None
                 PROVE  \E p \in left : p.table = t /\ p.id = q.refs[t]
    BY DEF Keyed
  <2>2. PICK r \in S \ gone :
          /\ q.table = r.table /\ DOMAIN q.refs = DOMAIN r.refs
          /\ \A u \in DOMAIN r.refs : q.refs[u] = IF Cut(r, u) THEN None ELSE r.refs[u]
    BY <1>2
  <2>3. ~Cut(r, t) /\ q.refs[t] = r.refs[t] /\ t \in DOMAIN r.refs
    BY <2>1, <2>2
  <2>4. PICK p \in S : p.table = t /\ p.id = r.refs[t]
    BY <1>7, <2>1, <2>3 DEF Keyed
  <2>5. PointsTo(r, p)
    BY <2>3, <2>4 DEF PointsTo
  <2>6. p \notin gone
    BY <1>7, <2>3, <2>4, <2>5
  <2> QED
    BY <1>3, <2>3, <2>4, <2>6
<1> QED
  BY <1>4, <1>5, <1>6, <1>7 DEF left

(* Rows each of which refers to another of them would have ever older tables:*)
(* there are none.                                                           *)
LEMMA Descent ==
    ASSUME NEW S, Typed(S), NEW X, X \subseteq S, \A q \in X : \E p \in X : PointsTo(q, p)
    PROVE  X = {}
<1> DEFINE From(n) == \A q \in X : Rank(q.table) >= n
<1>1. \A q \in X : q.table \in Tables /\ Rank(q.table) \in 1..13
  BY RowIs, TableOfRank
<1>2. ASSUME NEW q \in X, NEW p \in X, PointsTo(q, p)
      PROVE  Rank(p.table) < Rank(q.table)
  <2>1. p.table \in Parents(q.table)
    BY <1>2, RowIs DEF PointsTo
  <2> QED
    BY <1>1, <2>1, ParentsGoBack
<1>3. From(1)
  BY <1>1
<1>4. ASSUME NEW n \in 1..13, From(n) PROVE From(n + 1)
  BY <1>1, <1>2, <1>4
<1> HIDE DEF From
<1>5. From(14)
  <2>1. From(2) /\ From(3) /\ From(4) /\ From(5)
    BY <1>3, <1>4
  <2>2. From(6) /\ From(7) /\ From(8) /\ From(9)
    BY <2>1, <1>4
  <2>3. From(10) /\ From(11) /\ From(12) /\ From(13)
    BY <2>2, <1>4
  <2> QED
    BY <2>3, <1>4
<1> QED
  BY <1>1, <1>5 DEF From
-----------------------------------------------------------------------------
(* No foreign key has both rules.                                            *)
LEMMA OneRule ==
    ASSUME NEW t, NEW p, <<t, p>> \in Cascading, <<t, p>> \in Nullable
    PROVE  FALSE
<1>1. t \in Tables /\ <<p, "CASCADE">> \in References(t)
  <2>1. PICK key \in Tables \X Tables : key = <<t, p>> /\ <<key[2], "CASCADE">> \in References(key[1])
    BY Zenon DEF Cascading, Keys
  <2> QED
    BY <2>1, PairOf
<1>2. <<p, "SET NULL">> \in References(t)
  <2>1. PICK key \in Tables \X Tables : key = <<t, p>> /\ <<key[2], "SET NULL">> \in References(key[1])
    BY Zenon DEF Nullable, Keys
  <2> QED
    BY <2>1, PairOf
<1>3. CASE t = "users"
  <2>1. References(t) = {}
    BY <1>3, ReferencesAre, Zenon
  <2> QED
    BY <1>1, <1>2, <2>1
<1>4. CASE t = "organizations"
  <2>1. References(t) = {}
    BY <1>4, ReferencesAre, Zenon
  <2> QED
    BY <1>1, <1>2, <2>1
<1>5. CASE t = "user_organizations"
  <2>1. References(t) = {<<"users", "CASCADE">>, <<"organizations", "CASCADE">>}
    BY <1>5, ReferencesAre, Zenon
  <2> QED
    BY <1>1, <1>2, <2>1
<1>6. CASE t = "projects"
  <2>1. References(t) = {<<"organizations", "CASCADE">>}
    BY <1>6, ReferencesAre, Zenon
  <2> QED
    BY <1>1, <1>2, <2>1
<1>7. CASE t = "api_keys"
  <2>1. References(t) = {<<"projects", "CASCADE">>}
    BY <1>7, ReferencesAre, Zenon
  <2> QED
    BY <1>1, <1>2, <2>1
<1>8. CASE t = "services"
  <2>1. References(t) = {<<"projects", "CASCADE">>}
    BY <1>8, ReferencesAre, Zenon
  <2> QED
    BY <1>1, <1>2, <2>1
<1>9. CASE t = "endpoints"
  <2>1. References(t) = {<<"services", "CASCADE">>}
    BY <1>9, ReferencesAre, Zenon
  <2> QED
    BY <1>1, <1>2, <2>1
<1>10. CASE t = "telemetry_events"
  <2>1. References(t) = {<<"services", "CASCADE">>, <<"endpoints", "SET NULL">>}
    BY <1>10, ReferencesAre, Zenon
  <2> QED
    BY <1>1, <1>2, <2>1
<1>11. CASE t = "metric_aggregates"
  <2>1. References(t) = {<<"services", "CASCADE">>, <<"endpoints", "SET NULL">>}
    BY <1>11, ReferencesAre, Zenon
  <2> QED
    BY <1>1, <1>2, <2>1
<1>12. CASE t = "incidents"
  <2>1. References(t) = {<<"projects", "CASCADE">>, <<"services", "CASCADE">>}
    BY <1>12, ReferencesAre, Zenon
  <2> QED
    BY <1>1, <1>2, <2>1
<1>13. CASE t = "anomalies"
  <2>1. References(t) =
         {<<"services", "CASCADE">>, <<"endpoints", "SET NULL">>,
          <<"metric_aggregates", "SET NULL">>, <<"incidents", "SET NULL">>}
    BY <1>13, ReferencesAre, Zenon
  <2> QED
    BY <1>1, <1>2, <2>1
<1>14. CASE t = "incident_evidence"
  <2>1. References(t) = {<<"incidents", "CASCADE">>}
    BY <1>14, ReferencesAre, Zenon
  <2> QED
    BY <1>1, <1>2, <2>1
<1>15. CASE t = "ai_explanations"
  <2>1. References(t) = {<<"incidents", "CASCADE">>}
    BY <1>15, ReferencesAre, Zenon
  <2> QED
    BY <1>1, <1>2, <2>1
<1> QED
  BY <1>1, <1>3, <1>4, <1>5, <1>6, <1>7, <1>8, <1>9, <1>10, <1>11, <1>12, <1>13, <1>14, <1>15, TableNames

(* A key named by the migration.                                             *)
LEMMA KeyIs ==
    ASSUME NEW t \in Tables, NEW p \in Tables, NEW rule, <<p, rule>> \in References(t)
    PROVE  <<t, p>> \in Keys(rule)
<1>1. <<t, p>> \in Tables \X Tables
  OBVIOUS
<1> QED
  BY <1>1, PairOf, Zenon DEF Keys

(* The models agree with the migration: what the ORM deletes along is a      *)
(* CASCADE key, and what it sets to NULL a SET NULL key.                     *)
LEMMA ModelsAgree == OrmKeys("delete") \subseteq Cascading /\ OrmKeys("nullify") \subseteq Nullable
<1> DEFINE Fits(a, b, c) == /\ c = "delete" => <<b, a>> \in Cascading
                            /\ c = "nullify" => <<b, a>> \in Nullable
<1>1. Fits("users", "user_organizations", "delete")
  <2>1. <<"users", "CASCADE">> \in References("user_organizations")
    BY ReferencesAre, Zenon
  <2> QED
    BY <2>1, KeyIs, TableNames DEF Cascading, Nullable
<1>2. Fits("organizations", "user_organizations", "delete")
  <2>1. <<"organizations", "CASCADE">> \in References("user_organizations")
    BY ReferencesAre, Zenon
  <2> QED
    BY <2>1, KeyIs, TableNames DEF Cascading, Nullable
<1>3. Fits("organizations", "projects", "delete")
  <2>1. <<"organizations", "CASCADE">> \in References("projects")
    BY ReferencesAre, Zenon
  <2> QED
    BY <2>1, KeyIs, TableNames DEF Cascading, Nullable
<1>4. Fits("projects", "services", "delete")
  <2>1. <<"projects", "CASCADE">> \in References("services")
    BY ReferencesAre, Zenon
  <2> QED
    BY <2>1, KeyIs, TableNames DEF Cascading, Nullable
<1>5. Fits("projects", "api_keys", "delete")
  <2>1. <<"projects", "CASCADE">> \in References("api_keys")
    BY ReferencesAre, Zenon
  <2> QED
    BY <2>1, KeyIs, TableNames DEF Cascading, Nullable
<1>6. Fits("services", "endpoints", "delete")
  <2>1. <<"services", "CASCADE">> \in References("endpoints")
    BY ReferencesAre, Zenon
  <2> QED
    BY <2>1, KeyIs, TableNames DEF Cascading, Nullable
<1>7. Fits("services", "telemetry_events", "delete")
  <2>1. <<"services", "CASCADE">> \in References("telemetry_events")
    BY ReferencesAre, Zenon
  <2> QED
    BY <2>1, KeyIs, TableNames DEF Cascading, Nullable
<1>8. Fits("services", "metric_aggregates", "delete")
  <2>1. <<"services", "CASCADE">> \in References("metric_aggregates")
    BY ReferencesAre, Zenon
  <2> QED
    BY <2>1, KeyIs, TableNames DEF Cascading, Nullable
<1>9. Fits("services", "anomalies", "delete")
  <2>1. <<"services", "CASCADE">> \in References("anomalies")
    BY ReferencesAre, Zenon
  <2> QED
    BY <2>1, KeyIs, TableNames DEF Cascading, Nullable
<1>10. Fits("endpoints", "telemetry_events", "nullify")
  <2>1. <<"endpoints", "SET NULL">> \in References("telemetry_events")
    BY ReferencesAre, Zenon
  <2> QED
    BY <2>1, KeyIs, TableNames DEF Cascading, Nullable
<1>11. Fits("endpoints", "metric_aggregates", "nullify")
  <2>1. <<"endpoints", "SET NULL">> \in References("metric_aggregates")
    BY ReferencesAre, Zenon
  <2> QED
    BY <2>1, KeyIs, TableNames DEF Cascading, Nullable
<1>12. Fits("endpoints", "anomalies", "nullify")
  <2>1. <<"endpoints", "SET NULL">> \in References("anomalies")
    BY ReferencesAre, Zenon
  <2> QED
    BY <2>1, KeyIs, TableNames DEF Cascading, Nullable
<1>13. Fits("incidents", "anomalies", "nullify")
  <2>1. <<"incidents", "SET NULL">> \in References("anomalies")
    BY ReferencesAre, Zenon
  <2> QED
    BY <2>1, KeyIs, TableNames DEF Cascading, Nullable
<1>14. Fits("incidents", "incident_evidence", "delete")
  <2>1. <<"incidents", "CASCADE">> \in References("incident_evidence")
    BY ReferencesAre, Zenon
  <2> QED
    BY <2>1, KeyIs, TableNames DEF Cascading, Nullable
<1>15. Fits("incidents", "ai_explanations", "delete")
  <2>1. <<"incidents", "CASCADE">> \in References("ai_explanations")
    BY ReferencesAre, Zenon
  <2> QED
    BY <2>1, KeyIs, TableNames DEF Cascading, Nullable
<1> HIDE DEF Fits
<1>16. \A x \in UserRelationships \cup OrganizationRelationships \cup ProjectRelationships :
        \E a, b, c : x = <<a, b, c>> /\ Fits(a, b, c)
  BY <1>1, <1>2, <1>3, <1>4, <1>5, Zenon
     DEF UserRelationships, OrganizationRelationships, ProjectRelationships
<1>17. \A x \in ServiceRelationships : \E a, b, c : x = <<a, b, c>> /\ Fits(a, b, c)
  BY <1>6, <1>7, <1>8, <1>9, Zenon DEF ServiceRelationships
<1>18. \A x \in EndpointRelationships \cup IncidentRelationships :
        \E a, b, c : x = <<a, b, c>> /\ Fits(a, b, c)
  BY <1>10, <1>11, <1>12, <1>13, <1>14, <1>15, Zenon DEF EndpointRelationships, IncidentRelationships
<1>19. ASSUME NEW what, NEW key \in OrmKeys(what)
      PROVE  \E a, b : key = <<b, a>> /\ Fits(a, b, what)
  <2>1. PICK x \in Relationships : x[3] = what /\ key = <<x[2], x[1]>>
    BY Zenon DEF OrmKeys
  <2>2. PICK a, b, c : x = <<a, b, c>> /\ Fits(a, b, c)
    BY <1>16, <1>17, <1>18, Zenon DEF Relationships
  <2>3. x[1] = a /\ x[2] = b /\ x[3] = c
    BY <2>2
  <2> QED
    BY <2>1, <2>2, <2>3
<1>20. ASSUME NEW key \in OrmKeys("delete") PROVE key \in Cascading
  <2>1. PICK a, b : key = <<b, a>> /\ Fits(a, b, "delete")
    BY <1>19, Zenon
  <2> QED
    BY <2>1 DEF Fits
<1>21. ASSUME NEW key \in OrmKeys("nullify") PROVE key \in Nullable
  <2>1. PICK a, b : key = <<b, a>> /\ Fits(a, b, "nullify")
    BY <1>19, Zenon
  <2> QED
    BY <2>1 DEF Fits
<1> QED
  BY <1>20, <1>21

(* What the session writes of a row it does not delete: the CASCADE keys are *)
(* as they were.                                                             *)
LEMMA WrittenIs ==
    ASSUME NEW S, Typed(S), NEW q \in S, NEW gone, NEW keys, keys \subseteq Nullable,
           NEW w, w = Nullified(q, gone, keys)
    PROVE  /\ w.table = q.table /\ w.id = q.id /\ DOMAIN w.refs = DOMAIN q.refs
           /\ w.table \in Tables /\ w \in RowsOf(w.table)
           /\ \A t \in DOMAIN q.refs :
                w.refs[t] = IF <<q.table, t>> \in keys /\ \E p \in gone : p.table = t /\ PointsTo(q, p)
                            THEN None ELSE q.refs[t]
           /\ \A p : <<q.table, p.table>> \in Cascading => (PointsTo(w, p) <=> PointsTo(q, p))
<1>1. q.table \in Tables /\ q \in RowsOf(q.table)
  BY RowIs
<1>2. /\ w.table = q.table /\ w.id = q.id /\ DOMAIN w.refs = DOMAIN q.refs
      /\ w \in RowsOf(q.table)
      /\ \A t \in DOMAIN q.refs :
           w.refs[t] = IF <<q.table, t>> \in keys /\ \E p \in gone : p.table = t /\ PointsTo(q, p)
                       THEN None ELSE q.refs[t]
  BY <1>1, NullifiedIs
<1>3. ASSUME NEW p, <<q.table, p.table>> \in Cascading
      PROVE  PointsTo(w, p) <=> PointsTo(q, p)
  <2>1. <<q.table, p.table>> \notin keys
    BY <1>3, OneRule
  <2> QED
    BY <1>2, <2>1 DEF PointsTo
<1> QED
  BY <1>1, <1>2, <1>3

(* The rows DELETE takes; those session.delete() loads, what it writes of the*)
(* others, which of these hang on a loaded one, and all that are gone then.  *)
Hangs(q, p) == PointsTo(q, p) /\ <<q.table, p.table>> \in Cascading

All(d) == Closure(rows, d, Cascading)

Loaded(d) == Closure(rows, d, OrmKeys("delete"))

Image(d, q) == Nullified(q, Loaded(d), OrmKeys("nullify"))

Written(d) == {Image(d, q) : q \in rows \ Loaded(d)}

Cascaded(d) == {q \in Written(d) : \E p \in Loaded(d) : Hangs(q, p)}

OrmGone(d) == Loaded(d) \cup UNION {Closure(Written(d), q, Cascading) : q \in Cascaded(d)}

(* A closure along CASCADE keys.                                             *)
LEMMA CascadeIs ==
    ASSUME NEW S, NEW c \in S
    PROVE  /\ Closure(S, c, Cascading) \subseteq S /\ c \in Closure(S, c, Cascading)
           /\ \A q \in S \ {c} :
                q \in Closure(S, c, Cascading) <=> \E p \in Closure(S, c, Cascading) : Hangs(q, p)
BY ClosureIs DEF Hangs

(* What the session writes.                                                  *)
LEMMA ImageIs ==
    ASSUME NEW d, Typed(rows), NEW q \in rows
    PROVE  /\ SameRow(Image(d, q), q) /\ DOMAIN Image(d, q).refs = DOMAIN q.refs
           /\ Image(d, q).table \in Tables /\ Image(d, q) \in RowsOf(Image(d, q).table)
           /\ \A p : Hangs(Image(d, q), p) <=> Hangs(q, p)
<1>1. PICK w : w = Nullified(q, Loaded(d), OrmKeys("nullify"))
  OBVIOUS
<1>2. OrmKeys("nullify") \subseteq Nullable
  BY ModelsAgree
<1>3. /\ w.table = q.table /\ w.id = q.id /\ DOMAIN w.refs = DOMAIN q.refs
      /\ w.table \in Tables /\ w \in RowsOf(w.table)
      /\ \A p : <<q.table, p.table>> \in Cascading => (PointsTo(w, p) <=> PointsTo(q, p))
  BY <1>1, <1>2, WrittenIs
<1> QED
  BY <1>1, <1>3 DEF Image, SameRow, Hangs

(* session.delete() takes the rows that DELETE takes: those it does not load *)
(* hang by CASCADE keys on those it loads.                                   *)
LEMMA OrmTakesTheSame ==
    ASSUME NEW d \in rows, Typed(rows), Numbered(rows)
    PROVE  /\ Loaded(d) \subseteq All(d) /\ Loaded(d) \subseteq rows /\ All(d) \subseteq rows
           /\ OrmGone(d) \subseteq Loaded(d) \cup Written(d)
           /\ \A q \in rows \ Loaded(d) : Image(d, q) \in OrmGone(d) <=> q \in All(d)
<1>1. /\ All(d) \subseteq rows /\ d \in All(d)
      /\ \A q \in rows \ {d} : q \in All(d) <=> \E p \in All(d) : Hangs(q, p)
  BY CascadeIs DEF All
<1>2. /\ Loaded(d) \subseteq rows /\ d \in Loaded(d)
      /\ \A q \in rows \ {d} : q \in Loaded(d) => \E p \in Loaded(d) : Hangs(q, p)
  <2>1. /\ Loaded(d) \subseteq rows /\ d \in Loaded(d)
        /\ \A q \in rows \ {d} :
             q \in Loaded(d)
               <=> \E p \in Loaded(d) : PointsTo(q, p) /\ <<q.table, p.table>> \in OrmKeys("delete")
    BY ClosureIs DEF Loaded
  <2> QED
    BY <2>1, ModelsAgree DEF Hangs
<1>3. \A q \in rows \ Loaded(d) :
        /\ Image(d, q) \in Written(d) /\ SameRow(Image(d, q), q)
        /\ \A p : Hangs(Image(d, q), p) <=> Hangs(q, p)
  BY ImageIs DEF Written
<1>4. \A w \in Written(d) : \E q \in rows \ Loaded(d) : w = Image(d, q)
  BY DEF Written
<1>5. Typed(Written(d))
  BY <1>4, ImageIs DEF Typed
<1>6. \A w \in Written(d) : w \notin Loaded(d)
  BY <1>2, <1>3, <1>4 DEF Numbered, SameRow
<1>7. \A q, p, r : SameRow(p, r) => (Hangs(q, p) <=> Hangs(q, r))
  BY DEF SameRow, PointsTo, Hangs
<1>8. \A c \in Cascaded(d) :
        /\ c \in Written(d) /\ \E p \in Loaded(d) : Hangs(c, p)
        /\ Closure(Written(d), c, Cascading) \subseteq Written(d)
        /\ c \in Closure(Written(d), c, Cascading)
        /\ \A w \in Written(d) \ {c} :
             w \in Closure(Written(d), c, Cascading)
               <=> \E p \in Closure(Written(d), c, Cascading) : Hangs(w, p)
  BY CascadeIs DEF Cascaded
<1>9. /\ \A x \in OrmGone(d) :
           x \in Loaded(d) \/ \E c \in Cascaded(d) : x \in Closure(Written(d), c, Cascading)
      /\ \A c \in Cascaded(d) : Closure(Written(d), c, Cascading) \subseteq OrmGone(d)
      /\ Loaded(d) \subseteq OrmGone(d)
  BY DEF OrmGone
<1>10. \A w \in Written(d) : (\E p \in Loaded(d) : Hangs(w, p)) => w \in Cascaded(d)
  BY DEF Cascaded
<1>11. Loaded(d) \subseteq All(d)
  <2> DEFINE X == Loaded(d) \ All(d)
  <2>1. ASSUME NEW q \in X PROVE \E p \in X : Hangs(q, p)
    BY <1>1, <1>2
  <2>2. X \subseteq rows /\ \A q \in X : \E p \in X : PointsTo(q, p)
    BY <1>2, <2>1 DEF Hangs
  <2> HIDE DEF X
  <2>3. X = {}
    BY <2>2, Descent
  <2> QED
    BY <2>3 DEF X
<1>12. OrmGone(d) \subseteq Loaded(d) \cup Written(d)
  BY <1>8, <1>9
<1>13. ASSUME NEW c \in Cascaded(d), NEW w \in Closure(Written(d), c, Cascading)
       PROVE  \A q \in rows \ Loaded(d) : w = Image(d, q) => q \in All(d)
  <2> DEFINE X == {v \in Closure(Written(d), c, Cascading) :
                     \E q \in rows \ Loaded(d) : v = Image(d, q) /\ q \notin All(d)}
  <2>1. ASSUME NEW v \in X PROVE \E p \in X : Hangs(v, p)
    <3>1. PICK q \in rows \ Loaded(d) : v = Image(d, q) /\ q \notin All(d)
      OBVIOUS
    <3>2. ~\E p \in All(d) : Hangs(q, p)
      BY <1>1, <1>2, <3>1
    <3>3. v # c
      BY <1>3, <1>8, <1>11, <3>1, <3>2
    <3>4. PICK p \in Closure(Written(d), c, Cascading) : Hangs(v, p)
      BY <1>8, <3>3
    <3>5. PICK r \in rows \ Loaded(d) : p = Image(d, r)
      BY <1>4, <1>8
    <3>6. Hangs(q, r)
      BY <1>3, <1>7, <3>1, <3>4, <3>5
    <3> QED
      BY <3>2, <3>4, <3>5, <3>6
  <2>2. X \subseteq Written(d) /\ \A v \in X : \E p \in X : PointsTo(v, p)
    BY <1>8, <2>1 DEF Hangs
  <2> HIDE DEF X
  <2>3. X = {}
    BY <1>5, <2>2, Descent
  <2> QED
    BY <1>13, <2>3 DEF X
<1>14. ASSUME NEW q \in rows \ Loaded(d), Image(d, q) \in OrmGone(d) PROVE q \in All(d)
  <2>1. PICK c \in Cascaded(d) : Image(d, q) \in Closure(Written(d), c, Cascading)
    BY <1>3, <1>6, <1>9, <1>14
  <2> QED
    BY <1>13, <2>1
<1>15. \A q \in rows \ Loaded(d) : q \in All(d) => Image(d, q) \in OrmGone(d)
  <2> DEFINE X == {q \in All(d) \ Loaded(d) : Image(d, q) \notin OrmGone(d)}
  <2>1. ASSUME NEW q \in X PROVE \E p \in X : Hangs(q, p)
    <3>1. q \in rows \ Loaded(d) /\ q # d
      BY <1>1, <1>2
    <3>2. PICK p \in All(d) : Hangs(q, p)
      BY <1>1, <3>1
    <3>3. Hangs(Image(d, q), p) /\ Image(d, q) \in Written(d)
      BY <1>3, <3>1, <3>2
    <3>4. p \notin Loaded(d)
      BY <1>8, <1>9, <1>10, <3>3
    <3>5. Image(d, p) \notin OrmGone(d)
      <4>1. SUFFICES ASSUME Image(d, p) \in OrmGone(d) PROVE FALSE
        OBVIOUS
      <4>2. Image(d, p) \in Written(d) /\ Hangs(Image(d, q), Image(d, p))
        BY <1>1, <1>3, <1>7, <3>3, <3>4
      <4>3. PICK c \in Cascaded(d) : Image(d, p) \in Closure(Written(d), c, Cascading)
        BY <1>6, <1>9, <4>1, <4>2
      <4>4. Image(d, q) \in Closure(Written(d), c, Cascading)
        BY <1>8, <3>3, <4>2, <4>3
      <4> QED
        BY <1>9, <4>4
    <3> QED
      BY <3>2, <3>4, <3>5
  <2>2. X \subseteq rows /\ \A q \in X : \E p \in X : PointsTo(q, p)
    BY <1>1, <2>1 DEF Hangs
  <2> HIDE DEF X
  <2>3. X = {}
    BY <2>2, Descent
  <2> QED
    BY <2>3 DEF X
<1> QED
  BY <1>1, <1>2, <1>11, <1>12, <1>14, <1>15

(* And the rows it leaves have forgotten the same.                           *)
LEMMA OrmForgetsTheSame ==
    ASSUME NEW d \in rows, Typed(rows), Numbered(rows), NEW q \in rows \ All(d)
    PROVE  Nullified(Image(d, q), OrmGone(d), Nullable) = Nullified(q, All(d), Nullable)
<1> DEFINE CutAll(t) == \E p \in All(d) : p.table = t /\ PointsTo(q, p)
           CutLoaded(t) == \E p \in Loaded(d) : p.table = t /\ PointsTo(q, p)
           CutGone(t) == \E p \in OrmGone(d) : p.table = t /\ PointsTo(Image(d, q), p)
<1>1. PICK w : w = Image(d, q)
  OBVIOUS
<1>2. PICK x : x = Nullified(w, OrmGone(d), Nullable)
  OBVIOUS
<1>3. PICK y : y = Nullified(q, All(d), Nullable)
  OBVIOUS
<1>4. q.table \in Tables /\ q \in RowsOf(q.table)
  BY RowIs
<1>5. /\ w.table = q.table /\ w.id = q.id /\ DOMAIN w.refs = DOMAIN q.refs
      /\ w.table \in Tables /\ w \in RowsOf(w.table)
      /\ \A t \in DOMAIN q.refs :
           w.refs[t] = IF <<q.table, t>> \in OrmKeys("nullify") /\ CutLoaded(t)
                       THEN None ELSE q.refs[t]
  <2>1. OrmKeys("nullify") \subseteq Nullable /\ w = Nullified(q, Loaded(d), OrmKeys("nullify"))
    BY <1>1, ModelsAgree DEF Image
  <2> QED
    BY <2>1, WrittenIs
<1>6. /\ x \in RowsOf(w.table) /\ x.table = w.table /\ x.id = w.id
      /\ DOMAIN x.refs = DOMAIN w.refs
      /\ \A t \in DOMAIN w.refs :
           x.refs[t] = IF <<w.table, t>> \in Nullable /\ CutGone(t) THEN None ELSE w.refs[t]
  BY <1>1, <1>2, <1>5, NullifiedIs
<1>7. /\ y \in RowsOf(q.table) /\ y.table = q.table /\ y.id = q.id
      /\ DOMAIN y.refs = DOMAIN q.refs
      /\ \A t \in DOMAIN q.refs :
           y.refs[t] = IF <<q.table, t>> \in Nullable /\ CutAll(t) THEN None ELSE q.refs[t]
  BY <1>3, <1>4, NullifiedIs
<1>8. /\ Loaded(d) \subseteq All(d) /\ All(d) \subseteq rows /\ Loaded(d) \subseteq OrmGone(d)
      /\ OrmGone(d) \subseteq Loaded(d) \cup Written(d)
      /\ \A r \in rows \ Loaded(d) :
           SameRow(Image(d, r), r) /\ (Image(d, r) \in OrmGone(d) <=> r \in All(d))
  BY OrmTakesTheSame, ImageIs DEF OrmGone
<1>9. \A r \in Written(d) : \E p \in rows \ Loaded(d) : r = Image(d, p)
  BY DEF Written
<1>10. ASSUME NEW t \in DOMAIN q.refs, w.refs[t] = q.refs[t]
       PROVE  CutGone(t) <=> CutAll(t)
  <2>1. \A p : p.table = t => (PointsTo(w, p) <=> PointsTo(q, p))
    BY <1>5, <1>10 DEF PointsTo
  <2>2. ASSUME NEW p \in OrmGone(d), p.table = t, PointsTo(q, p) PROVE CutAll(t)
    <3>1. CASE p \in Loaded(d)
      BY <1>8, <2>2, <3>1
    <3>2. CASE p \in Written(d)
      <4>1. PICK r \in rows \ Loaded(d) : p = Image(d, r)
        BY <1>9, <3>2
      <4>2. r \in All(d) /\ SameRow(p, r)
        BY <1>8, <4>1
      <4> QED
        BY <2>2, <4>2 DEF SameRow, PointsTo
    <3> QED
      BY <1>8, <3>1, <3>2
  <2>3. ASSUME NEW p \in All(d), p.table = t, PointsTo(q, p)
        PROVE  \E r \in OrmGone(d) : r.table = t /\ PointsTo(q, r)
    <3>1. CASE p \in Loaded(d)
      BY <1>8, <2>3, <3>1
    <3>2. CASE p \notin Loaded(d)
      <4>1. Image(d, p) \in OrmGone(d) /\ SameRow(Image(d, p), p)
        BY <1>8, <3>2
      <4> QED
        BY <2>3, <4>1 DEF SameRow, PointsTo
    <3> QED
      BY <3>1, <3>2
  <2> QED
    BY <1>1, <2>1, <2>2, <2>3
<1>11. OrmKeys("nullify") \subseteq Nullable /\ \A t : CutLoaded(t) => CutAll(t)
  BY <1>8, ModelsAgree
<1> HIDE DEF CutAll, CutLoaded, CutGone
<1>12. ASSUME NEW t \in DOMAIN q.refs PROVE x.refs[t] = y.refs[t]
  <2>1. CASE <<q.table, t>> \in OrmKeys("nullify") /\ CutLoaded(t)
    BY <1>5, <1>6, <1>7, <1>11, <2>1
  <2>2. CASE ~(<<q.table, t>> \in OrmKeys("nullify") /\ CutLoaded(t))
    <3>1. w.refs[t] = q.refs[t]
      BY <1>5, <2>2
    <3> QED
      BY <1>5, <1>6, <1>7, <1>10, <3>1
  <2> QED
    BY <2>1, <2>2
<1>13. /\ x.refs \in [Parents(q.table) -> {1, 2, None}]
       /\ y.refs \in [Parents(q.table) -> {1, 2, None}]
       /\ x = [table |-> x.table, id |-> x.id, refs |-> x.refs]
       /\ y = [table |-> y.table, id |-> y.id, refs |-> y.refs]
  BY <1>5, <1>6, <1>7 DEF RowsOf
<1>14. x.refs = y.refs
  BY <1>5, <1>6, <1>12, <1>13
<1>15. x = y
  BY <1>5, <1>6, <1>7, <1>13, <1>14
<1> QED
  BY <1>1, <1>2, <1>3, <1>15

(* Whichever deletes a row, the same rows are left, and these have forgotten *)
(* the same.                                                                 *)
LEMMA OrmIsDelete ==
    ASSUME NEW d \in rows, Typed(rows), Numbered(rows)
    PROVE  AfterOrmDelete(d) = AfterDelete(d)
<1>1. AfterDelete(d) = {Nullified(q, All(d), Nullable) : q \in rows \ All(d)}
  BY DEF AfterDelete, All
<1>2. AfterOrmDelete(d) = {Nullified(w, OrmGone(d), Nullable) : w \in Written(d) \ OrmGone(d)}
  BY DEF AfterOrmDelete, OrmGone, Cascaded, Written, Image, Loaded, Hangs
<1>3. /\ \A w \in Written(d) \ OrmGone(d) : \E q \in rows \ All(d) : w = Image(d, q)
      /\ \A q \in rows \ All(d) : Image(d, q) \in Written(d) \ OrmGone(d)
  BY OrmTakesTheSame DEF Written
<1>4. \A q \in rows \ All(d) :
        Nullified(Image(d, q), OrmGone(d), Nullable) = Nullified(q, All(d), Nullable)
  BY OrmForgetsTheSame
<1> QED
  BY <1>1, <1>2, <1>3, <1>4
-----------------------------------------------------------------------------
(* DELETE FROM leaves rows whose keys name rows: what hung on a deleted row  *)
(* by a CASCADE key went with it, and any other key of its is NULL now.      *)
LEMMA DeleteKeeps ==
    ASSUME NEW r \in rows, Typed(rows), Numbered(rows), Nulls(rows), Keyed(rows)
    PROVE  LET left == AfterDelete(r)
           IN Typed(left) /\ Numbered(left) /\ Nulls(left) /\ Keyed(left)
<1> DEFINE gone == Closure(rows, r, Cascading)
<1>1. ASSUME NEW q \in rows \ gone, NEW p \in gone, PointsTo(q, p)
      PROVE  <<q.table, p.table>> \in Nullable
  <2>1. <<q.table, p.table>> \in Cascading \cup Nullable
    BY <1>1, RowIs
  <2>2. q \in rows \ {r}
    BY ClosureIs
  <2>3. <<q.table, p.table>> \notin Cascading
    BY <1>1, <2>2, ClosureIs
  <2> QED
    BY <2>1, <2>3
<1>2. AfterDelete(r) = {Nullified(q, gone, Nullable) : q \in rows \ gone}
  BY DEF AfterDelete
<1> HIDE DEF gone
<1> QED
  BY <1>1, <1>2, Survivors

(* The inductive invariant: the tables come and go together with the version,*)
(* every row is in a table and numbered in it, and only a migration that runs*)
(* has executed statements.                                                  *)
TablesAreWhole ==
    /\ tables \in {{}, Tables}
    /\ version = (IF tables = {} THEN None ELSE "0001")
    /\ \A m \in Migrators : goal[m] = None => done[m] = 0

RowsAreWhole ==
    /\ \A r \in rows : r.table \in tables
    /\ Numbered(rows) /\ Nulls(rows) /\ Keyed(rows)

IInv == TypeOK /\ TablesAreWhole /\ RowsAreWhole

(* The tables a migration has changed are those before its next statement.   *)
LEMMA ChangedIs ==
    ASSUME NEW m \in Migrators, TypeOK
    PROVE  Changed(m) = {t \in Tables : IF goal[m] = "upgrade" THEN Rank(t) <= done[m]
                                         ELSE 14 - Rank(t) <= done[m]}
<1> DEFINE s == Statements(goal[m])
           d == done[m]
<1>1. d \in 0..13
  <2>1. Len(Downgrade) = 13
    BY DEF Downgrade
  <2> QED
    BY <2>1 DEF TypeOK
<1>2. \A i \in 1..13 : s[i] \in Tables /\ Rank(s[i]) = IF goal[m] = "upgrade" THEN i ELSE 14 - i
  BY Scripts
<1>3. Changed(m) = {s[i] : i \in 1..d}
  BY DEF Changed
<1> HIDE DEF s, d
<1>4. ASSUME NEW t \in Changed(m)
      PROVE  t \in Tables /\ IF goal[m] = "upgrade" THEN Rank(t) <= d ELSE 14 - Rank(t) <= d
  <2>1. PICK i \in 1..d : t = s[i]
    BY <1>3
  <2>2. i \in 1..13
    BY <1>1
  <2> QED
    BY <1>1, <1>2, <2>1, <2>2
<1>5. ASSUME NEW t \in Tables, IF goal[m] = "upgrade" THEN Rank(t) <= d ELSE 14 - Rank(t) <= d
      PROVE  t \in Changed(m)
  <2> DEFINE i == IF goal[m] = "upgrade" THEN Rank(t) ELSE 14 - Rank(t)
  <2>1. Rank(t) \in 1..13
    BY TableOfRank
  <2>2. i \in 1..13 /\ i \in 1..d
    BY <1>1, <1>5, <2>1
  <2>3. s[i] \in Tables /\ Rank(s[i]) = Rank(t)
    BY <1>2, <2>1, <2>2
  <2>4. s[i] = t
    BY <2>3, RankIsOneToOne
  <2> QED
    BY <1>3, <2>2, <2>4
<1> QED
  BY <1>4, <1>5 DEF d

(* The next statement of a running migration.                                *)
LEMMA StatementIs ==
    ASSUME NEW m \in Migrators, TypeOK, NEW g, Running(m, g)
    PROVE  /\ done[m] \in 0..12 /\ Statement(m) \in Tables
           /\ Rank(Statement(m)) = (IF g = "upgrade" THEN done[m] + 1 ELSE 13 - done[m])
<1>1. Len(Downgrade) = 13
  BY DEF Downgrade
<1>2. done[m] \in 0..13 /\ goal[m] = g /\ done[m] < 13
  BY <1>1, Scripts DEF TypeOK, Running
<1>3. done[m] + 1 \in 1..13
  BY <1>2
<1>4. Statement(m) = Statements(g)[done[m] + 1]
  BY <1>2 DEF Statement
<1>5. /\ Statements(g)[done[m] + 1] \in Tables
      /\ Rank(Statements(g)[done[m] + 1])
           = IF g = "upgrade" THEN done[m] + 1 ELSE 14 - (done[m] + 1)
  BY <1>3, Scripts
<1> QED
  BY <1>2, <1>4, <1>5

(* A statement that waits for nobody can be executed, unless the migration's *)
(* goal has been reached: what it needs, the statements before it have made. *)
LEMMA FailsOnlyAtGoal ==
    ASSUME IInv, NEW m \in Migrators, Fails(m)
    PROVE  version = (IF goal[m] = "upgrade" THEN "0001" ELSE None)
<1> DEFINE t == Statement(m)
<1>1. /\ TypeOK /\ tables \in {{}, Tables} /\ goal[m] \in {"upgrade", "downgrade"}
      /\ version = IF tables = {} THEN None ELSE "0001"
  BY DEF IInv, TypeOK, TablesAreWhole, Fails
<1>2. /\ done[m] \in 0..12 /\ t \in Tables
      /\ Rank(t) = (IF goal[m] = "upgrade" THEN done[m] + 1 ELSE 13 - done[m])
  BY <1>1, StatementIs DEF Fails
<1>3. ~Executable(m)
  BY DEF Fails
<1>4. Changed(m) = {u \in Tables : IF goal[m] = "upgrade" THEN Rank(u) <= done[m]
                                    ELSE 14 - Rank(u) <= done[m]}
  BY <1>1, ChangedIs
<1>5. \A u \in Tables : Rank(u) \in 1..13
  BY TableOfRank
<1>6. \A u \in Tables : \A p \in Parents(u) : p \in Tables /\ Rank(p) < Rank(u)
  BY ParentsGoBack
<1> HIDE DEF t
<1>7. CASE goal[m] = "upgrade"
  <2>1. SUFFICES ASSUME tables = {} PROVE FALSE
    BY <1>1, <1>7, TableNames
  <2>2. Visible(m) = Changed(m)
    BY <1>7, <2>1 DEF Visible
  <2>3. t \notin Visible(m)
    BY <1>2, <1>4, <1>7, <2>2
  <2>4. Parents(t) \subseteq Visible(m)
    BY <1>2, <1>4, <1>5, <1>6, <1>7, <2>2
  <2> QED
    BY <1>3, <1>7, <2>3, <2>4 DEF Executable, t
<1>8. CASE goal[m] = "downgrade"
  <2>1. SUFFICES ASSUME tables = Tables PROVE FALSE
    BY <1>1, <1>8
  <2>2. Visible(m) = Tables \ Changed(m)
    BY <1>8, <2>1 DEF Visible
  <2>3. t \in Visible(m)
    BY <1>2, <1>4, <1>8, <2>2
  <2>4. ASSUME NEW u \in Visible(m), t \in Parents(u) PROVE FALSE
    <3>1. u \in Tables /\ Rank(t) < Rank(u) /\ ~(14 - Rank(u) <= done[m])
      BY <1>4, <1>6, <1>8, <2>2, <2>4
    <3> QED
      BY <1>2, <1>5, <1>8, <3>1
  <2> QED
    BY <1>3, <1>8, <2>3, <2>4 DEF Executable, t
<1> QED
  BY <1>1, <1>7, <1>8

(* The invariant one step later, when the step leaves the rows alone.        *)
LEMMA SameRows ==
    ASSUME IInv, rows' = rows, tables' = tables
    PROVE  RowsAreWhole' /\ Typed(rows')
BY DEF IInv, TypeOK, Typed, RowsAreWhole, Numbered, Nulls, Keyed

(* Init.                                                                     *)
LEMMA InitIsWhole == Init => IInv
<1> SUFFICES ASSUME Init PROVE IInv
  OBVIOUS
<1>1. Len(Downgrade) = 13
  BY DEF Downgrade
<1>2. TypeOK
  BY <1>1, SchemaAssumption DEF Init, TypeOK
<1>3. TablesAreWhole
  BY DEF Init, TablesAreWhole
<1>4. RowsAreWhole
  BY DEF Init, RowsAreWhole, Numbered, Nulls, Keyed
<1> QED
  BY <1>2, <1>3, <1>4 DEF IInv

(* A migration that starts has changed nothing.                              *)
LEMMA StartKeeps ==
    ASSUME IInv, NEW m \in Migrators, NEW g \in {"upgrade", "downgrade"}, Start(m, g)
    PROVE  IInv'
<1>1. /\ TypeOK /\ TablesAreWhole /\ RowsAreWhole
      /\ goal[m] = None /\ done[m] = 0 /\ migrations < MaxMigrations
      /\ goal' = [goal EXCEPT ![m] = g] /\ migrations' = migrations + 1
      /\ tables' = tables /\ version' = version /\ done' = done /\ rows' = rows
  BY DEF IInv, TablesAreWhole, Start
<1>2. goal' \in [Migrators -> {"upgrade", "downgrade", None}]
  BY <1>1 DEF TypeOK
<1>3. \A n \in Migrators : n # m => goal'[n] = goal[n] /\ Changed(n)' = Changed(n)
  <2>1. \A n \in Migrators : n # m => goal'[n] = goal[n]
    BY <1>1 DEF TypeOK
  <2> QED
    BY <1>1, <2>1 DEF Changed
<1>4. Changed(m)' = {}
  BY <1>1 DEF Changed
<1>5. \A x, y \in Migrators :
        x # y /\ goal'[x] # None /\ goal'[y] # None => Changed(x)' \cap Changed(y)' = {}
  <2>1. \A x, y \in Migrators :
          x # y /\ goal[x] # None /\ goal[y] # None => Changed(x) \cap Changed(y) = {}
    BY <1>1 DEF TypeOK
  <2> QED
    BY <1>3, <1>4, <2>1
<1>6. migrations' \in 0..MaxMigrations
  BY <1>1, SchemaAssumption DEF TypeOK
<1>7. TypeOK'
  BY <1>1, <1>2, <1>5, <1>6, SameRows DEF TypeOK, Typed
<1>8. TablesAreWhole'
  <2>1. \A n \in Migrators : goal'[n] = None => done'[n] = 0
    BY <1>1, <1>3 DEF TablesAreWhole
  <2> QED
    BY <1>1, <2>1 DEF TablesAreWhole
<1> QED
  BY <1>1, <1>7, <1>8, SameRows DEF IInv

(* A statement changes a table no other migration has changed.               *)
LEMMA AdvanceKeeps ==
    ASSUME IInv, NEW m \in Migrators, NEW g \in {"upgrade", "downgrade"},
           Running(m, g), ~Waits(m), Advance(m)
    PROVE  IInv'
<1>1. /\ TypeOK /\ TablesAreWhole /\ RowsAreWhole /\ goal[m] = g /\ goal' = goal
      /\ done' = [done EXCEPT ![m] = @ + 1]
      /\ tables' = tables /\ version' = version /\ migrations' = migrations /\ rows' = rows
  BY DEF IInv, Running, Advance
<1>2. done[m] \in 0..12 /\ Len(Downgrade) = 13
  <2>1. Len(Downgrade) = 13
    BY DEF Downgrade
  <2> QED
    BY <1>1, <2>1, StatementIs
<1>3. /\ done' \in [Migrators -> 0..Len(Downgrade)] /\ done'[m] = done[m] + 1
      /\ \A n \in Migrators : n # m => done'[n] = done[n]
  BY <1>1, <1>2 DEF TypeOK
<1>4. \A n \in Migrators : n # m => Changed(n)' = Changed(n)
  BY <1>1, <1>3 DEF Changed
<1>5. Changed(m)' = Changed(m) \cup {Statement(m)}
  <2>1. 1..(done[m] + 1) = 1..done[m] \cup {done[m] + 1}
    BY <1>2
  <2> DEFINE s == Statements(goal[m])
  <2>2. Changed(m) = {s[i] : i \in 1..done[m]} /\ Statement(m) = s[done[m] + 1]
    BY DEF Changed, Statement
  <2>3. Changed(m)' = {s[i] : i \in 1..(done[m] + 1)}
    BY <1>1, <1>3 DEF Changed
  <2> HIDE DEF s
  <2> QED
    BY <2>1, <2>2, <2>3
<1>6. \A n \in Migrators : n # m /\ goal[n] # None => Statement(m) \notin Changed(n)
  BY DEF Waits
<1>7. \A x, y \in Migrators :
        x # y /\ goal'[x] # None /\ goal'[y] # None => Changed(x)' \cap Changed(y)' = {}
  <2>1. \A x, y \in Migrators :
          x # y /\ goal[x] # None /\ goal[y] # None => Changed(x) \cap Changed(y) = {}
    BY <1>1 DEF TypeOK
  <2> QED
    BY <1>1, <1>4, <1>5, <1>6, <2>1
<1>8. TypeOK'
  BY <1>1, <1>3, <1>7, SameRows DEF TypeOK, Typed
<1>9. TablesAreWhole'
  BY <1>1, <1>3, SchemaAssumption DEF TablesAreWhole
<1> QED
  BY <1>1, <1>8, <1>9, SameRows DEF IInv

(* What a migration that ends leaves of the others.                          *)
LEMMA EndKeeps ==
    ASSUME IInv, NEW m \in Migrators, End(m), tables' \subseteq Tables,
           version' \in {None, "0001"}, Typed(rows')
    PROVE  TypeOK' /\ \A n \in Migrators : goal'[n] = None => done'[n] = 0
<1>1. /\ TypeOK /\ TablesAreWhole
      /\ goal' = [goal EXCEPT ![m] = None] /\ done' = [done EXCEPT ![m] = 0]
      /\ migrations' = migrations
  BY DEF IInv, End
<1>2. Len(Downgrade) = 13
  BY DEF Downgrade
<1>3. /\ goal' \in [Migrators -> {"upgrade", "downgrade", None}] /\ goal'[m] = None
      /\ done' \in [Migrators -> 0..Len(Downgrade)] /\ done'[m] = 0
      /\ \A n \in Migrators : n # m => goal'[n] = goal[n] /\ done'[n] = done[n]
  BY <1>1, <1>2 DEF TypeOK
<1>4. \A n \in Migrators : n # m => Changed(n)' = Changed(n)
  BY <1>3 DEF Changed
<1>5. \A x, y \in Migrators :
        x # y /\ goal'[x] # None /\ goal'[y] # None => Changed(x)' \cap Changed(y)' = {}
  BY <1>1, <1>3, <1>4 DEF TypeOK
<1>6. TypeOK'
  BY <1>1, <1>3, <1>5 DEF TypeOK, Typed
<1> QED
  BY <1>1, <1>3, <1>6 DEF TablesAreWhole

(* A migration rolled back leaves everything as it was.                      *)
LEMMA RollBackKeeps ==
    ASSUME IInv, NEW m \in Migrators, RollBack(m)
    PROVE  IInv'
<1>1. /\ TypeOK /\ TablesAreWhole /\ RowsAreWhole /\ End(m)
      /\ tables' = tables /\ version' = version /\ rows' = rows
  BY DEF IInv, RollBack
<1>2. tables' \subseteq Tables /\ version' \in {None, "0001"} /\ Typed(rows')
  BY <1>1, SameRows DEF TypeOK
<1>3. TypeOK' /\ \A n \in Migrators : goal'[n] = None => done'[n] = 0
  BY <1>1, <1>2, EndKeeps
<1>4. TablesAreWhole'
  BY <1>1, <1>3 DEF TablesAreWhole
<1> QED
  BY <1>1, <1>3, <1>4, SameRows DEF IInv

(* A migration that finishes has changed all tables.                         *)
LEMMA FinishKeeps ==
    ASSUME IInv, NEW m \in Migrators, Finish(m)
    PROVE  IInv'
<1>1. /\ TypeOK /\ TablesAreWhole /\ RowsAreWhole /\ End(m) /\ goal[m] # None
      /\ done[m] = 13 /\ tables' = Visible(m)
      /\ version' = (IF goal[m] = "upgrade" THEN "0001" ELSE None)
      /\ rows' = {r \in rows : r.table \in Visible(m)}
  BY Scripts DEF IInv, Finish
<1>2. Changed(m) = Tables
  <2>1. \A t \in Tables : Rank(t) <= 13 /\ 14 - Rank(t) <= 13
    BY TableOfRank
  <2> QED
    BY <1>1, <2>1, ChangedIs
<1>3. Typed(rows) /\ tables \subseteq Tables
  BY <1>1 DEF TypeOK, Typed
<1>4. CASE goal[m] = "upgrade"
  <2>1. tables' = Tables
    BY <1>1, <1>2, <1>3, <1>4 DEF Visible
  <2>2. rows' = rows
    BY <1>1, <1>3, <2>1 DEF Typed
  <2>3. TypeOK' /\ \A n \in Migrators : goal'[n] = None => done'[n] = 0
    BY <1>1, <1>3, <1>4, <2>1, <2>2, EndKeeps
  <2>4. Tables # {}
    BY TableNames
  <2>5. TablesAreWhole'
    BY <1>1, <1>4, <2>1, <2>3, <2>4 DEF TablesAreWhole
  <2>6. RowsAreWhole'
    BY <1>1, <1>3, <2>1, <2>2 DEF RowsAreWhole, Typed, Numbered, Nulls, Keyed
  <2> QED
    BY <2>3, <2>5, <2>6 DEF IInv
<1>5. CASE goal[m] # "upgrade"
  <2>1. tables' = {}
    BY <1>1, <1>2, <1>3, <1>5 DEF Visible
  <2>2. rows' = {}
    BY <1>1, <2>1
  <2>3. TypeOK' /\ \A n \in Migrators : goal'[n] = None => done'[n] = 0
    BY <1>1, <1>5, <2>1, <2>2, EndKeeps DEF Typed
  <2>4. TablesAreWhole'
    BY <1>1, <1>5, <2>1, <2>3 DEF TablesAreWhole
  <2>5. RowsAreWhole'
    BY <2>2 DEF RowsAreWhole, Numbered, Nulls, Keyed
  <2> QED
    BY <2>3, <2>4, <2>5 DEF IInv
<1> QED
  BY <1>4, <1>5

(* A statement on rows leaves tables and migrations alone.                   *)
LEMMA RowsChange ==
    ASSUME IInv, UNCHANGED <<tables, version, goal, done, migrations>>,
           Typed(rows'), Numbered(rows'), Nulls(rows'), Keyed(rows'),
           \A r \in rows' : r.table \in tables
    PROVE  IInv'
<1>1. \A n : Changed(n)' = Changed(n)
  BY DEF Changed
<1>2. TypeOK'
  BY <1>1 DEF IInv, TypeOK, Typed
<1>3. TablesAreWhole'
  BY DEF IInv, TablesAreWhole
<1>4. RowsAreWhole'
  BY DEF RowsAreWhole, Numbered, Nulls, Keyed
<1> QED
  BY <1>2, <1>3, <1>4 DEF IInv

(* A new row has a free number, and its keys name rows.                      *)
LEMMA InsertKeeps ==
    ASSUME IInv, NEW t \in Tables, Insert(t)
    PROVE  IInv'
<1>1. PICK r \in RowsOf(t) :
        /\ \A q \in rows : q.table = t => q.id # r.id
        /\ \A p \in Parents(t) : \/ r.refs[p] = None /\ <<t, p>> \in Nullable
                                 \/ \E q \in rows : q.table = p /\ q.id = r.refs[p]
        /\ rows' = rows \cup {r}
  BY DEF Insert
<1>2. /\ UNCHANGED <<tables, version, goal, done, migrations>> /\ t \in tables
      /\ Typed(rows) /\ Numbered(rows) /\ Nulls(rows) /\ Keyed(rows)
      /\ \A q \in rows : q.table \in tables
  BY DEF Insert, IInv, TypeOK, Typed, RowsAreWhole
<1>3. r.table = t /\ DOMAIN r.refs = Parents(t)
  BY DEF RowsOf
<1>4. Typed(rows')
  BY <1>1, <1>2, <1>3 DEF Typed
<1>5. Numbered(rows')
  BY <1>1, <1>2, <1>3 DEF Numbered
<1>6. Nulls(rows')
  <2>1. ASSUME NEW p \in Parents(t), r.refs[p] = None PROVE <<t, p>> \in Nullable
    <3>1. \A q \in rows : q.id # None
      BY <1>2, RowIs, SchemaAssumption
    <3> QED
      BY <1>1, <2>1, <3>1
  <2> QED
    BY <1>1, <1>2, <1>3, <2>1 DEF Nulls
<1>7. Keyed(rows')
  <2>1. SUFFICES ASSUME NEW q \in rows', NEW u \in DOMAIN q.refs, q.refs[u] # None
                 PROVE  \E p \in rows' : p.table = u /\ p.id = q.refs[u]
    BY DEF Keyed
  <2>2. CASE q \in rows
    BY <1>1, <1>2, <2>1, <2>2 DEF Keyed
  <2>3. CASE q = r
    BY <1>1, <1>3, <2>1, <2>3
  <2> QED
    BY <1>1, <2>2, <2>3
<1>8. \A q \in rows' : q.table \in tables
  BY <1>1, <1>2, <1>3
<1> QED
  BY <1>2, <1>4, <1>5, <1>6, <1>7, <1>8, RowsChange

(* A deletion, by the database or through the ORM, leaves every key whole.   *)
LEMMA DeleteStepKeeps ==
    ASSUME IInv, NEW r \in rows, Delete(r)
    PROVE  IInv'
<1>1. /\ UNCHANGED <<tables, version, goal, done, migrations>>
      /\ Typed(rows) /\ Numbered(rows) /\ Nulls(rows) /\ Keyed(rows)
      /\ r.table \in tables /\ tables \in {{}, Tables}
  BY DEF Delete, IInv, TypeOK, Typed, TablesAreWhole, RowsAreWhole
<1>2. Typed(rows') /\ Numbered(rows') /\ Nulls(rows') /\ Keyed(rows')
  <2>1. rows' = AfterDelete(r)
    BY <1>1, OrmIsDelete DEF Delete
  <2> QED
    BY <1>1, <2>1, DeleteKeeps
<1>3. \A q \in rows' : q.table \in tables
  BY <1>1, <1>2 DEF Typed
<1> QED
  BY <1>1, <1>2, <1>3, RowsChange

(* Every step keeps the invariant.                                           *)
LEMMA StepKeeps == IInv /\ [Next]_vars => IInv'
<1> SUFFICES ASSUME IInv, [Next]_vars PROVE IInv'
  OBVIOUS
<1>1. ASSUME NEW m \in Migrators, NEW g \in {"upgrade", "downgrade"}, Start(m, g)
      PROVE  IInv'
  BY <1>1, StartKeeps
<1>2. ASSUME NEW m \in Migrators, Create(m) PROVE IInv'
  BY <1>2, AdvanceKeeps DEF Create
<1>3. ASSUME NEW m \in Migrators, Drop(m) PROVE IInv'
  BY <1>3, AdvanceKeeps DEF Drop
<1>4. ASSUME NEW m \in Migrators, Fail(m) \/ Kill(m) PROVE IInv'
  BY <1>4, RollBackKeeps DEF Fail, Kill
<1>5. ASSUME NEW m \in Migrators, Finish(m) PROVE IInv'
  BY <1>5, FinishKeeps
<1>6. ASSUME NEW t \in Tables, Insert(t) PROVE IInv'
  BY <1>6, InsertKeeps
<1>7. ASSUME NEW r \in rows, Delete(r) PROVE IInv'
  BY <1>7, DeleteStepKeeps
<1>8. CASE UNCHANGED vars
  <2>1. \A n : Changed(n)' = Changed(n)
    BY <1>8 DEF vars, Changed
  <2> QED
    BY <1>8, <2>1 DEF vars, IInv, TypeOK, TablesAreWhole, RowsAreWhole, Numbered, Nulls, Keyed
<1> QED
  BY <1>1, <1>2, <1>3, <1>4, <1>5, <1>6, <1>7, <1>8 DEF Next

(* The invariant holds at every moment.                                      *)
LEMMA AlwaysWhole == Spec => []IInv
BY InitIsWhole, StepKeeps, PTL DEF Spec

(* Tables, versions, migrations and rows keep their types, and no two        *)
(* migrations have changed one table at once.                                *)
THEOREM TypeCorrect == Spec => []TypeOK
<1>1. IInv => TypeOK
  BY DEF IInv
<1> QED
  BY AlwaysWhole, <1>1, PTL

(* However many migrations overlap, fail or are killed, and whatever rows are*)
(* deleted in which way, the tables and the version appear and disappear     *)
(* together, every foreign key names a row, and a statement of upgrade() or  *)
(* downgrade() fails only when another migration has reached its goal.       *)
THEOREM SchemaStaysWhole == Spec => []SchemaIsWhole
<1>1. IInv => SchemaIsWhole
  <2> SUFFICES ASSUME IInv PROVE SchemaIsWhole
    OBVIOUS
  <2>1. /\ tables \in {{}, Tables} /\ version = (IF tables = {} THEN None ELSE "0001")
        /\ \A r \in rows : r.table \in tables
        /\ Typed(rows) /\ Nulls(rows) /\ Keyed(rows)
    BY DEF IInv, TypeOK, Typed, TablesAreWhole, RowsAreWhole
  <2>2. ASSUME NEW r \in rows, NEW t \in DOMAIN r.refs
        PROVE  IF r.refs[t] = None THEN <<r.table, t>> \in Nullable
               ELSE \E p \in rows : PointsTo(r, p) /\ p.table = t
    <3>1. CASE r.refs[t] = None
      BY <2>1, <3>1 DEF Nulls
    <3>2. CASE r.refs[t] # None
      <4>1. PICK p \in rows : p.table = t /\ p.id = r.refs[t]
        BY <2>1, <3>2 DEF Keyed
      <4> QED
        BY <3>2, <4>1 DEF PointsTo
    <3> QED
      BY <3>1, <3>2
  <2>3. \A m \in Migrators :
          Fails(m) => version = (IF goal[m] = "upgrade" THEN "0001" ELSE None)
    BY FailsOnlyAtGoal
  <2> QED
    BY <2>1, <2>2, <2>3 DEF SchemaIsWhole
<1> QED
  BY AlwaysWhole, <1>1, PTL

(* The relationships of the models and the ON DELETE rules of the migration  *)
(* say the same twice: whichever deletes a row, the same rows are left, and  *)
(* these have forgotten the same.                                            *)
THEOREM ModelsMatchMigration == Spec => []OrmDeletesLikeSql
<1>1. IInv => OrmDeletesLikeSql
  <2>1. SUFFICES ASSUME IInv, NEW d \in rows PROVE AfterOrmDelete(d) = AfterDelete(d)
    BY DEF OrmDeletesLikeSql
  <2>2. Typed(rows) /\ Numbered(rows)
    BY <2>1 DEF IInv, TypeOK, Typed, RowsAreWhole
  <2> QED
    BY <2>1, <2>2, OrmIsDelete
<1> QED
  BY AlwaysWhole, <1>1, PTL
-----------------------------------------------------------------------------
(* Rows kept as history hang on their service alone.                         *)
LEMMA HistoryHangsOnServices ==
    ASSUME NEW t \in History, NEW p, <<t, p>> \in Cascading
    PROVE  p = "services"
<1>1. PICK key \in Tables \X Tables : key = <<t, p>> /\ <<key[2], "CASCADE">> \in References(key[1])
  BY Zenon DEF Cascading, Keys
<1>2. <<p, "CASCADE">> \in References(t)
  BY <1>1, PairOf
<1>3. CASE t = "anomalies"
  <2>1. References(t) = {<<"services", "CASCADE">>, <<"endpoints", "SET NULL">>,
                         <<"metric_aggregates", "SET NULL">>, <<"incidents", "SET NULL">>}
    BY <1>3, ReferencesAre, Zenon
  <2> QED
    BY <1>2, <2>1
<1>4. CASE t = "telemetry_events"
  <2>1. References(t) = {<<"services", "CASCADE">>, <<"endpoints", "SET NULL">>}
    BY <1>4, ReferencesAre, Zenon
  <2> QED
    BY <1>2, <2>1
<1> QED
  BY <1>3, <1>4 DEF History

(* Nothing refers to a row kept as history.                                  *)
LEMMA NobodyRefers ==
    ASSUME NEW S, Typed(S), NEW q \in S, NEW p, p.table \in History
    PROVE  ~PointsTo(q, p)
<1>1. q.table \in Tables /\ DOMAIN q.refs = Parents(q.table)
  BY RowIs
<1>2. p.table \notin Parents(q.table)
  BY <1>1, ParentsGoBack
<1> QED
  BY <1>1, <1>2 DEF PointsTo

(* A row nothing refers to takes no other with it.                           *)
LEMMA LonelyClosure ==
    ASSUME NEW S, Typed(S), NEW r \in S, \A q \in S : ~PointsTo(q, r), NEW keys
    PROVE  Closure(S, r, keys) = {r}
<1>1. PICK gone : gone = Closure(S, r, keys)
  OBVIOUS
<1>2. /\ gone \subseteq S \cup {r} /\ r \in gone
      /\ \A q \in S \ {r} :
           q \in gone <=> \E p \in gone : PointsTo(q, p) /\ <<q.table, p.table>> \in keys
  BY <1>1, ClosureIs
<1> DEFINE others == gone \ {r}
<1>3. others \subseteq S
  BY <1>2
<1>4. ASSUME NEW q \in others PROVE \E p \in others : PointsTo(q, p)
  <2>1. q \in S \ {r}
    BY <1>2
  <2>2. PICK p \in gone : PointsTo(q, p)
    BY <1>2, <1>4, <2>1
  <2> QED
    BY <2>1, <2>2
<1> HIDE DEF others
<1>5. others = {}
  BY <1>3, <1>4, Descent
<1> QED
  BY <1>1, <1>2, <1>5 DEF others

(* A row that names none of those that go stays as it is.                    *)
LEMMA NullifiedSame ==
    ASSUME NEW S, Typed(S), NEW r \in S, NEW gone, \A p \in gone : ~PointsTo(r, p), NEW keys
    PROVE  Nullified(r, gone, keys) = r
<1>1. r.table \in Tables /\ r \in RowsOf(r.table)
  BY RowIs
<1>2. PICK q : q = Nullified(r, gone, keys)
  OBVIOUS
<1>3. /\ q \in RowsOf(r.table) /\ q.table = r.table /\ q.id = r.id
      /\ DOMAIN q.refs = DOMAIN r.refs /\ \A u \in DOMAIN r.refs : q.refs[u] = r.refs[u]
  <2>1. /\ q \in RowsOf(r.table) /\ q.table = r.table /\ q.id = r.id
        /\ DOMAIN q.refs = DOMAIN r.refs
        /\ \A u \in DOMAIN r.refs :
             q.refs[u] = IF <<r.table, u>> \in keys /\ \E p \in gone : p.table = u /\ PointsTo(r, p)
                         THEN None ELSE r.refs[u]
    BY <1>1, <1>2, NullifiedIs
  <2> QED
    BY <2>1
<1>4. /\ r.refs \in [Parents(r.table) -> {1, 2, None}]
      /\ q.refs \in [Parents(r.table) -> {1, 2, None}]
      /\ r = [table |-> r.table, id |-> r.id, refs |-> r.refs]
      /\ q = [table |-> q.table, id |-> q.id, refs |-> q.refs]
  BY <1>1, <1>3 DEF RowsOf
<1>5. q.refs = r.refs
  BY <1>3, <1>4
<1> QED
  BY <1>2, <1>3, <1>4, <1>5

(* q is r, its keys unchanged but for some to rows that go.                  *)
Forgets(r, q, gone) ==
    /\ q.table = r.table /\ q.id = r.id /\ DOMAIN q.refs = DOMAIN r.refs
    /\ \A t \in DOMAIN r.refs :
         \/ q.refs[t] = r.refs[t]
         \/ q.refs[t] = None /\ \E p \in gone : p.table = t /\ PointsTo(r, p)

(* The rows that stay.                                                       *)
Remaining(S, gone, keys) == {Nullified(q, gone, keys) : q \in S \ gone}

(* What is left of the rows when some go: each that stays, with only keys to *)
(* those that go forgotten, and no row with the number of one that went.     *)
LEMMA WhatStays ==
    ASSUME NEW S, Typed(S), Numbered(S), NEW gone, NEW keys,
           NEW left, left = Remaining(S, gone, keys)
    PROVE  /\ \A r \in S \ gone : \E q \in left : Forgets(r, q, gone)
           /\ \A q \in left : \E r \in S \ gone : SameRow(q, r)
           /\ \A p \in gone \cap S : \A q \in left : ~SameRow(q, p)
<1>1. ASSUME NEW r \in S \ gone
      PROVE  Nullified(r, gone, keys) \in left /\ Forgets(r, Nullified(r, gone, keys), gone)
  <2>1. r.table \in Tables /\ r \in RowsOf(r.table)
    BY RowIs
  <2>2. PICK q : q = Nullified(r, gone, keys)
    OBVIOUS
  <2>3. /\ q.table = r.table /\ q.id = r.id /\ DOMAIN q.refs = DOMAIN r.refs
        /\ \A t \in DOMAIN r.refs :
             q.refs[t] = IF <<r.table, t>> \in keys /\ \E p \in gone : p.table = t /\ PointsTo(r, p)
                         THEN None ELSE r.refs[t]
    BY <2>1, <2>2, NullifiedIs
  <2>4. Forgets(r, q, gone)
    BY <2>3 DEF Forgets
  <2> QED
    BY <2>2, <2>4 DEF Remaining
<1>2. \A q \in left : \E r \in S \ gone : SameRow(q, r)
  BY <1>1 DEF Remaining, Forgets, SameRow
<1>3. ASSUME NEW p \in gone \cap S, NEW q \in left, SameRow(q, p)
      PROVE  FALSE
  <2>1. PICK r \in S \ gone : SameRow(q, r)
    BY <1>2
  <2>2. r = p
    BY <1>3, <2>1 DEF Numbered, SameRow
  <2> QED
    BY <2>2
<1> QED
  BY <1>1, <1>2, <1>3

(* What DeletionsKeepHistory says of a row when the rows left are these.     *)
Kept(r, left) ==
    \E q \in left :
      /\ q.table = r.table /\ q.id = r.id
      /\ \A t \in DOMAIN r.refs :
           \/ q.refs[t] = r.refs[t]
           \/ q.refs[t] = None /\ ~\E p \in left : p.table = t /\ PointsTo(r, p)

(* A row kept as history goes alone when it is deleted itself.               *)
LEMMA DeletedAlone ==
    ASSUME NEW S, Typed(S), NEW r \in S, r.table \in History, NEW keys
    PROVE  /\ Closure(S, r, keys) = {r}
           /\ {Nullified(q, {r}, keys) : q \in S \ {r}} = S \ {r}
<1>1. \A q \in S : ~PointsTo(q, r)
  BY NobodyRefers
<1>2. Closure(S, r, keys) = {r}
  BY <1>1, LonelyClosure
<1>3. \A q \in S \ {r} : Nullified(q, {r}, keys) = q
  BY <1>1, NullifiedSame
<1> QED
  BY <1>2, <1>3

(* While its service stays, a deletion elsewhere keeps a row of history.     *)
LEMMA DeleteKeepsHistory ==
    ASSUME NEW d \in rows, NEW r \in rows, Typed(rows), Numbered(rows), r.table \in History,
           NEW left, left = AfterDelete(d), left # rows \ {r},
           NEW s \in left, s.table = "services", PointsTo(r, s)
    PROVE  Kept(r, left)
<1>1. PICK gone : gone = Closure(rows, d, Cascading)
  OBVIOUS
<1>2. left = Remaining(rows, gone, Nullable)
  BY <1>1 DEF AfterDelete, Remaining
<1>3. /\ gone \subseteq rows
      /\ \A q \in rows \ {d} :
           q \in gone => \E p \in gone : PointsTo(q, p) /\ <<q.table, p.table>> \in Cascading
  BY <1>1, ClosureIs
<1>4. r # d
  <2>1. SUFFICES ASSUME r = d PROVE FALSE
    OBVIOUS
  <2>2. gone = {r}
    BY <1>1, <2>1, DeletedAlone
  <2>3. left = rows \ {r}
    BY <1>2, <2>2, DeletedAlone DEF Remaining
  <2> QED
    BY <2>3
<1>5. /\ \A x \in rows \ gone : \E q \in left : Forgets(x, q, gone)
      /\ \A p \in gone \cap rows : \A q \in left : ~SameRow(q, p)
  BY <1>2, WhatStays
<1>6. ASSUME NEW p \in gone, PointsTo(r, p), NEW q \in left, q.table = p.table, PointsTo(r, q)
      PROVE  FALSE
  BY <1>3, <1>5, <1>6 DEF PointsTo, SameRow
<1>7. r \notin gone
  <2>1. SUFFICES ASSUME r \in gone PROVE FALSE
    OBVIOUS
  <2>2. PICK p \in gone : PointsTo(r, p) /\ <<r.table, p.table>> \in Cascading
    BY <1>3, <1>4, <2>1
  <2>3. p.table = "services"
    BY <2>2, HistoryHangsOnServices
  <2> QED
    BY <1>6, <2>2, <2>3
<1>8. PICK q \in left : Forgets(r, q, gone)
  BY <1>5, <1>7
<1> QED
  BY <1>6, <1>8 DEF Kept, Forgets

(* While its service stays, an anomaly or an event leaves only by its own    *)
(* deletion, and when other rows are deleted, by the database or through the *)
(* ORM, it forgets those and nothing else.                                   *)
THEOREM HistoryIsKept == Spec => DeletionsKeepHistory
<1>1. IInv /\ [Next]_vars =>
        [tables' = tables =>
           \A r \in rows :
             /\ r.table \in {"anomalies", "telemetry_events"}
             /\ rows' # rows \ {r}
             /\ \E p \in rows' : p.table = "services" /\ PointsTo(r, p)
             => \E q \in rows' :
                  /\ q.table = r.table /\ q.id = r.id
                  /\ \A t \in DOMAIN r.refs :
                       \/ q.refs[t] = r.refs[t]
                       \/ q.refs[t] = None /\ ~\E p \in rows' : p.table = t /\ PointsTo(r, p)]_vars
  <2>1. SUFFICES ASSUME IInv, Next, tables' = tables, NEW r \in rows, r.table \in History,
                        rows' # rows \ {r},
                        NEW s \in rows', s.table = "services", PointsTo(r, s)
                 PROVE  Kept(r, rows')
    BY DEF History, Kept
  <2>2. Typed(rows) /\ Numbered(rows) /\ \A q \in rows : q.table \in tables
    BY <2>1 DEF IInv, TypeOK, Typed, RowsAreWhole
  <2>3. CASE rows \subseteq rows'
    BY <2>3 DEF Kept
  <2>4. ASSUME NEW m \in Migrators, Finish(m) PROVE rows \subseteq rows'
    BY <2>1, <2>2, <2>4 DEF Finish
  <2>5. ASSUME NEW t \in Tables, Insert(t) PROVE rows \subseteq rows'
    BY <2>5 DEF Insert
  <2>6. ASSUME NEW d \in rows, Delete(d) PROVE Kept(r, rows')
    <3>1. rows' = AfterDelete(d)
      BY <2>2, <2>6, OrmIsDelete DEF Delete
    <3> QED
      BY <2>1, <2>2, <3>1, DeleteKeepsHistory
  <2>7. CASE rows' = rows
    BY <2>3, <2>7
  <2>8. \/ rows' = rows
        \/ \E m \in Migrators : Finish(m)
        \/ \E t \in Tables : Insert(t)
        \/ \E d \in rows : Delete(d)
    BY <2>1 DEF Next, Start, Create, Drop, Advance, Fail, Kill, RollBack
  <2> QED
    BY <2>3, <2>4, <2>5, <2>6, <2>7, <2>8
<1> QED
  BY AlwaysWhole, <1>1, PTL DEF Spec, DeletionsKeepHistory
=============================================================================
