-------------------------- MODULE SchemaMigrations --------------------------
(***************************************************************************)
(* The Alembic chain of src/backend/alembic/versions: 34 revisions, each   *)
(* with an upgrade and a downgrade, run over a database that holds rows.   *)
(*                                                                         *)
(* The server upgrades to the newest revision when it starts               *)
(* (db/__init__.py); an operator may take revisions back.  A revision runs *)
(* in a transaction: PostgreSQL refuses it as a whole when it drops what   *)
(* is not there, creates what is, leaves a reference to a missing table,   *)
(* or adds a CHECK or a NOT NULL the rows do not satisfy.                  *)
(*                                                                         *)
(* rows holds the values that occur: <<t, c, v>> says that some row of t   *)
(* has v in column c.                                                      *)
(***************************************************************************)
EXTENDS Naturals, Sequences, FiniteSets, DatabaseModels

CONSTANTS
    Values,    \* the <<t, c, v>> some release of the application may write
    MaxRows    \* bound on the values written

VARIABLES version, schema, rows, refused
schemaVars == <<version, schema, rows, refused>>

-----------------------------------------------------------------------------
(* The baseline, in the order its tables are created. *)

BaselineAccounts == UNION {
    Table("device_types", NoFields, {{"name"}}, [category |-> {"boat_tracker", "wearable"}]),
    Table("permissions", NoFields, {{"key"}}, NoFields),
    Table("roles", NoFields, {{"name"}}, NoFields),
    Table("users", [profile_image_id |-> LinksTo("images")], {{"email"}},
        [status |-> {"inactive", "active", "deleted"}]),
    Column("users", {"terms_and_conditions"}, "required"),
    Table("wind_stations", NoFields, {{"provider", "external_station_id"}},
        [provider |-> {"noaa_ndbc", "noaa_metar", "open_meteo", "custom_device"},
        station_type |-> {"buoy", "metar", "forecast_grid", "custom_device"}]),
    Table("auth_refresh_tokens",
        [prev_id |-> LinksTo("auth_refresh_tokens"), user_id |-> PartOf("users")],
        {{"token_hash"}}, NoFields) }

BaselineMedia == UNION {
    Table("files", [created_by |-> LinksTo("users"), deleted_by |-> LinksTo("users")], {},
        [status |-> {"uploaded", "processed", "deleted"}]),
    Table("images", [created_by |-> LinksTo("users"), deleted_by |-> LinksTo("users")], {},
        [status |-> {"uploaded", "processed", "deleted"}]),
    Table("imports", [uploaded_by |-> LinksTo("users")], {},
        [status |-> {"pending", "processed", "failed"}]),
    Table("role_permissions",
        [permission_id |-> PartOf("permissions"), role_id |-> PartOf("roles")],
        {{"role_id", "permission_id"}}, NoFields),
    Table("wind_observations", [wind_station_id |-> PartOf("wind_stations")],
        {{"wind_station_id", "observed_at"}}, NoFields),
    Table("boat_classes", [logo_id |-> LinksTo("images")], {{"name"}}, NoFields) }

BaselineFleet == UNION {
    Table("clubs", [logo_id |-> LinksTo("images")], {}, NoFields),
    Table("groups", [created_by |-> LinksTo("users"), deleted_by |-> LinksTo("users"),
        profile_image_id |-> LinksTo("images")], {}, [visibility |-> {"public", "private"}]),
    Table("boats", [cert_id |-> LinksTo("files"), club_id |-> LinksTo("clubs"),
        mbsa_id |-> LinksTo("files")], {}, NoFields),
    Column("boats", {"type"}, "optional"),
    Table("regattas", [class_id |-> LinksTo("boat_classes"), club_id |-> Needs("clubs")], {},
        [scoring_system |-> {"low_point", "bonus_point", "custom"},
        status |-> {"scheduled", "active", "completed"}]) }

BaselineMembers == UNION {
    Table("user_clubs", [club_id |-> PartOf("clubs"), user_id |-> PartOf("users")],
        {{"user_id", "club_id"}}, [status |-> {"invited", "active", "deleted"}]),
    Table("user_groups", [group_id |-> PartOf("groups"), user_id |-> PartOf("users")],
        {{"user_id", "group_id"}}, [role |-> {"owner", "admin", "member"}]),
    Table("user_roles", [role_id |-> PartOf("roles"), scope_club_id |-> MaybePartOf("clubs"),
        user_id |-> PartOf("users")], {{"user_id", "role_id", "scope_club_id"}}, NoFields),
    Table("boat_photos", [boat_id |-> PartOf("boats"), image_id |-> PartOf("images")],
        {{"boat_id", "image_id"}}, NoFields),
    Table("devices", [device_type_id |-> Needs("device_types"),
        owner_user_id |-> LinksTo("users"), owner_boat_id |-> LinksTo("boats"),
        owner_club_id |-> LinksTo("clubs"), claimed_by |-> LinksTo("users")],
        {{"external_id"}, {"claim_code"}, {"api_key_hash"}},
        [status |-> {"unclaimed", "claimed", "revoked"}]),
    Rule("devices", "owner_at_most_one", {"owner_user_id", "owner_boat_id", "owner_club_id"}),
    Table("race_days", [regatta_id |-> MaybePartOf("regattas")], {}, NoFields),
    Table("user_boats", [boat_id |-> PartOf("boats"), user_id |-> PartOf("users")],
        {{"user_id", "boat_id"}},
        [default_sailing_role |-> {"skipper", "crew"}, role |-> {"owner", "admin", "visitor"}]) }

BaselineRaces == UNION {
    Table("races", [race_day_id |-> PartOf("race_days")], {{"race_day_id", "race_number"}},
        [status |-> {"scheduled", "started", "finished", "abandoned"}]),
    Table("activities", [club_id |-> LinksTo("clubs"), created_by |-> LinksTo("users"),
        group_id |-> LinksTo("groups"), race_id |-> LinksTo("races")], {},
        [type |-> {"race", "training", "solo"},
        visibility |-> {"public", "club", "group", "private"}]),
    Table("marks", [activity_id |-> PartOf("activities")], {}, [mark_role |-> {"pin", "rc",
        "windward", "leeward", "gate_port", "gate_stbd", "offset", "drill"}]),
    Table("sessions", [activity_id |-> PartOf("activities"), boat_id |-> Needs("boats")], {},
        [status |-> {"pending", "processing", "processed", "failed"}]),
    Table("polar_points", [boat_id |-> MaybePartOf("boats"),
        class_id |-> MaybePartOf("boat_classes"), session_id |-> MaybePartOf("sessions")], {},
        [source |-> {"reference", "empirical"}]),
    Rule("polar_points", "owner_exactly_one", {"class_id", "boat_id", "session_id"}),
    Table("results", [boat_id |-> Needs("boats"), race_id |-> PartOf("races"),
        session_id |-> LinksTo("sessions")], {{"race_id", "boat_id"}},
        [status |-> {"finished", "dnf", "dns", "dsq", "ocs", "ret"}]) }

BaselineSessions == UNION {
    Table("session_crew", [session_id |-> PartOf("sessions"), user_id |-> PartOf("users")],
        {{"session_id", "user_id"}}, [sailing_role |-> {"skipper", "crew", "guest"}]),
    Table("session_photos", [created_by |-> LinksTo("users"), image_id |-> PartOf("images"),
        session_id |-> PartOf("sessions")], {{"session_id", "image_id"}}, NoFields),
    Table("session_stats", [session_id |-> PartOf("sessions")], {}, NoFields),
    Table("session_uploads", [device_id |-> MaybeNeeds("devices"),
        import_id |-> MaybeNeeds("imports"), session_id |-> PartOf("sessions"),
        subject_user_id |-> LinksTo("users")], {{"session_id", "device_id", "sequence_number"}},
        [source_type |-> {"device", "manual_import"},
        status |-> {"pending", "processing", "processed", "failed"},
        subject_type |-> {"boat", "crew_member"}]),
    Rule("session_uploads", "source_consistent", {"source_type", "device_id", "import_id"}),
    Rule("session_uploads", "subject_consistent", {"subject_type", "subject_user_id"}),
    Table("session_videos", [created_by |-> LinksTo("users"), file_id |-> PartOf("files"),
        session_id |-> PartOf("sessions")], {{"session_id", "file_id"}}, NoFields),
    Table("session_streams", [session_upload_id |-> PartOf("session_uploads")], {},
        [sensor_type |-> {"gps", "imu", "wind", "pressure", "heart_rate", "other"}]) }

Baseline == UNION {
    BaselineAccounts, BaselineMedia, BaselineFleet,
    BaselineMembers, BaselineRaces, BaselineSessions }

-----------------------------------------------------------------------------
(***************************************************************************)
(* The revisions.  A change drops tables (gone) and facts, then adds facts.*)
(* drop_constraint completes a CHECK's name by the naming convention of    *)
(* Base.metadata, as create_check_constraint does: both name the fact by   *)
(* the part they are given.                                                *)
(***************************************************************************)

Change(gone, drop, add) == [gone |-> gone, drop |-> drop, add |-> add]
Add(add)   == Change({}, {}, add)
Drop(drop) == Change({}, drop, {})
Swap(drop, add) == Change({}, drop, add)
Gone(gone) == Change(gone, {}, {})

R0001 == [
  up   |-> Add(Baseline),
  down |-> Gone({"session_streams", "session_videos", "session_uploads", "session_stats",
             "session_photos", "session_crew", "results", "polar_points", "sessions", "marks",
             "activities", "races", "user_boats", "race_days", "devices", "boat_photos",
             "user_roles", "user_groups", "user_clubs", "regattas", "boats", "groups", "clubs",
             "boat_classes", "wind_observations", "role_permissions", "imports", "images",
             "files", "auth_refresh_tokens", "wind_stations", "users", "roles", "permissions",
             "device_types"})]

ClubStatus(vs) == Enums("user_clubs", [status |-> vs])

R0002 == LET groups == Column("user_groups", {"status"}, "required")
                 \cup Enums("user_groups", [status |-> {"invited", "requested", "active"}])
             before == ClubStatus({"invited", "active", "deleted"})
             after  == ClubStatus({"invited", "requested", "active", "deleted"})
         IN [up |-> Swap(before, groups \cup after), down |-> Swap(after \cup groups, before)]

R0003 == LET type  == Column("boats", {"type"}, "optional")
             class == Refs("boats", [boat_class_id |-> LinksTo("boat_classes")])
         IN [up |-> Swap(type, class), down |-> Swap(class, type)]

R0004 == [
  up   |-> Add(UNION {
             Table("session_maneuvers", [session_id |-> PartOf("sessions")], {},
                 [maneuver_type |-> {"tack", "gybe"}]),
             Column("session_maneuvers", {"max_heel_deg"}, "optional"),
             Table("session_legs", [session_id |-> PartOf("sessions")], {},
                 [leg_type |-> {"upwind", "downwind", "reach"}]),
             Table("session_analysis", [session_id |-> PartOf("sessions")], {}, NoFields) }),
  down |-> Gone({"session_analysis", "session_legs", "session_maneuvers"})]

R0005 == LET target == Column("session_analysis", {"polar_target"}, "optional")
         IN [up |-> Add(target), down |-> Drop(target)]

R0006 == LET units == Column("users", {"unit_system"}, "required")
                 \cup Enums("users", [unit_system |-> {"nautical", "metric"}])
         IN [up |-> Add(units), down |-> Drop(units)]

R0007 == LET thumbnail == Refs("session_analysis", [thumbnail_image_id |-> LinksTo("images")])
         IN [up |-> Add(thumbnail), down |-> Drop(thumbnail)]

R0008 == LET thumbnail == Refs("activities", [thumbnail_image_id |-> LinksTo("images")])
         IN [up |-> Add(thumbnail), down |-> Drop(thumbnail)]

IsForecast == Column("wind_observations", {"is_forecast"}, "required")

R0009 == [up |-> Add(IsForecast), down |-> Drop(IsForecast)]

R0010 == LET tack == Column("session_legs", {"tack"}, "optional")
                 \cup Enums("session_legs", [tack |-> {"port", "starboard"}])
         IN [up |-> Add(tack), down |-> Drop(tack)]

Provider(vs)    == Enums("wind_stations", [provider |-> vs])
StationType(vs) == Enums("wind_stations", [station_type |-> vs])

R0011 == LET before == Provider({"noaa_ndbc", "noaa_metar", "open_meteo", "custom_device"})
                 \cup StationType({"buoy", "metar", "forecast_grid", "custom_device"})
             after  == Provider({"noaa_ndbc", "noaa_metar", "custom_device"})
                 \cup StationType({"buoy", "metar", "custom_device"})
             keeps  == Column("wind_stations", {"keeps_local_history"}, "required")
         IN [up   |-> Swap(before \cup IsForecast, UNION {after, keeps,
                        Table("wind_estimates", NoFields,
                            {{"grid_lat", "grid_lng", "time_bucket"}}, NoFields)}),
             down |-> Change({"wind_estimates"}, after \cup keeps, before \cup IsForecast)]

R0012 == LET wind == Column("session_analysis", {"true_wind"}, "optional")
         IN [up |-> Add(wind), down |-> Drop(wind)]

SensorType(vs) == Enums("session_streams", [sensor_type |-> vs])

R0013 == LET before == SensorType({"gps", "imu", "wind", "pressure", "heart_rate", "other"})
             after  == SensorType({"gps", "imu", "wind", "pressure", "heart_rate",
                           "estimated_position", "estimated_motion", "other"})
         IN [up |-> Swap(before, after), down |-> Swap(after, before)]

R0014 == LET job == Column("session_uploads", {"reanalysis_status", "reanalysis_error"}, "optional")
                 \cup Enums("session_uploads", [reanalysis_status |-> {"running", "failed"}])
         IN [up |-> Add(job), down |-> Drop(job)]

ManeuverType(vs) == Enums("session_maneuvers", [maneuver_type |-> vs])

R0015 == LET features == Column("session_maneuvers", {"features"}, "optional")
             before   == ManeuverType({"tack", "gybe"})
             after    == ManeuverType({"tack", "gybe", "course_change"})
         IN [up   |-> Swap(before, features \cup after),
             down |-> Swap(after \cup features, before)]

\* A downgrade that does not give the column back.
R0016OneWay == LET heel == Column("session_maneuvers", {"max_heel_deg"}, "optional")
               IN [up |-> Drop(heel), down |-> Drop({})]

R0016 == LET heel == Column("session_maneuvers", {"max_heel_deg"}, "optional")
         IN [up |-> Drop(heel), down |-> Add(heel)]

R0017 == LET original == Column("session_maneuvers",
                             {"original_maneuver_type", "corrected_by_user"}, "required")
                 \cup Enums("session_maneuvers",
                         [original_maneuver_type |-> {"tack", "gybe", "course_change"}])
         IN [up |-> Add(original), down |-> Drop(original)]

R0018 == LET source == Column("session_maneuvers", {"source", "rejected", "pending"}, "required")
                 \cup Enums("session_maneuvers", [source |-> {"detected", "manual"}])
         IN [up |-> Add(source), down |-> Drop(source)]

R0019 == LET details == Column("boat_classes", {"loa_m", "beam_m", "sail_area_sqm", "crew_size",
                             "hull_type", "rig_type", "py_rating"}, "optional")
                 \cup Enums("boat_classes", [hull_type |-> {"monohull", "multihull"}])
         IN [up |-> Add(details), down |-> Drop(details)]

R0020 == LET yardstick == UNION {
                 Column("boat_classes", {"spinnaker_type", "rya_class_id"}, "optional"),
                 Enums("boat_classes", [rig_type |-> {"sloop", "una"},
                     spinnaker_type |-> {"none", "asymmetric", "symmetric"}]),
                 UniqueKeys("boat_classes", {{"rya_class_id"}}) }
         IN [up |-> Add(yardstick), down |-> Drop(yardstick)]

R0021 == LET url    == Column("wind_stations", {"source_url"}, "optional")
             before == Provider({"noaa_ndbc", "noaa_metar", "custom_device"})
             after  == Provider({"noaa_ndbc", "noaa_metar", "custom_device", "cumulus_realtime"})
         IN [up |-> Swap(before, url \cup after), down |-> Swap(after \cup url, before)]

R0022 == LET before == Provider({"noaa_ndbc", "noaa_metar", "custom_device", "cumulus_realtime"})
             after  == Provider({"noaa_ndbc", "noaa_metar", "custom_device", "cumulus_realtime",
                           "cumulus_gauges_json"})
         IN [up |-> Swap(before, after), down |-> Swap(after, before)]

R0023 == LET trim == Column("sessions", {"trim_start_time", "trim_end_time"}, "optional")
         IN [up |-> Add(trim), down |-> Drop(trim)]

R0024 == [up |-> Add(Table("app_config", NoFields, {}, NoFields)), down |-> Gone({"app_config"})]

PostImage == Refs("posts", [image_id |-> LinksTo("images")])

R0025 == [
  up   |-> Add(PostImage \cup Table("posts", [author_id |-> LinksTo("users")], {},
                                   [owner_type |-> {"club", "group"}])),
  down |-> Gone({"posts"})]

R0026 == [
  up   |-> Swap(PostImage, Table("post_images",
             [post_id |-> PartOf("posts"), image_id |-> PartOf("images")],
             {{"post_id", "image_id"}}, NoFields)),
  down |-> Change({"post_images"}, {}, PostImage)]

R0027 == LET status == UNION { Column("activities", {"status"}, "required"),
                 Enums("activities", [status |-> {"planned", "completed"}]),
                 Column("activities", {"description"}, "optional") }
         IN [up |-> Add(status), down |-> Drop(status)]

\* An image that takes the regatta with it.
R0028Cascade == LET image == Refs("regattas", [image_id |-> MaybePartOf("images")])
                IN [up |-> Add(image), down |-> Drop(image)]

R0028 == LET image == Refs("regattas", [image_id |-> LinksTo("images")])
         IN [up |-> Add(image), down |-> Drop(image)]

R0029 == LET edited == Column("posts", {"updated_at"}, "optional")
         IN [up |-> Add(edited), down |-> Drop(edited)]

MarkRole(vs) == Enums("marks", [mark_role |-> vs])

R0030 == LET before == MarkRole({"pin", "rc", "windward", "leeward", "gate_port", "gate_stbd",
                           "offset", "drill"})
             after  == MarkRole({"pin", "rc", "windward", "leeward", "gate_port", "gate_stbd",
                           "offset", "drill", "finish_pin", "finish_rc"})
         IN [up |-> Swap(before, after), down |-> Swap(after, before)]

\* The downgrade gives drop_constraint the completed name, which the naming
\* convention completes once more.
R0031 == LET links == Refs("posts", [activity_id |-> LinksTo("activities"),
                                     regatta_id |-> LinksTo("regattas")])
             OneLink(n) == Rule("posts", n, {"activity_id", "regatta_id"})
         IN [up   |-> Add(links \cup OneLink("single_event_link")),
             down |-> Drop(OneLink("ck_posts_single_event_link") \cup links)]

R0032 == [
  up   |-> Add(Table("integration_connections", [user_id |-> PartOf("users")],
             {{"user_id", "provider"}}, [provider |-> {"garmin", "polar"},
             status |-> {"pending", "active", "revoked", "error"}])),
  down |-> Gone({"integration_connections"})]

R0033 == LET legal == Column("users", {"terms_version", "terms_accepted_at",
                           "privacy_version", "privacy_accepted_at"}, "optional")
         IN [up |-> Add(legal), down |-> Drop(legal)]

R0034 == LET support == Column("users", {"support_prompt_next_at", "support_donated_at"}, "optional")
         IN [up |-> Add(support), down |-> Drop(support)]

Revisions == <<R0001, R0002, R0003, R0004, R0005, R0006, R0007, R0008, R0009,
    R0010, R0011, R0012, R0013, R0014, R0015, R0016, R0017, R0018, R0019,
    R0020, R0021, R0022, R0023, R0024, R0025, R0026, R0027, R0028, R0029,
    R0030, R0031, R0032, R0033, R0034>>

Newest == Len(Revisions)

-----------------------------------------------------------------------------
(* What the revisions do to the rows they find. *)

HasRows(rs, t)  == \E x \in rs : x[1] = t
Of(rs, t, c)    == {x[3] : x \in {y \in rs : y[1] = t /\ y[2] = c}}

\* A column added with a server default, or backfilled by an UPDATE.
Filled(rs, t, c, v) == IF HasRows(rs, t) THEN {<<t, c, v>>} ELSE {}

\* An upgrade that narrows the CHECK over the rows it meant to delete.
WithOpenMeteo(rs) == rs

\* A row of open_meteo is a forecast grid, and a forecast grid is of open_meteo.
OpenMeteo == {<<"provider", "open_meteo">>, <<"station_type", "forecast_grid">>}

\* The stations of open_meteo go, and their observations with them.
WithoutOpenMeteo(rs) ==
    IF "open_meteo" \in Of(rs, "wind_stations", "provider")
    THEN {x \in rs : x[1] = "wind_stations" => <<x[2], x[3]>> \notin OpenMeteo}
    ELSE rs

OriginalTypes(rs) ==
    {<<"session_maneuvers", "original_maneuver_type", v>> :
        v \in Of(rs, "session_maneuvers", "maneuver_type")}

OtherRigs(rs) ==
    {x \in rs : x[1] = "boat_classes" /\ x[2] = "rig_type" /\ x[3] \notin {"sloop", "una"}}

ImagesOfPosts(rs) == {<<"post_images", "image_id", v>> : v \in Of(rs, "posts", "image_id")}

Legacy(rs) ==
    IF "true" \in Of(rs, "users", "terms_and_conditions")
    THEN {<<"users", "terms_version", "legacy">>, <<"users", "privacy_version", "legacy">>}
    ELSE {}

UpRows(v, rs) ==
    CASE v = 2  -> rs \cup Filled(rs, "user_groups", "status", "active")
      [] v = 6  -> rs \cup Filled(rs, "users", "unit_system", "nautical")
      [] v = 9  -> rs \cup Filled(rs, "wind_observations", "is_forecast", "false")
      [] v = 11 -> WithoutOpenMeteo(rs) \cup
                   Filled(WithoutOpenMeteo(rs), "wind_stations", "keeps_local_history", "true")
      [] v = 17 -> rs \cup OriginalTypes(rs)
                      \cup Filled(rs, "session_maneuvers", "corrected_by_user", "false")
      [] v = 18 -> rs \cup UNION {
                      Filled(rs, "session_maneuvers", "source", "detected"),
                      Filled(rs, "session_maneuvers", "rejected", "false"),
                      Filled(rs, "session_maneuvers", "pending", "false") }
      [] v = 20 -> rs \ OtherRigs(rs)
      [] v = 26 -> rs \cup ImagesOfPosts(rs)
      [] v = 27 -> rs \cup Filled(rs, "activities", "status", "completed")
      [] v = 33 -> rs \cup Legacy(rs)
      [] OTHER  -> rs

\* Taking 0026 back leaves each post one of its images.
FirstImages(rs) ==
    LET images == Of(rs, "post_images", "image_id")
    IN {{<<"posts", "image_id", v>> : v \in kept} :
            kept \in {k \in SUBSET images : images = {} \/ k # {}}}

FinishMarks == {<<"marks", "mark_role", "finish_pin">>, <<"marks", "mark_role", "finish_rc">>}

\* The sets of rows a downgrade may leave.
DownRows(v, rs) ==
    CASE v = 11 -> {rs \cup Filled(rs, "wind_observations", "is_forecast", "false")}
      [] v = 26 -> {rs \cup images : images \in FirstImages(rs)}
      [] v = 30 -> {rs \ FinishMarks}
      [] OTHER  -> {rs}

-----------------------------------------------------------------------------
(* PostgreSQL. *)

HasColumn(s, t, c) == \E f \in s : f[1] \in {"ref", "enum", "column"} /\ f[2] = t /\ f[3] = c
Kept(rs, s) == {x \in rs : HasColumn(s, x[1], x[2])}

Changed(s, ch) == ({f \in s : f[2] \notin ch.gone} \ ch.drop) \cup ch.add

NoDangling(s) == \A f \in s : f[1] = "ref" => <<"table", f[4][1]>> \in s

ChecksHold(s, rs) == \A f \in s : f[1] = "enum" => Of(rs, f[2], f[3]) \subseteq f[4]

Applies(s, ch, rs) ==
    /\ ch.drop \subseteq s
    /\ {<<"table", t>> : t \in ch.gone} \subseteq s
    /\ ch.add \cap (s \ ch.drop) = {}
    /\ NoDangling(Changed(s, ch))
    /\ ChecksHold(Changed(s, ch), rs)
    /\ \A f \in ch.add :
          f[1] = "column" /\ f[4] = "required" /\ HasRows(rs, f[2])
              => Of(rs, f[2], f[3]) # {}

-----------------------------------------------------------------------------
SchemaInit ==
    /\ version = 0
    /\ schema = {}
    /\ rows = {}
    /\ refused = <<>>

Upgrade ==
    /\ version < Newest
    /\ LET v  == version + 1
           ch == Revisions[v].up
           rs == Kept(UpRows(v, rows), Changed(schema, ch))
       IN IF Applies(schema, ch, rs)
          THEN /\ version' = v
               /\ schema' = Changed(schema, ch)
               /\ rows' = rs
               /\ refused' = <<>>
          ELSE refused' = <<"up", v>> /\ UNCHANGED <<version, schema, rows>>

Downgrade ==
    /\ version > 0
    /\ LET ch == Revisions[version].down
       IN \E after \in DownRows(version, rows) :
             LET rs == Kept(after, Changed(schema, ch))
             IN IF Applies(schema, ch, rs)
                THEN /\ version' = version - 1
                     /\ schema' = Changed(schema, ch)
                     /\ rows' = rs
                     /\ refused' = <<>>
                ELSE refused' = <<"down", version>> /\ UNCHANGED <<version, schema, rows>>

\* A maneuver has a type from the start, and a forecast grid is of open_meteo.
Whole(rs) ==
    /\ HasRows(rs, "session_maneuvers") => Of(rs, "session_maneuvers", "maneuver_type") # {}
    /\ "forecast_grid" \in Of(rs, "wind_stations", "station_type")
          => "open_meteo" \in Of(rs, "wind_stations", "provider")

\* The release of this version stores a value its CHECKs allow.
Write ==
    /\ Cardinality(rows) < MaxRows
    /\ \E x \in Values \ rows :
          /\ HasColumn(schema, x[1], x[2])
          /\ Whole(rows \cup {x})
          /\ ChecksHold(schema, {x})
          /\ rows' = rows \cup {x}
    /\ UNCHANGED <<version, schema, refused>>

SchemaNext == Upgrade \/ Downgrade \/ Write

SchemaSpec == SchemaInit /\ [][SchemaNext]_schemaVars

-----------------------------------------------------------------------------
SchemaAt[v \in 0..Newest] ==
    IF v = 0 THEN {} ELSE Changed(SchemaAt[v - 1], Revisions[v].up)

\* The tables a DELETE of a row of t may delete rows of, by ON DELETE CASCADE.
WithParts(s, ts) == ts \cup
    {f[2] : f \in {g \in s : g[1] = "ref" /\ g[4][2] = "CASCADE" /\ g[4][1] \in ts}}

Erased(s, t) ==
    LET Reach[n \in 0..6] == IF n = 0 THEN {t} ELSE WithParts(s, Reach[n - 1])
    IN Reach[6]

-----------------------------------------------------------------------------
(***************************************************************************)
(* Whatever was upgraded, taken back and upgraded again, and whatever rows *)
(* stood in the way, the schema is the one the chain gives this version,   *)
(* and at the newest version it is the one the ORM classes declare: an     *)
(* older release finds its own schema after a downgrade.                   *)
(***************************************************************************)
SchemaIsVersion ==
    /\ schema = SchemaAt[version]
    /\ version = Newest => schema = Models

(***************************************************************************)
(* No rows that the releases in between were allowed to write keep the     *)
(* server from migrating to the newest version when it starts: where a     *)
(* revision narrows a CHECK or adds a NOT NULL, it first deletes, rewrites *)
(* or fills the rows in the way.                                           *)
(***************************************************************************)
StartupMigrates == refused = <<>> \/ refused[1] # "up"

(***************************************************************************)
(* Deleting an account, a club, a group, a picture, a document or a device *)
(* never takes a recorded session, a boat, an activity or a race result    *)
(* with it, in any version; and deleting a boat takes no result.           *)
(***************************************************************************)
HistorySurvives ==
    /\ \A t \in {"users", "clubs", "groups", "images", "files", "devices", "imports"} :
          Erased(schema, t) \cap {"sessions", "boats", "activities", "results", "regattas"} = {}
    /\ Erased(schema, "boats") \cap {"sessions", "results"} = {}

(***************************************************************************)
(* Revision 0031 says its downgrade names the constraint it created, 0015  *)
(* that its downgrade "safely narrows the CHECK back": every downgrade     *)
(* can be taken.                                                           *)
(* Not kept by the code: see README, section 6.                            *)
(***************************************************************************)
DowngradesApply == refused = <<>> \/ refused[1] # "down"

=============================================================================
