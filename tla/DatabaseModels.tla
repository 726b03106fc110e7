--------------------------- MODULE DatabaseModels ---------------------------
(***************************************************************************)
(* The database schema the server's code expects: the ORM classes of       *)
(* src/backend/db/models.                                                  *)
(*                                                                         *)
(* A schema is a set of facts.  A fact names its table second:             *)
(*   <<"table", t>>                  the table exists                      *)
(*   <<"ref", t, c, r>>              column c of t refers to table r[1];   *)
(*                                   r[2] is its ON DELETE rule, r[3] says *)
(*                                   whether c may be NULL                 *)
(*   <<"key", t, cs>>                the columns cs are unique together    *)
(*   <<"enum", t, c, vs>>            CHECK ck_<t>_<c>_allowed: c IN vs     *)
(*   <<"rule", t, n, cs>>            CHECK ck_<t>_<n> on the columns cs    *)
(*   <<"column", t, c, null>>        a plain column that some revision     *)
(*                                   adds, drops or reads                  *)
(* Columns no revision touches and that carry no constraint are left out,  *)
(* as are the indexes that are not unique and the types of the columns.    *)
(***************************************************************************)
NoFields == <<>>

Refs(t, refs) == {<<"ref", t, c, refs[c]>> : c \in DOMAIN refs}
UniqueKeys(t, keys) == {<<"key", t, cs>> : cs \in keys}
Enums(t, enums) == {<<"enum", t, c, enums[c]>> : c \in DOMAIN enums}
Rule(t, n, cs) == {<<"rule", t, n, cs>>}
Column(t, cs, null) == {<<"column", t, c, null>> : c \in cs}

Table(t, refs, keys, enums) ==
    {<<"table", t>>} \cup Refs(t, refs) \cup UniqueKeys(t, keys) \cup Enums(t, enums)

\* The five kinds of foreign key the code declares.
PartOf(r)      == <<r, "CASCADE",  "required">>
MaybePartOf(r) == <<r, "CASCADE",  "optional">>
LinksTo(r)     == <<r, "SET NULL", "optional">>
Needs(r)       == <<r, "RESTRICT", "required">>
MaybeNeeds(r)  == <<r, "RESTRICT", "optional">>

-----------------------------------------------------------------------------
ActivityORM == UNION {
    Table("activities", [club_id |-> LinksTo("clubs"), race_id |-> LinksTo("races"),
        created_by |-> LinksTo("users"), group_id |-> LinksTo("groups"),
        thumbnail_image_id |-> LinksTo("images")], {}, [type |-> {"race", "training", "solo"},
        visibility |-> {"public", "club", "group", "private"},
        status |-> {"planned", "completed"}]),
    Column("activities", {"description"}, "optional"),
    Column("activities", {"status"}, "required") }

MarkORM ==
    Table("marks", [activity_id |-> PartOf("activities")], {}, [mark_role |-> {"pin", "rc",
        "windward", "leeward", "gate_port", "gate_stbd", "offset", "drill", "finish_pin",
        "finish_rc"}])

AppConfigORM ==
    Table("app_config", NoFields, {}, NoFields)

BoatClassORM == UNION {
    Table("boat_classes", [logo_id |-> LinksTo("images")], {{"rya_class_id"}, {"name"}},
        [hull_type |-> {"monohull", "multihull"}, rig_type |-> {"sloop", "una"},
        spinnaker_type |-> {"none", "asymmetric", "symmetric"}]),
    Column("boat_classes", {"loa_m", "beam_m", "sail_area_sqm", "crew_size", "hull_type",
        "rig_type", "py_rating", "spinnaker_type", "rya_class_id"}, "optional") }

BoatORM ==
    Table("boats", [boat_class_id |-> LinksTo("boat_classes"), cert_id |-> LinksTo("files"),
        mbsa_id |-> LinksTo("files"), club_id |-> LinksTo("clubs")], {}, NoFields)

UserBoatORM ==
    Table("user_boats", [user_id |-> PartOf("users"), boat_id |-> PartOf("boats")],
        {{"user_id", "boat_id"}},
        [role |-> {"owner", "admin", "visitor"}, default_sailing_role |-> {"skipper", "crew"}])

BoatPhotoORM ==
    Table("boat_photos", [boat_id |-> PartOf("boats"), image_id |-> PartOf("images")],
        {{"boat_id", "image_id"}}, NoFields)

ClubORM ==
    Table("clubs", [logo_id |-> LinksTo("images")], {}, NoFields)

UserClubORM ==
    Table("user_clubs", [user_id |-> PartOf("users"), club_id |-> PartOf("clubs")],
        {{"user_id", "club_id"}}, [status |-> {"invited", "requested", "active", "deleted"}])

DeviceTypeORM ==
    Table("device_types", NoFields, {{"name"}}, [category |-> {"boat_tracker", "wearable"}])

DeviceORM == UNION {
    Table("devices", [device_type_id |-> Needs("device_types"),
        owner_user_id |-> LinksTo("users"), owner_boat_id |-> LinksTo("boats"),
        owner_club_id |-> LinksTo("clubs"), claimed_by |-> LinksTo("users")], {{"external_id"},
        {"claim_code"}, {"api_key_hash"}}, [status |-> {"unclaimed", "claimed", "revoked"}]),
    Rule("devices", "owner_at_most_one", {"owner_user_id", "owner_boat_id", "owner_club_id"}) }

GroupORM ==
    Table("groups", [profile_image_id |-> LinksTo("images"), created_by |-> LinksTo("users"),
        deleted_by |-> LinksTo("users")], {}, [visibility |-> {"public", "private"}])

UserGroupORM == UNION {
    Table("user_groups", [user_id |-> PartOf("users"), group_id |-> PartOf("groups")],
        {{"user_id", "group_id"}},
        [role |-> {"owner", "admin", "member"}, status |-> {"invited", "requested", "active"}]),
    Column("user_groups", {"status"}, "required") }

ImportORM ==
    Table("imports", [uploaded_by |-> LinksTo("users")], {},
        [status |-> {"pending", "processed", "failed"}])

SessionUploadORM == UNION {
    Table("session_uploads", [session_id |-> PartOf("sessions"),
        device_id |-> MaybeNeeds("devices"), import_id |-> MaybeNeeds("imports"),
        subject_user_id |-> LinksTo("users")], {{"session_id", "device_id", "sequence_number"}},
        [source_type |-> {"device", "manual_import"}, subject_type |-> {"boat", "crew_member"},
        status |-> {"pending", "processing", "processed", "failed"},
        reanalysis_status |-> {"running", "failed"}]),
    Rule("session_uploads", "source_consistent", {"source_type", "device_id", "import_id"}),
    Rule("session_uploads", "subject_consistent", {"subject_type", "subject_user_id"}),
    Column("session_uploads", {"reanalysis_status", "reanalysis_error"}, "optional") }

SessionStreamORM ==
    Table("session_streams", [session_upload_id |-> PartOf("session_uploads")], {},
        [sensor_type |-> {"gps", "imu", "wind", "pressure", "heart_rate", "estimated_position",
        "estimated_motion", "other"}])

IntegrationConnectionORM ==
    Table("integration_connections", [user_id |-> PartOf("users")], {{"user_id", "provider"}},
        [provider |-> {"garmin", "polar"}, status |-> {"pending", "active", "revoked", "error"}])

ImageORM ==
    Table("images", [created_by |-> LinksTo("users"), deleted_by |-> LinksTo("users")], {},
        [status |-> {"uploaded", "processed", "deleted"}])

FileORM ==
    Table("files", [created_by |-> LinksTo("users"), deleted_by |-> LinksTo("users")], {},
        [status |-> {"uploaded", "processed", "deleted"}])

PolarPointORM == UNION {
    Table("polar_points", [class_id |-> MaybePartOf("boat_classes"),
        boat_id |-> MaybePartOf("boats"), session_id |-> MaybePartOf("sessions")], {},
        [source |-> {"reference", "empirical"}]),
    Rule("polar_points", "owner_exactly_one", {"class_id", "boat_id", "session_id"}) }

PostORM == UNION {
    Table("posts", [author_id |-> LinksTo("users"), activity_id |-> LinksTo("activities"),
        regatta_id |-> LinksTo("regattas")], {}, [owner_type |-> {"club", "group"}]),
    Rule("posts", "single_event_link", {"activity_id", "regatta_id"}),
    Column("posts", {"updated_at"}, "optional") }

PostImageORM ==
    Table("post_images", [post_id |-> PartOf("posts"), image_id |-> PartOf("images")],
        {{"post_id", "image_id"}}, NoFields)

RegattaORM ==
    Table("regattas", [image_id |-> LinksTo("images"), club_id |-> Needs("clubs"),
        class_id |-> LinksTo("boat_classes")], {},
        [scoring_system |-> {"low_point", "bonus_point", "custom"},
        status |-> {"scheduled", "active", "completed"}])

RaceDayORM ==
    Table("race_days", [regatta_id |-> MaybePartOf("regattas")], {}, NoFields)

RaceORM ==
    Table("races", [race_day_id |-> PartOf("race_days")], {{"race_day_id", "race_number"}},
        [status |-> {"scheduled", "started", "finished", "abandoned"}])

ResultORM ==
    Table("results", [race_id |-> PartOf("races"), boat_id |-> Needs("boats"),
        session_id |-> LinksTo("sessions")], {{"race_id", "boat_id"}},
        [status |-> {"finished", "dnf", "dns", "dsq", "ocs", "ret"}])

RoleORM ==
    Table("roles", NoFields, {{"name"}}, NoFields)

PermissionORM ==
    Table("permissions", NoFields, {{"key"}}, NoFields)

RolePermissionORM ==
    Table("role_permissions",
        [role_id |-> PartOf("roles"), permission_id |-> PartOf("permissions")],
        {{"role_id", "permission_id"}}, NoFields)

UserRoleORM ==
    Table("user_roles", [user_id |-> PartOf("users"), role_id |-> PartOf("roles"),
        scope_club_id |-> MaybePartOf("clubs")], {{"user_id", "role_id", "scope_club_id"}},
        NoFields)

SessionORM == UNION {
    Table("sessions", [activity_id |-> PartOf("activities"), boat_id |-> Needs("boats")], {},
        [status |-> {"pending", "processing", "processed", "failed"}]),
    Column("sessions", {"trim_start_time", "trim_end_time"}, "optional") }

SessionCrewORM ==
    Table("session_crew", [session_id |-> PartOf("sessions"), user_id |-> PartOf("users")],
        {{"session_id", "user_id"}}, [sailing_role |-> {"skipper", "crew", "guest"}])

SessionPhotoORM ==
    Table("session_photos", [session_id |-> PartOf("sessions"), image_id |-> PartOf("images"),
        created_by |-> LinksTo("users")], {{"session_id", "image_id"}}, NoFields)

SessionVideoORM ==
    Table("session_videos", [session_id |-> PartOf("sessions"), file_id |-> PartOf("files"),
        created_by |-> LinksTo("users")], {{"session_id", "file_id"}}, NoFields)

SessionStatsORM ==
    Table("session_stats", [session_id |-> PartOf("sessions")], {}, NoFields)

SessionManeuverORM == UNION {
    Table("session_maneuvers", [session_id |-> PartOf("sessions")], {},
        [maneuver_type |-> {"tack", "gybe", "course_change"},
        original_maneuver_type |-> {"tack", "gybe", "course_change"},
        source |-> {"detected", "manual"}]),
    Column("session_maneuvers", {"features"}, "optional"),
    Column("session_maneuvers",
        {"original_maneuver_type", "corrected_by_user", "source", "rejected", "pending"},
        "required") }

SessionLegORM == UNION {
    Table("session_legs", [session_id |-> PartOf("sessions")], {},
        [leg_type |-> {"upwind", "downwind", "reach"}, tack |-> {"port", "starboard"}]),
    Column("session_legs", {"tack"}, "optional") }

SessionAnalysisORM == UNION {
    Table("session_analysis",
        [session_id |-> PartOf("sessions"), thumbnail_image_id |-> LinksTo("images")],
        {}, NoFields),
    Column("session_analysis", {"polar_target", "true_wind"}, "optional") }

UserORM == UNION {
    Table("users", [profile_image_id |-> LinksTo("images")], {{"email"}},
        [status |-> {"inactive", "active", "deleted"}, unit_system |-> {"nautical", "metric"}]),
    Column("users", {"terms_version", "terms_accepted_at", "privacy_version",
        "privacy_accepted_at", "support_prompt_next_at", "support_donated_at"}, "optional"),
    Column("users", {"terms_and_conditions", "unit_system"}, "required") }

AuthRefreshTokenORM ==
    Table("auth_refresh_tokens",
        [user_id |-> PartOf("users"), prev_id |-> LinksTo("auth_refresh_tokens")],
        {{"token_hash"}}, NoFields)

WindStationORM == UNION {
    Table("wind_stations", NoFields, {{"provider", "external_station_id"}},
        [provider |-> {"noaa_ndbc", "noaa_metar", "custom_device", "cumulus_realtime",
        "cumulus_gauges_json"}, station_type |-> {"buoy", "metar", "custom_device"}]),
    Column("wind_stations", {"source_url"}, "optional"),
    Column("wind_stations", {"keeps_local_history"}, "required") }

WindObservationORM ==
    Table("wind_observations", [wind_station_id |-> PartOf("wind_stations")],
        {{"wind_station_id", "observed_at"}}, NoFields)

WindEstimateORM ==
    Table("wind_estimates", NoFields, {{"grid_lat", "grid_lng", "time_bucket"}}, NoFields)


\* What Base.metadata holds once backend.db.models is imported.
Models == UNION {
    ActivityORM, MarkORM, AppConfigORM, BoatClassORM, BoatORM, UserBoatORM,
    BoatPhotoORM, ClubORM, UserClubORM, DeviceTypeORM, DeviceORM, GroupORM,
    UserGroupORM, ImportORM, SessionUploadORM, SessionStreamORM,
    IntegrationConnectionORM, ImageORM, FileORM, PolarPointORM, PostORM,
    PostImageORM, RegattaORM, RaceDayORM, RaceORM, ResultORM, RoleORM,
    PermissionORM, RolePermissionORM, UserRoleORM, SessionORM, SessionCrewORM,
    SessionPhotoORM, SessionVideoORM, SessionStatsORM, SessionManeuverORM,
    SessionLegORM, SessionAnalysisORM, UserORM, AuthRefreshTokenORM,
    WindStationORM, WindObservationORM, WindEstimateORM }
=============================================================================
