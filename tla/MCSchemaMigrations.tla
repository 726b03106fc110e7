------------------------- MODULE MCSchemaMigrations -------------------------
EXTENDS SchemaMigrations

MCValues == {
    <<"user_clubs", "status", "requested">>, <<"user_groups", "role", "member">>,
    <<"session_maneuvers", "maneuver_type", "tack">>,
    <<"session_maneuvers", "maneuver_type", "course_change">>,
    <<"session_streams", "sensor_type", "estimated_position">>,
    <<"wind_stations", "provider", "open_meteo">>, <<"wind_stations", "provider", "noaa_metar">>,
    <<"wind_stations", "station_type", "forecast_grid">>,
    <<"session_maneuvers", "corrected_by_user", "true">>,
    <<"wind_stations", "provider", "cumulus_realtime">>,
    <<"boat_classes", "rig_type", "ketch">>, <<"marks", "mark_role", "finish_pin">>,
    <<"users", "terms_and_conditions", "true">>, <<"activities", "type", "solo">>,
    <<"posts", "image_id", "flyer">>, <<"post_images", "image_id", "page">> }
=============================================================================
