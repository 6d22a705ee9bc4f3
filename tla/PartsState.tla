----------------------------- MODULE PartsState -----------------------------
(* The constants and the variables of the thirteen components of Parts, and *)
(* those of the components that Parts_lemmas is about.                      *)
EXTENDS Integers, Sequences, FiniteSets

CONSTANTS
    \* ScamKeys
    batch_size, PeriodLength, RingLength, MaxPeriod, MaxHups, Streams,
    \* Cam, CamMenu
    CamChannels, cam_delay_pmt_send, cam_interval_pmt_send, cam_reask_interval, reset_interval,
    max_reset_number, MaxNow, EnquiryLengths,
    \* Monitor
    MonChannels, Samples, MaxLost, MaxRound, up_threshold, down_threshold, timeout_no_diff, Tunings,
    MaxMonNow,
    \* Sap, NitPsip
    SapChannels, sap_interval, TooLong, MaxName, MaxSapNow,
    NitChannels, NitVersions, NitLast, NitSectionOf(_),
    \* Clients
    ClientIds, ClientChannels, ChannelPorts, max_clients,
    \* Hls
    HlsServices, hls_rotate_time, hls_rotate_count, hls_rotate_iframe, playlist_ignore_dead,
    MaxHlsNow,
    \* SdtRewrite, EitRewrite, PmtRewrite
    SdtChannels, SdtVersions, LastSection, SectionOf(_, _),
    EitChannels, Tables, Keys, EitVersions, EitLast,
    PmtChannels, PmtVersions, PartsOf(_),
    \* Lifecycle
    Configs,
    \* Datagrams
    MaxPackets, TS_PACKET_SIZE, RTP_HEADER_LEN, MAX_UDP_SIZE, SequenceNumbers

VARIABLES
    part,  \* the component that is checked
    period, length, waiting, cw, got_key, ca_idx, ca_idx_refcnt, camd, need_scam_ask, thread,
    given, hups, timely, misused,
    camthread, cam_type, seconds, polled, ca_info_ok_time, ca_resource_connected,
    timeout_no_cam_init, reset_counts, cam_interrupted, last_channel_check, cam_pmt_send_time,
    asked, bad, resets,
    mmi_state, cam_mmi_autoresponse, mmi_enq_length, mmi_enq_entered, key,
    monitor_now, dont_send_scrambled, tuning_no_diff, running, ready, has_traffic,
    scrambled_channel, last_updown_check, time_no_diff, mon_interrupted, seen, tuned,
    sap_now, polled_now, name, sap_ready, sap_need_update, message, sap_last_time_sent,
    building, on_air, changed, crossed, rebuilt,
    reader, nit_air, nit_assembling, nit_version, nit_seen, nit_all_sections_seen,
    nit_need_update, listed, value, named, sap_asked, unread, missed, untimely,
    pfds, clients, client_number, chan_ptr, askedChannel, kept, chan_clients, num_clients,
    actual_fd, due, zeroed,
    hls_now, hls_fds, chunks, playlist, master, metrics, task, wake, master_time, checksum,
    hls_stopped, twice, collided, late,
    air_version, assembling, full_sdt, full_sdt_ok, sdt_version, sdt_needs_update,
    sdt_need_others, sections_seen, sdt_ready, generated_sdt, generated_sdt_version,
    sdt_rewrite_skip, sdt_sent, seen_versions, failed, late_ready, unlucky, early,
    eit_air, eit_assembling, eit_needs_update, eit_packets, table_to_send, section_to_send,
    eit_sent, given_twice,
    pmt_air, pmt_at, original_pmt, original_pmt_ready, pmt_part_num, pmt_part_count,
    generated_pmt, generated_pmt_version, pmt_ts_packet, pmt_sent, pmt_fresh, pmt_lost,
    config, at, alive, told, made, released, timedout, why, failed_at, exitcode,
    net_options, dg_ready, rtp, socketOut, nb_bytes, buffer, rtp_packet_num, came, taken, out,
    datagrams

keyVars == <<period, length, waiting, cw, got_key, ca_idx, ca_idx_refcnt, camd, need_scam_ask, thread,
    given, hups, timely, misused>>
camVars == <<camthread, cam_type, seconds, polled, ca_info_ok_time, ca_resource_connected,
    timeout_no_cam_init, reset_counts, cam_interrupted, last_channel_check,
    cam_pmt_send_time, asked, bad, resets>>
menuVars == <<mmi_state, cam_mmi_autoresponse, mmi_enq_length, mmi_enq_entered, key>>
monVars == <<monitor_now, dont_send_scrambled, tuning_no_diff, running, ready, has_traffic,
    scrambled_channel, last_updown_check, time_no_diff, mon_interrupted, seen, tuned>>
sapVars == <<sap_now, polled_now, name, sap_ready, sap_need_update, message, sap_last_time_sent,
    building, on_air, changed, crossed, rebuilt>>
nitVars == <<reader, nit_air, nit_assembling, nit_version, nit_seen, nit_all_sections_seen,
    nit_need_update, listed, value, named, sap_asked, unread, missed, untimely>>
clVars == <<pfds, clients, client_number, chan_ptr, askedChannel, kept, chan_clients, num_clients,
    actual_fd, due, zeroed>>
hlsVars == <<hls_now, hls_fds, chunks, playlist, master, metrics, task, wake, master_time, checksum,
    hls_stopped, twice, collided, late>>
sdtVars == <<air_version, assembling, full_sdt, full_sdt_ok, sdt_version, sdt_needs_update,
    sdt_need_others, sections_seen, sdt_ready, generated_sdt, generated_sdt_version,
    sdt_rewrite_skip, sdt_sent, seen_versions, failed, late_ready, unlucky, early>>
eitVars == <<eit_air, eit_assembling, eit_needs_update, eit_packets, table_to_send, section_to_send,
    eit_sent, given_twice>>
pmtVars == <<pmt_air, pmt_at, original_pmt, original_pmt_ready, pmt_part_num, pmt_part_count,
    generated_pmt, generated_pmt_version, pmt_ts_packet, pmt_sent, pmt_fresh, pmt_lost>>
lcVars == <<config, at, alive, told, made, released, timedout, why, failed_at, exitcode>>
dgVars == <<net_options, dg_ready, rtp, socketOut, nb_bytes, buffer, rtp_packet_num, came, taken,
    out, datagrams>>

K == INSTANCE ScamKeys
C == INSTANCE Cam
Menu == INSTANCE CamMenu
Mon == INSTANCE Monitor
Cl == INSTANCE Clients
H == INSTANCE Hls
L == INSTANCE Lifecycle

ASSUME KeysSized == K!KeysAssumption
ASSUME CamConfigured == C!CamAssumption
ASSUME MenuLengths == Menu!MenuAssumption
ASSUME MonitorConfigured == Mon!MonitorAssumption
ASSUME PortsOfChannels == Cl!ClientsAssumption
ASSUME HlsConfigured == H!HlsAssumption
=============================================================================
